-------------------------- MODULE MergeGateProofs --------------------------
(***************************************************************************)
(* Theorems about MergeGate, for any changes and any bound.                 *)
(***************************************************************************)
EXTENDS MergeGate, TLAPS, WellFoundedInduction

-----------------------------------------------------------------------------
(***************************************************************************)
(* What a run knows at each of its steps, and what the row says then. The   *)
(* theorems below need it: the types alone let a run land without a         *)
(* verdict, or be about a session whose branch is gone.                     *)
(***************************************************************************)

\* A commit's history holds the history of every commit in it.
Closed == \A c \in Commits : \A d \in Past(c) : Past(d) \subseteq Past(c)

Stage ==
    /\ run.pc \in Fresh \cup Pinned \cup {"record"} => row = "awaiting-review"
    /\ run.pc \in After \ {"record"} => row = "merged"
    /\ branch = None => row = "merged"
    /\ run.landed = IF run.pc \in After THEN {run.pin} ELSE {}
    /\ run.passed = IF run.pc \in Pinned \ {"measure"}
                    THEN {<<run.pin, run.base>>} ELSE {}

\* Filed once, and before anything flagged lands.
Filed ==
    /\ filed \in {0, 1}
    /\ owed => filed = 1
    /\ run.pc \in Pinned \ {"measure", "file"} /\ run.flag => filed = 1

Reviewed ==
    /\ pr # "none" => remote # None
    /\ run.pc \in {"push", "track", "open", "verify"} => run.pr
    /\ run.pc \in {"track", "open", "verify"} => remote # None
    /\ pr = "open" /\ run.pr /\ run.pc \in Fresh \cup {"measure", "file", "push"}
          => run.adopted

Based ==
    /\ bar \in Past(target)
    /\ run.pc \in After /\ ~run.pr => run.pin \in Past(target)

Told ==
    /\ run.pc \in {"worktree", "event", "ratchet"} => ~alive
    /\ recorded.sha # None =>
          /\ row = "merged"
          /\ run.pc \in {"idle", "ratchet"}
          /\ ~alive
          /\ recorded.left = (branch \notin {None, recorded.sha})

Inv == TypeOK /\ Closed /\ Stage /\ Filed /\ Reviewed /\ Based /\ Told

-----------------------------------------------------------------------------
(***************************************************************************)
(* A new commit changes none there was, and its history is its own, its     *)
(* parents and theirs.                                                      *)
(***************************************************************************)
LEMMA CommitGrows ==
    ASSUME LogOK, NEW heads \in SUBSET Commits, NEW files \in SUBSET Changes,
           commitTree(heads, files), NEW n, n = New
    PROVE  /\ LogOK'
           /\ n \in 1 .. MaxCommits /\ n \notin Commits /\ n # None
           /\ Commits' = Commits \cup {n}
           /\ \A c \in Commits : Past(c)' = Past(c)
           /\ Past(n)' = {n} \cup UNION {Past(c) : c \in heads}
<1> DEFINE Rec == [past : SUBSET (1 .. MaxCommits), has : SUBSET Changes]
           last == [past |-> {n} \cup UNION {Past(c) : c \in heads}, has |-> files]
<1>1. log \in Seq(Rec) /\ Len(log) \in 1 .. MaxCommits /\ MaxCommits \in Nat
  BY BoundAssumption DEF LogOK
<1>2. Len(log) < MaxCommits /\ log' = Append(log, last)
  BY DEF commitTree
<1>3. \A c \in Commits : Past(c) \subseteq Commits /\ c \in Past(c)
  BY DEF LogOK
<1>4. n \in 1 .. MaxCommits /\ Commits \subseteq 1 .. MaxCommits /\ n \notin Commits
  BY <1>1, <1>2 DEF New, Commits
<1>5. last \in Rec
  <2>1. {n} \cup UNION {Past(c) : c \in heads} \in SUBSET (1 .. MaxCommits)
    BY <1>3, <1>4
  <2> QED BY <2>1
<1>6. log' \in Seq(Rec) /\ Len(log') = n
  <2> HIDE DEF last
  <2> QED BY <1>1, <1>2, <1>5 DEF New
<1>7. Commits' = Commits \cup {n}
  BY <1>1, <1>6 DEF Commits, New
<1>8. log'[n] = last
  <2> HIDE DEF last
  <2> QED BY <1>1, <1>2 DEF New
<1>9. \A c \in Commits : Past(c)' = Past(c)
  <2> HIDE DEF last
  <2> QED BY <1>1, <1>2 DEF Past, Commits
<1>10. Past(n)' = last.past
  <2> HIDE DEF last
  <2> QED BY <1>8 DEF Past
<1>11. \A c \in Commits' : c \in Past(c)' /\ Past(c)' \subseteq Commits'
  <2>1. last.past \subseteq Commits' /\ n \in last.past
    BY <1>3, <1>7
  <2> TAKE c \in Commits'
  <2>2. CASE c = n
    BY <2>1, <2>2, <1>10
  <2>3. CASE c \in Commits
    <3>1. Past(c)' = Past(c)
      BY <2>3, <1>9
    <3> QED BY <2>3, <3>1, <1>3, <1>7
  <2> QED BY <2>2, <2>3, <1>7
<1>12. LogOK'
  <2>1. Len(log') \in 1 .. MaxCommits
    BY <1>4, <1>6
  <2> QED BY <2>1, <1>6, <1>11 DEF LogOK
<1> QED BY <1>4, <1>7, <1>9, <1>10, <1>12 DEF None

-----------------------------------------------------------------------------
(***************************************************************************)
(* Trees, merged or read, have only changes.                                *)
(***************************************************************************)
LEMMA TreesAreChanges ==
    ASSUME LogOK
    PROVE  /\ \A c \in Commits : Has(c) \in SUBSET Changes
           /\ \A a, b \in Commits : threeWay(a, b) \in SUBSET Changes
           /\ \A a, b \in Commits, files \in SUBSET Changes :
                 readTree(files, a, b) \in SUBSET Changes
<1>1. ASSUME NEW c \in Commits PROVE Has(c) \in SUBSET Changes
  <2> DEFINE Rec == [past : SUBSET (1 .. MaxCommits), has : SUBSET Changes]
  <2>1. log \in Seq(Rec)
    BY DEF LogOK
  <2>2. log[c] \in Rec
    <3> HIDE DEF Rec
    <3> QED BY <2>1 DEF Commits
  <2> QED BY <2>2 DEF Has
<1>2. ASSUME NEW a \in Commits, NEW b \in Commits
      PROVE  threeWay(a, b) \in SUBSET Changes
  <2> DEFINE base == Has(mergeBase(a, b))
  <2>1. threeWay(a, b) = (Has(b) \cup (Has(a) \ base)) \ (base \ Has(a))
    BY DEF threeWay
  <2> HIDE DEF base
  <2> QED BY <2>1, <1>1
<1> QED BY <1>1, <1>2 DEF readTree

\* A run that ends keeps the type of runs.
LEMMA IdleIsOK == ASSUME run' = Idle PROVE RunOK'
  BY DEF RunOK, Idle, Fresh, Pinned, After, None

\* The types, one step per action; a landing needs the verdict Stage gives it.
LEMMA TypeStep == TypeOK /\ Stage /\ [Next]_vars => TypeOK'
<1> SUFFICES ASSUME TypeOK, Stage, [Next]_vars PROVE TypeOK'
  OBVIOUS
<1> USE DEF TypeOK, main, worktree, origin, store, history, At, Goto, GateEnds, Quiet
<1>0. LogOK /\ RunOK
  OBVIOUS
<1>a. UNCHANGED log => /\ LogOK' /\ Commits' = Commits
                       /\ \A c : Past(c)' = Past(c) /\ Has(c)' = Has(c)
  BY <1>0 DEF LogOK, Commits, Past, Has
<1>b. UNCHANGED <<log, run>> => RunOK'
  BY <1>0 DEF RunOK, Commits, Past
<1>c. Root \in Commits
  BY <1>0 DEF LogOK, Commits, Root
<1>1. CASE OperatorSwitches
  <2>1. index' \in SUBSET Changes
    BY <1>1, <1>c, TreesAreChanges DEF OperatorSwitches, Tip
  <2> QED BY <1>1, <1>a, <1>b, <2>1 DEF OperatorSwitches
<1>2. CASE OpensByHand \/ AgentPushes \/ SessionDone \/ AgentEdits
  BY <1>2, <1>a, <1>b DEF OpensByHand, AgentPushes, SessionDone, AgentEdits, Works, Changes
<1>3. CASE AgentSwitches
  BY <1>3, <1>a, <1>b, TreesAreChanges DEF AgentSwitches, Works
<1>f. \A c \in Commits : c # None
  BY DEF Commits, None
<1>d. Throws => TypeOK'
  BY <1>a, IdleIsOK DEF Throws
<1>e. Rejects => TypeOK'
  BY <1>a, IdleIsOK DEF Rejects, Rejected
<1>4. CASE Crash
  BY <1>4, <1>a, IdleIsOK DEF Crash
<1>5. CASE planMerge
  <2>1. RunOK'
    <3>1. PICK asPr \in BOOLEAN :
            run' = [Idle EXCEPT !.pc = "clean", !.pr = asPr,
                                !.adopted = asPr /\ pr # "none"]
      BY <1>5 DEF planMerge
    <3> DEFINE had == asPr /\ pr # "none"
    <3>2. had \in BOOLEAN
      OBVIOUS
    <3> HIDE DEF had
    <3>3. run' = [pc |-> "clean", pr |-> asPr, adopted |-> had, base |-> None,
                  tip |-> None, mid |-> None, follow |-> FALSE, pin |-> None,
                  flag |-> FALSE, passed |-> {}, landed |-> {}]
      BY <3>1 DEF Idle, had
    <3> QED BY <3>2, <3>3 DEF RunOK, Fresh, Pinned, After, None
  <2> QED BY <2>1, <1>5, <1>a DEF planMerge
<1>6. CASE Clean
  <2>1. CASE Goto("pin") /\ Quiet
    <3>1. RunOK'
      BY <1>6, <2>1, <1>0, <1>a DEF RunOK, Clean, Fresh, Pinned, After, None
    <3> QED BY <2>1, <3>1, <1>a
  <2> QED BY <1>6, <2>1, <1>e DEF Clean
<1>7. CASE PinTarget
  <2>1. CASE ~Rejects
    <3>1. RunOK'
      <4>1. run' = [run EXCEPT !.base = target, !.pc = run'.pc]
            /\ run'.pc \in {"settle", "mergeTree", "rebase"} /\ UNCHANGED log
        BY <1>7, <2>1, <1>0 DEF PinTarget, RunOK
      <4> QED BY <4>1, <1>0, <1>a, <1>f, ZenonT(60) DEF RunOK, Fresh, Pinned, After
    <3> QED BY <1>7, <2>1, <3>1, <1>a DEF PinTarget
  <2> QED BY <2>1, <1>e
<1>8. CASE SwapBranch
  <2>1. CASE ~Rejects
    <3>1. RunOK'
      BY <1>8, <2>1, <1>0, <1>a DEF RunOK, SwapBranch, Fresh, Pinned, After, None
    <3>2. branch' \in Commits \cup {None}
      BY <1>8, <2>1, <1>0 DEF SwapBranch, RunOK
    <3>3. UNCHANGED <<log, main, tree, away, alive, origin, store, history>>
      BY <1>8, <2>1 DEF SwapBranch
    <3> QED BY <3>1, <3>2, <3>3, <1>a
  <2> QED BY <2>1, <1>e
<1>9. CASE FollowMerge
  <2>1. RunOK' /\ tree' \in SUBSET Changes
    BY <1>9, <1>0, <1>a, TreesAreChanges DEF FollowMerge, RunOK, Fresh, Pinned, After
  <2> QED BY <1>9, <2>1, <1>a DEF FollowMerge
<1>10. CASE UndoMerge
  <2>1. CASE ~Throws
    <3>1. RunOK' /\ branch' \in Commits \cup {None}
      BY <1>10, <2>1, <1>0, IdleIsOK DEF UndoMerge, Rejected, RunOK
    <3>2. /\ UNCHANGED <<log, main, tree, away, alive, origin, history>>
          /\ row' \in {row, "running"}
          /\ UNCHANGED <<filed, bar, recorded>>
      BY <1>10, <2>1 DEF UndoMerge, Rejected
    <3> QED BY <3>1, <3>2, <1>a
  <2> QED BY <2>1, <1>d
<1>11. CASE Settle
  <2>1. CASE ~Rejects
    <3>1. branch \in Commits /\ run.base \in Past(branch) /\ UNCHANGED log /\ Quiet
          /\ run' = [run EXCEPT !.pc = "measure", !.pin = branch, !.tip = None,
                                !.mid = None, !.follow = FALSE]
      BY <1>11, <2>1 DEF Settle, Stage, Fresh
    <3>2. RunOK'
      BY <3>1, <1>0, <1>a, <1>f, ZenonT(60) DEF RunOK, Fresh, Pinned, After
    <3> QED BY <3>1, <3>2, <1>a
  <2> QED BY <2>1, <1>e
<1>12. CASE Measure
  <2>1. ASSUME NEW flag \in BOOLEAN, Quiet,
               run' = [run EXCEPT !.pc = "file", !.flag = flag,
                                  !.passed = {<<run.pin, run.base>>}]
        PROVE  TypeOK'
    <3>1. run.pin \in Commits /\ run.base \in Commits
      BY <1>12, <1>0 DEF Measure, RunOK, Pinned, LogOK
    <3>2. RunOK'
      <4>1. {<<run.pin, run.base>>} \in SUBSET (Commits \X Commits)
        BY <3>1
      <4>2. run.pc = "measure"
        BY <1>12 DEF Measure
      <4> QED BY <2>1, <4>1, <4>2, <1>0, <1>a, ZenonT(60) DEF RunOK, Fresh, Pinned, After
    <3> QED BY <2>1, <3>2, <1>a
  <2> QED BY <1>12, <2>1, <1>d, <1>e DEF Measure
<1>13. CASE fileAcceptedDebt
  <2>1. CASE ~Throws
    <3>1. RunOK'
      BY <1>13, <2>1, <1>0, <1>a DEF fileAcceptedDebt, RunOK, Fresh, Pinned, After
    <3>2. filed' \in Nat
      BY <1>13, <2>1 DEF fileAcceptedDebt
    <3>3. UNCHANGED <<log, main, worktree, origin, row, bar, recorded, history>>
      BY <1>13, <2>1 DEF fileAcceptedDebt
    <3> QED BY <3>1, <3>2, <3>3, <1>a
  <2> QED BY <2>1, <1>d
<1>14. CASE Recheck
  <2>1. CASE ~Throws
    <3>1. Quiet /\ run' = [run EXCEPT !.pc = "checkout"] /\ run.pc = "recheck"
      BY <1>14, <2>1 DEF Recheck
    <3>2. RunOK'
      BY <3>1, <1>0, <1>a DEF RunOK, Fresh, Pinned, After
    <3> QED BY <3>1, <3>2, <1>a
  <2> QED BY <2>1, <1>d
<1>15. CASE MoveCheckout
  <2>1. CASE ~Throws
    <3>1. /\ UNCHANGED <<log, target, head, worktree, origin, store, history>>
          /\ run' = [run EXCEPT !.pc = "cas"] /\ run.pc = "checkout"
          /\ index' = readTree(index, run.base, run.pin)
      BY <1>15, <2>1 DEF MoveCheckout
    <3>2. RunOK'
      BY <3>1, <1>0, <1>a DEF RunOK, Fresh, Pinned, After
    <3>3. run.base \in Commits /\ run.pin \in Commits
      BY <3>1, <1>0 DEF RunOK, Pinned, LogOK
    <3>4. index' \in SUBSET Changes
      BY <3>1, <3>3, <1>0, TreesAreChanges
    <3> QED BY <3>1, <3>2, <3>4, <1>a
  <2> QED BY <2>1, <1>d
<1>16. CASE MoveTarget \/ VerifyHead
  <2>1. CASE ~Throws /\ Lands(run.pin)
    <3>1. run.pin \in Commits
      BY <1>16, <1>0 DEF MoveTarget, VerifyHead, RunOK, Pinned
    <3>2. RunOK'
      <4>1. /\ run' = [Idle EXCEPT !.pc = "record", !.pr = run.pr, !.pin = run.pin,
                                   !.landed = {run.pin}]
            /\ run.pr \in BOOLEAN /\ run.pin # None
        BY <2>1, <3>1, <1>0, <1>f DEF Lands, RunOK
      <4>2. UNCHANGED log
        BY <1>16, <2>1 DEF MoveTarget, VerifyHead
      <4>3. Commits' = Commits
        BY <4>2, <1>a
      <4>4. run' = [pc |-> "record", pr |-> run.pr, adopted |-> FALSE, base |-> None,
                    tip |-> None, mid |-> None, follow |-> FALSE, pin |-> run.pin,
                    flag |-> FALSE, passed |-> {}, landed |-> {run.pin}]
        BY <4>1 DEF Idle
      <4> DEFINE pin == run.pin
                 asPr == run.pr
      <4>5. pin \in Commits' /\ pin # None /\ asPr \in BOOLEAN
        BY <3>1, <4>1, <4>3
      <4>6. run' = [pc |-> "record", pr |-> asPr, adopted |-> FALSE, base |-> None,
                    tip |-> None, mid |-> None, follow |-> FALSE, pin |-> pin,
                    flag |-> FALSE, passed |-> {}, landed |-> {pin}]
        BY <4>4
      <4> HIDE DEF pin, asPr
      <4> QED BY ONLY <4>5, <4>6 DEF RunOK, Fresh, Pinned, After
    <3>4. owed' \in BOOLEAN
      BY <2>1, <1>0 DEF Lands, RunOK
    <3>3. /\ UNCHANGED <<log, head, index, worktree, origin, store, torn>>
          /\ target' \in {target, run.pin}
      BY <1>16, <2>1 DEF MoveTarget, VerifyHead, Lands
    <3> QED BY <3>1, <3>2, <3>3, <3>4, <1>a
  <2>2. CASE Quiet /\ run.pc = "cas" /\ Goto("restore")
    <3>1. RunOK'
      BY <2>2, <1>0, <1>a DEF RunOK, Fresh, Pinned, After
    <3> QED BY <2>2, <3>1, <1>a
  <2> QED BY <2>1, <2>2, <1>d, <1>16 DEF MoveTarget, VerifyHead
<1>17. CASE RestoreCheckout
  <2>1. run.base \in Commits /\ run.pin \in Commits
    BY <1>17, <1>0 DEF RestoreCheckout, RunOK, Pinned, LogOK
  <2>2. index' \in SUBSET Changes /\ torn' \in BOOLEAN
    BY <1>17, <2>1, TreesAreChanges DEF RestoreCheckout
  <2> QED BY <1>17, <2>2, <1>a, IdleIsOK DEF RestoreCheckout
<1>18. CASE PushBranch \/ TrackPush \/ OpenPullRequest
  <2>1. CASE ~Throws
    <3>1. /\ run.pc \in Pinned
          /\ run' = [run EXCEPT !.pc = run'.pc] /\ run'.pc \in Pinned
          /\ UNCHANGED <<log, main, worktree, store, history>>
          /\ remote' \in {remote, run.pin} /\ tracking' \in {tracking, run.pin}
          /\ pr' \in {pr, "open"}
      BY <1>18, <2>1, <1>0 DEF PushBranch, TrackPush, OpenPullRequest, Pinned, RunOK
    <3>2. RunOK'
      BY <3>1, <1>0, <1>a DEF RunOK, Fresh, Pinned, After
    <3>3. run.pin \in Commits
      BY <3>1, <1>0 DEF RunOK
    <3> QED BY <3>1, <3>2, <3>3, <1>a
  <2> QED BY <2>1, <1>d
<1>19. CASE RecordMerged \/ KillWindow \/ RemoveWorktree
  <2>1. /\ run.pc \in After
        /\ run' = [run EXCEPT !.pc = run'.pc] /\ run'.pc \in After
        /\ UNCHANGED <<log, main, tree, away, origin, filed, bar, recorded, history>>
        /\ branch' \in {branch, None} /\ alive' \in {alive, FALSE}
        /\ row' \in {row, "merged"}
    BY <1>19, <1>0 DEF RecordMerged, KillWindow, RemoveWorktree, After, RunOK
  <2>2. RunOK'
    BY <2>1, <1>0, <1>a DEF RunOK, Fresh, Pinned, After
  <2>3. branch' \in Commits \cup {None} /\ row' \in {"running", "awaiting-review", "merged"}
    BY <2>1
  <2>4. alive' \in BOOLEAN
    BY <2>1
  <2>5. LogOK' /\ Commits' = Commits
    BY <2>1, <1>a
  <2> QED BY <2>1, <2>2, <2>3, <2>4, <2>5
<1>20. CASE RecordMerge
  <2>1. RunOK'
    BY <1>20, <1>0, <1>a DEF RecordMerge, RunOK, Fresh, Pinned, After
  <2>2. recorded' \in [sha : Commits \cup {None}, left : BOOLEAN]
    BY <1>20, <1>0 DEF RecordMerge, RunOK
  <2>3. UNCHANGED <<log, main, worktree, origin, row, filed, bar, history>>
    BY <1>20 DEF RecordMerge
  <2> QED BY <2>1, <2>2, <2>3, <1>a
<1>21. CASE Ratchet
  <2>1. bar' \in Commits
    BY <1>21, <1>0 DEF Ratchet, RunOK, After
  <2>2. /\ run' = Idle
        /\ UNCHANGED <<log, main, worktree, origin, row, filed, recorded, history>>
    BY <1>21 DEF Ratchet
  <2> QED BY <2>1, <2>2, <1>a, IdleIsOK
<1>22. ASSUME NEW heads \in SUBSET Commits, NEW files \in SUBSET Changes,
              commitTree(heads, files), NEW n, n = New,
              \/ UNCHANGED run
              \/ run' = [run EXCEPT !.pc = "settle"] /\ run.pc = "rebase"
              \/ /\ run.pc = "mergeTree"
                 /\ run' = [run EXCEPT !.pc = "swap", !.tip = branch, !.mid = n,
                                       !.follow = ~away]
                 /\ branch \in Commits,
              UNCHANGED <<head, origin, store, owed, away, alive>>,
              target' \in {target, n}, branch' \in {branch, run.base, n},
              index' \in SUBSET Changes, tree' \in SUBSET Changes,
              torn' \in BOOLEAN
       PROVE  TypeOK'
  <2>1. /\ LogOK' /\ n \in Commits' /\ n # None
        /\ Commits \subseteq Commits' /\ \A c \in Commits : Past(c)' = Past(c)
    BY <1>22, <1>0, CommitGrows
  <2>2. RunOK'
    <3>1. CASE UNCHANGED run
      <4>1. run.base \in Commits \/ run.pc \notin Pinned
        BY <1>0 DEF RunOK, Fresh, Pinned, LogOK
      <4> QED BY <3>1, <4>1, <2>1, <1>0 DEF RunOK
    <3>2. CASE run' = [run EXCEPT !.pc = "settle"] /\ run.pc = "rebase"
      BY <3>2, <2>1, <1>0 DEF RunOK, Fresh, Pinned, After
    <3>3. CASE /\ run.pc = "mergeTree"
               /\ run' = [run EXCEPT !.pc = "swap", !.tip = branch, !.mid = n,
                                     !.follow = ~away]
               /\ branch \in Commits
      <4>1. /\ run'.tip \in Commits' /\ run'.tip # None
            /\ run'.mid \in Commits' /\ run'.mid # None
            /\ run'.follow \in BOOLEAN
        BY <3>3, <2>1, <1>0, <1>f DEF RunOK
      <4>2. /\ run'.passed \in SUBSET (Commits' \X Commits')
            /\ run'.landed \in SUBSET Commits'
        BY <3>3, <2>1, <1>0 DEF RunOK
      <4>3. run' = [run EXCEPT !.pc = "swap", !.tip = run'.tip, !.mid = run'.mid,
                               !.follow = run'.follow]
        BY <3>3, <1>0 DEF RunOK
      <4> QED BY <3>3, <4>1, <4>2, <4>3, <2>1, <1>0, ZenonT(60) DEF RunOK, Fresh, Pinned, After
    <3> QED BY <1>22, <3>1, <3>2, <3>3
  <2>3. run.base \in Commits \cup {None}
    BY <1>0 DEF RunOK
  <2>4. target' \in Commits' /\ branch' \in Commits' \cup {None}
    BY <1>22, <2>1, <2>3
  <2>5. /\ remote' \in Commits' \cup {None} /\ tracking' \in Commits' \cup {None}
        /\ bar' \in Commits'
        /\ recorded' \in [sha : Commits' \cup {None}, left : BOOLEAN]
    BY <1>22, <2>1
  <2>6. /\ away' \in BOOLEAN /\ alive' \in BOOLEAN /\ owed' \in BOOLEAN
        /\ UNCHANGED <<head, row, pr, filed>>
    BY <1>22
  <2>7. index' \in SUBSET Changes /\ tree' \in SUBSET Changes /\ torn' \in BOOLEAN
    BY <1>22
  <2> QED BY <2>1, <2>2, <2>4, <2>5, <2>6, <2>7
<1>23. CASE OperatorCommits
  <2>1. PICK x \in Theirs \ index : commitTree({target}, index \cup {x})
                                  /\ index' = index \cup {x}
    BY <1>23 DEF OperatorCommits
  <2>2. {target} \in SUBSET Commits /\ index \cup {x} \in SUBSET Changes
    BY DEF Changes
  <2>3. torn' \in BOOLEAN
    BY <1>23 DEF OperatorCommits, MainApart
  <2>4. /\ UNCHANGED <<head, worktree, origin, store, run, owed>>
        /\ target' = New
    BY <1>23 DEF OperatorCommits
  <2> QED BY <2>1, <2>2, <2>3, <2>4, <1>22
<1>24. CASE AgentCommits
  <2>1. /\ commitTree({branch}, tree) /\ branch \in Commits
        /\ UNCHANGED <<main, tree, away, alive, origin, store, run, owed>>
        /\ branch' = New
    BY <1>24 DEF AgentCommits, Works
  <2>2. {branch} \in SUBSET Commits /\ torn' \in BOOLEAN
    BY <1>24, <2>1 DEF AgentCommits, WorktreeApart
  <2> QED BY <2>1, <2>2, <1>22
<1>25. CASE Rebase
  <2> DEFINE files == threeWay(branch, run.base)
  <2>1. CASE away /\ Goto("settle") /\ Quiet
    <3>1. RunOK'
      BY <1>25, <2>1, <1>0, <1>a DEF Rebase, RunOK, Fresh, Pinned, After
    <3> QED BY <2>1, <3>1, <1>a
  <2>2. CASE ~Rejects /\ ~(away /\ Goto("settle") /\ Quiet)
    <3>1. /\ run' = [run EXCEPT !.pc = "settle"] /\ run.pc = "rebase"
          /\ UNCHANGED <<main, away, alive, origin, store, history>>
          /\ tree' = files
          /\ \/ branch' = run.base /\ log' = log
             \/ branch' = New /\ commitTree({run.base}, files)
      BY <1>25, <2>2 DEF Rebase
    <3>2. run.base \in Commits /\ branch \in Commits
      BY <3>1, <1>0 DEF RunOK, Fresh, Stage
    <3>3. files \in SUBSET Changes
      BY <3>2, <1>0, TreesAreChanges
    <3> HIDE DEF files
    <3>4. CASE log' = log /\ branch' = run.base
      <4>1. RunOK'
        BY <3>1, <3>4, <1>0, <1>a DEF RunOK, Fresh, Pinned, After
      <4> QED BY <3>1, <3>2, <3>3, <3>4, <4>1, <1>a
    <3>5. CASE branch' = New /\ commitTree({run.base}, files)
      BY <3>1, <3>2, <3>3, <3>5, <1>22
    <3> QED BY <3>1, <3>4, <3>5
  <2> QED BY <2>1, <2>2, <1>e
<1>26. CASE MergeTree
  <2> DEFINE files == threeWay(branch, run.base)
  <2>1. CASE ~Rejects /\ ~Throws
    <3>1. /\ run.pc = "mergeTree" /\ commitTree({branch, run.base}, files)
          /\ run' = [run EXCEPT !.pc = "swap", !.tip = branch, !.mid = New,
                                !.follow = ~away]
          /\ UNCHANGED <<main, worktree, origin, store, history>>
      BY <1>26, <2>1 DEF MergeTree
    <3>2. run.base \in Commits /\ branch \in Commits
      BY <3>1, <1>0 DEF RunOK, Fresh, Stage
    <3>3. files \in SUBSET Changes
      BY <3>2, <1>0, TreesAreChanges
    <3> HIDE DEF files
    <3> QED BY <3>1, <3>2, <3>3, <1>22
  <2> QED BY <2>1, <1>d, <1>e
<1>27. CASE UNCHANGED vars
  BY <1>27, <1>a, <1>b DEF vars
<1> QED
  BY <1>1, <1>2, <1>3, <1>4, <1>5, <1>6, <1>7, <1>8, <1>9, <1>10, <1>11, <1>12,
     <1>13, <1>14, <1>15, <1>16, <1>17, <1>18, <1>19, <1>20, <1>21, <1>23, <1>24,
     <1>25, <1>26, <1>27
     DEF Next, Operator, Agent, Gate, FreshBase, FastForward, PullRequest, Merged

-----------------------------------------------------------------------------
\* Where the run is, and what row and verdict it has there.
LEMMA StageStep == TypeOK /\ Stage /\ [Next]_vars => Stage'
<1> SUFFICES ASSUME RunOK, Stage, branch \in Commits \cup {None}, [Next]_vars
             PROVE  Stage'
  BY DEF TypeOK
<1> USE DEF main, worktree, origin, store, history, At, Goto, GateEnds, Quiet
<1>a. run' = Idle /\ branch' # None /\ row' = "running" => Stage'
  BY DEF Stage, Idle, Fresh, Pinned, After
<1>i. run' = Idle /\ (branch' = branch \/ branch' # None) /\ row' = row => Stage'
  BY DEF Stage, Idle, Fresh, Pinned, After
<1>b. ASSUME UNCHANGED <<run, row>>, branch' = branch \/ branch' # None
      PROVE  Stage'
  BY <1>b DEF Stage
<1>c. /\ run.pc \in Fresh \cup Pinned => row = "awaiting-review"
      /\ branch = None => row = "merged"
  BY DEF Stage
<1>d. Throws => Stage'
  BY <1>i DEF Throws
<1>e. Rejects /\ run.pc \in Fresh \cup Pinned => Stage'
  BY <1>a, <1>c DEF Rejects, Rejected
<1>f. ASSUME branch' = branch \/ branch' # None \/ row = "merged",
             run'.landed = run.landed, row' = row,
             \/ run.pc \in Fresh /\ run'.pc \in Fresh \cup {"measure"}
                /\ run'.passed = run.passed
             \/ run.pc = "measure" /\ run'.pc = "file"
                /\ run'.passed = {<<run'.pin, run'.base>>}
             \/ run.pc \in Pinned \ {"measure"} /\ run'.pc \in Pinned \ {"measure"}
                /\ run'.passed = run.passed /\ run'.pin = run.pin /\ run'.base = run.base
             \/ run.pc \in After \ {"record"} /\ run'.pc \in After \ {"record"}
                /\ run'.passed = run.passed /\ run'.pin = run.pin
      PROVE  Stage'
  BY <1>f DEF Stage, Fresh, Pinned, After
<1>g. ASSUME NEW to, Goto(to)
      PROVE  /\ run'.landed = run.landed /\ run'.passed = run.passed
             /\ run'.pin = run.pin /\ run'.base = run.base /\ run'.pc = to
  BY <1>g DEF RunOK
<1>1. CASE OperatorCommits \/ OperatorSwitches \/ OpensByHand \/ AgentEdits
        \/ AgentSwitches \/ AgentPushes
  BY <1>1, <1>b DEF OperatorCommits, OperatorSwitches, OpensByHand, AgentEdits,
     AgentSwitches, AgentPushes
<1>2. CASE AgentCommits
  <2>1. New # None
    BY DEF New, None
  <2> QED BY <1>2, <2>1, <1>b DEF AgentCommits
<1>3. CASE SessionDone
  BY <1>3 DEF Stage, SessionDone, Works, Fresh, Pinned, After
<1>4. CASE planMerge
  BY <1>4 DEF Stage, planMerge, Idle, Fresh, Pinned, After
<1>5. CASE Clean
  <2>1. CASE ~Rejects
    BY <1>5, <2>1, <1>f, <1>g DEF Clean, Fresh
  <2> QED BY <1>5, <2>1, <1>e DEF Clean, Fresh
<1>6. CASE PinTarget
  <2>1. CASE ~Rejects
    <3>1. run' = [run EXCEPT !.base = target, !.pc = run'.pc]
          /\ run'.pc \in {"settle", "mergeTree", "rebase"} /\ Quiet
      BY <1>6, <2>1 DEF PinTarget, RunOK
    <3>2. run'.landed = run.landed /\ run'.passed = run.passed
      BY <3>1 DEF RunOK
    <3> QED BY <1>6, <3>1, <3>2, <1>f DEF PinTarget, Fresh
  <2> QED BY <1>6, <2>1, <1>e DEF PinTarget, Fresh
<1>7. CASE Rebase
  <2>1. CASE ~Rejects
    <3>1. Goto("settle") /\ row' = row /\ run.pc = "rebase"
          /\ (branch' = branch \/ branch' = run.base \/ branch' = New)
      BY <1>7, <2>1 DEF Rebase
    <3>2. run.base # None /\ New # None
      BY <3>1 DEF RunOK, Fresh, New, None
    <3> QED BY <3>1, <3>2, <1>f, <1>g DEF Fresh
  <2> QED BY <1>7, <2>1, <1>e DEF Rebase, Fresh
<1>8. CASE MergeTree
  <2>1. CASE ~Rejects /\ ~Throws
    <3>1. /\ run' = [run EXCEPT !.pc = "swap", !.tip = branch, !.mid = New,
                                !.follow = ~away]
          /\ row' = row /\ branch' = branch /\ run.pc = "mergeTree"
      BY <1>8, <2>1 DEF MergeTree
    <3>2. run'.pc = "swap" /\ run'.landed = run.landed /\ run'.passed = run.passed
      BY <3>1 DEF RunOK
    <3> QED BY <3>1, <3>2, <1>f DEF Fresh
  <2> QED BY <1>8, <2>1, <1>d, <1>e DEF MergeTree, Fresh
<1>9. CASE SwapBranch
  <2>1. CASE ~Rejects
    <3>1. run.mid # None /\ run.pc = "swap"
      BY <1>9 DEF RunOK, SwapBranch
    <3>2. Goto("follow") \/ Goto("settle")
      BY <1>9, <2>1 DEF SwapBranch
    <3>3. row' = row /\ branch' = run.mid
      BY <1>9, <2>1 DEF SwapBranch
    <3> QED BY <3>1, <3>2, <3>3, <1>f, <1>g DEF Fresh
  <2> QED BY <1>9, <2>1, <1>e DEF SwapBranch, Fresh
<1>10. CASE FollowMerge
  <2>1. Goto("undo") \/ Goto("settle")
    BY <1>10 DEF FollowMerge
  <2> QED BY <1>10, <2>1, <1>f, <1>g DEF FollowMerge, Fresh
<1>11. CASE UndoMerge
  <2>1. run.tip # None
    BY <1>11 DEF UndoMerge, RunOK
  <2> QED BY <1>11, <2>1, <1>a, <1>i, <1>d DEF UndoMerge, Rejected, Fresh
<1>12. CASE Settle
  <2>1. CASE ~Rejects
    <3>1. /\ run' = [run EXCEPT !.pc = "measure", !.pin = branch, !.tip = None,
                                !.mid = None, !.follow = FALSE]
          /\ row' = row /\ branch' = branch /\ run.pc = "settle"
      BY <1>12, <2>1 DEF Settle
    <3>2. run'.pc = "measure" /\ run'.landed = run.landed /\ run'.passed = run.passed
      BY <3>1 DEF RunOK
    <3> QED BY <3>1, <3>2, <1>f DEF Fresh
  <2> QED BY <1>12, <2>1, <1>e DEF Settle, Fresh
<1>13. CASE Measure
  <2>1. CASE ~Rejects /\ ~Throws
    <3>1. PICK flag \in BOOLEAN :
            run' = [run EXCEPT !.pc = "file", !.flag = flag,
                               !.passed = {<<run.pin, run.base>>}]
      BY <1>13, <2>1 DEF Measure
    <3>2. row' = row /\ branch' = branch /\ run.pc = "measure"
      BY <1>13, <2>1 DEF Measure
    <3>3. /\ run'.pc = "file" /\ run'.landed = run.landed
          /\ run'.passed = {<<run'.pin, run'.base>>}
      BY <3>1 DEF RunOK
    <3> QED BY <3>2, <3>3, <1>f
  <2> QED BY <1>13, <2>1, <1>d, <1>e DEF Measure, Pinned
<1>14. CASE fileAcceptedDebt
  <2>1. CASE ~Throws
    <3>1. (Goto("push") \/ Goto("recheck")) /\ row' = row /\ branch' = branch
      BY <1>14, <2>1 DEF fileAcceptedDebt
    <3> QED BY <1>14, <3>1, <1>f, <1>g DEF fileAcceptedDebt, Pinned
  <2> QED BY <2>1, <1>d
<1>h. ASSUME NEW c, Lands(c), c = run.pin, UNCHANGED <<row, branch>>, run.pc \in Pinned
      PROVE  Stage'
  BY <1>h, <1>c DEF Stage, Lands, Idle, Fresh, Pinned, After
<1>15. CASE FastForward \/ PullRequest
  <2>1. /\ row' = row /\ branch' = branch
        /\ run.pc \in Pinned \ {"measure"}
        /\ \/ run' = Idle
           \/ \E to \in {"checkout", "cas", "restore", "track", "open", "verify"} : Goto(to)
           \/ Lands(run.pin)
    BY <1>15 DEF FastForward, Recheck, MoveCheckout, MoveTarget, RestoreCheckout,
       PullRequest, PushBranch, TrackPush, OpenPullRequest, VerifyHead, Throws, Pinned
  <2>2. CASE run' = Idle
    BY <2>1, <2>2, <1>i
  <2>3. ASSUME NEW to \in {"checkout", "cas", "restore", "track", "open", "verify"},
               Goto(to)
        PROVE  Stage'
    BY <2>1, <2>3, <1>f, <1>g DEF Pinned
  <2>4. CASE Lands(run.pin)
    BY <2>1, <2>4, <1>h
  <2> QED BY <2>1, <2>2, <2>3, <2>4
<1>17. CASE RecordMerged
  BY <1>17, <1>g DEF Stage, RecordMerged, Fresh, Pinned, After
<1>18. CASE KillWindow \/ RemoveWorktree \/ RecordMerge
  <2>1. /\ run.pc \in After \ {"record"} /\ row' = row
        /\ \E to \in {"worktree", "event", "ratchet"} : Goto(to)
    BY <1>18 DEF KillWindow, RemoveWorktree, RecordMerge, After
  <2>2. row = "merged"
    BY <2>1 DEF Stage
  <2> QED BY <2>1, <2>2, <1>f, <1>g DEF After
<1>19. CASE Ratchet \/ Crash
  <2>1. run' = Idle /\ row' = row /\ branch' = branch
    BY <1>19 DEF Ratchet, Crash
  <2> QED BY <2>1, <1>i
<1>20. CASE UNCHANGED vars
  BY <1>20, <1>b DEF vars
<1> QED
  BY <1>1, <1>2, <1>3, <1>4, <1>5, <1>6, <1>7, <1>8, <1>9, <1>10, <1>11, <1>12,
     <1>13, <1>14, <1>15, <1>17, <1>18, <1>19, <1>20
     DEF Next, Operator, Agent, Gate, FreshBase, Merged

-----------------------------------------------------------------------------
\* A step leaves the commits alone or makes one, on top of commits there are.
LEMMA LogStep ==
    ASSUME TypeOK, Stage, [Next]_vars
    PROVE  \/ UNCHANGED log
           \/ \E heads \in SUBSET Commits, files \in SUBSET Changes :
                 heads # {} /\ commitTree(heads, files)
<1> USE DEF TypeOK, main, worktree, origin, store, history, At, GateEnds, Quiet, Throws,
     Rejects
<1>0. LogOK /\ RunOK
  OBVIOUS
<1>1. CASE OperatorCommits
  <2>1. PICK x \in Theirs \ index : commitTree({target}, index \cup {x})
    BY <1>1 DEF OperatorCommits
  <2>2. {target} \in SUBSET Commits /\ index \cup {x} \in SUBSET Changes
    BY DEF Changes
  <2> QED BY <2>1, <2>2
<1>2. CASE AgentCommits
  <2>1. commitTree({branch}, tree) /\ branch \in Commits
    BY <1>2 DEF AgentCommits, Works
  <2> QED BY <2>1
<1>3. CASE Rebase \/ MergeTree
  <2> DEFINE files == threeWay(branch, run.base)
  <2>1. run.base \in Commits /\ branch \in Commits
    BY <1>3, <1>0 DEF RunOK, Rebase, MergeTree, Fresh, Stage
  <2>2. files \in SUBSET Changes
    BY <2>1, <1>0, TreesAreChanges
  <2>3. \/ UNCHANGED log
        \/ commitTree({run.base}, files) \/ commitTree({branch, run.base}, files)
    BY <1>3 DEF Rebase, MergeTree
  <2>4. {run.base} \in SUBSET Commits /\ {branch, run.base} \in SUBSET Commits
    BY <2>1
  <2> HIDE DEF files
  <2> QED BY <2>2, <2>3, <2>4
<1>4. CASE \/ Clean \/ PinTarget \/ SwapBranch \/ FollowMerge \/ UndoMerge \/ Settle
           \/ planMerge
  BY <1>4 DEF Clean, PinTarget, SwapBranch, FollowMerge, UndoMerge, Settle, planMerge
<1>7. CASE Measure \/ fileAcceptedDebt \/ FastForward
  BY <1>7 DEF Measure, fileAcceptedDebt, FastForward, Recheck, MoveCheckout, MoveTarget,
     RestoreCheckout
<1>5. CASE PullRequest \/ Merged \/ Crash \/ UNCHANGED vars
  BY <1>5 DEF PullRequest, PushBranch, TrackPush, OpenPullRequest, VerifyHead,
     Merged, RecordMerged, KillWindow, RemoveWorktree, RecordMerge, Ratchet, Crash, vars
<1>6. CASE OperatorSwitches \/ OpensByHand \/ AgentEdits \/ AgentSwitches \/ AgentPushes
        \/ SessionDone
  BY <1>6 DEF OperatorSwitches, OpensByHand, AgentEdits, AgentSwitches, AgentPushes,
     SessionDone
<1> QED
  BY <1>1, <1>2, <1>3, <1>4, <1>5, <1>6, <1>7 DEF Next, Operator, Agent, Gate, FreshBase

\* A commit holds the past of what it holds.
LEMMA ClosedStep == TypeOK /\ Stage /\ Closed /\ [Next]_vars => Closed'
<1> SUFFICES ASSUME TypeOK, Stage, Closed, [Next]_vars PROVE Closed'
  OBVIOUS
<1>0. LogOK
  BY DEF TypeOK
<1>1. CASE UNCHANGED log
  BY <1>1 DEF Closed, Commits, Past
<1>2. ASSUME NEW heads \in SUBSET Commits, NEW files \in SUBSET Changes,
             commitTree(heads, files)
      PROVE  Closed'
  <2>0. PICK n : n = New
    OBVIOUS
  <2>1. /\ Commits' = Commits \cup {n} /\ n \notin Commits
        /\ \A c \in Commits : Past(c)' = Past(c)
        /\ Past(n)' = {n} \cup UNION {Past(c) : c \in heads}
    BY <1>0, <1>2, <2>0, CommitGrows
  <2>2. \A c \in Commits : Past(c) \subseteq Commits
    BY <1>0 DEF LogOK
  <2>3. ASSUME NEW c \in Commits, NEW d \in Past(c)' PROVE Past(d)' \subseteq Past(c)'
    BY <2>1, <2>2, <2>3 DEF Closed
  <2>4. ASSUME NEW d \in Past(n)' PROVE Past(d)' \subseteq Past(n)'
    <3>1. CASE d = n
      BY <3>1 DEF Past
    <3>2. CASE d # n
      <4>1. PICK h \in heads : d \in Past(h)
        BY <2>1, <2>4, <3>2
      <4>2. Past(d) \subseteq Past(h) /\ d \in Commits
        BY <4>1, <2>2 DEF Closed
      <4> QED BY <4>1, <4>2, <2>1
    <3> QED BY <3>1, <3>2
  <2> QED BY <2>1, <2>3, <2>4 DEF Closed
<1> QED BY <1>1, <1>2, LogStep

-----------------------------------------------------------------------------
\* Up to the verdict, a run ends or goes on as the run it is.
LEMMA FreshGoes ==
    ASSUME RunOK, planMerge \/ FreshBase \/ Measure
    PROVE  \/ run' = Idle
           \/ /\ run'.pc \in Fresh \cup {"measure", "file"}
              /\ \/ planMerge
                 \/ run'.pr = run.pr /\ run'.adopted = run.adopted
<1> USE DEF At, Goto, GateEnds, Rejects, Rejected, Throws
<1>a. ASSUME NEW to, Goto(to)
      PROVE  run'.pc = to /\ run'.pr = run.pr /\ run'.adopted = run.adopted
  BY <1>a DEF RunOK
<1>1. CASE planMerge
  BY <1>1 DEF planMerge, Idle, Fresh
<1>2. CASE Clean \/ SwapBranch \/ FollowMerge \/ UndoMerge \/ Rebase
  <2>1. run' = Idle \/ \E to \in {"pin", "follow", "settle", "undo"} : Goto(to)
    BY <1>2 DEF Clean, SwapBranch, FollowMerge, UndoMerge, Rebase
  <2> QED BY <2>1, <1>a DEF Fresh
<1>3. CASE PinTarget
  <2>1. \/ run' = Idle
        \/ \E to \in Fresh : run' = [run EXCEPT !.base = target, !.pc = to]
    BY <1>3 DEF PinTarget, Fresh
  <2> QED BY <2>1 DEF RunOK
<1>4. CASE MergeTree
  <2>1. \/ run' = Idle
        \/ run' = [run EXCEPT !.pc = "swap", !.tip = branch, !.mid = New, !.follow = ~away]
    BY <1>4 DEF MergeTree
  <2> QED BY <2>1 DEF RunOK, Fresh
<1>5. CASE Settle
  <2>1. \/ run' = Idle
        \/ run' = [run EXCEPT !.pc = "measure", !.pin = branch, !.tip = None,
                              !.mid = None, !.follow = FALSE]
    BY <1>5 DEF Settle
  <2> QED BY <2>1, ZenonT(60) DEF RunOK
<1>6. CASE Measure
  <2>1. \/ run' = Idle
        \/ \E flag \in BOOLEAN :
              run' = [run EXCEPT !.pc = "file", !.flag = flag,
                                 !.passed = {<<run.pin, run.base>>}]
    BY <1>6 DEF Measure
  <2> QED BY <2>1 DEF RunOK
<1> QED BY <1>1, <1>2, <1>3, <1>4, <1>5, <1>6 DEF FreshBase

\* Accepted debt that is on its way is filed, once.
LEMMA FiledStep == TypeOK /\ Filed /\ [Next]_vars => Filed'
<1> SUFFICES ASSUME RunOK, Filed, [Next]_vars PROVE Filed'
  BY DEF TypeOK
<1> USE DEF main, worktree, origin, store, history, At, Goto, GateEnds, Quiet
<1>a. ASSUME run' = Idle, UNCHANGED <<filed, owed>> PROVE Filed'
  BY <1>a DEF Filed, Idle, Pinned
<1>b. ASSUME UNCHANGED <<filed, owed, run>> PROVE Filed'
  BY <1>b DEF Filed
<1>c. ASSUME UNCHANGED <<filed, owed>>,
             \/ run'.pc \notin Pinned \/ run'.pc \in {"measure", "file"}
             \/ run.pc \in Pinned \ {"measure", "file"} /\ run'.flag = run.flag
      PROVE  Filed'
  BY <1>c DEF Filed
<1>d. ASSUME NEW to, Goto(to) PROVE run'.pc = to /\ run'.flag = run.flag
  BY <1>d DEF RunOK
<1>1. CASE Operator \/ Agent
  BY <1>1, <1>b DEF Operator, OperatorCommits, OperatorSwitches, OpensByHand, Agent,
     AgentEdits, AgentCommits, AgentSwitches, AgentPushes, SessionDone
<1>2. CASE planMerge \/ FreshBase \/ Measure
  <2>1. UNCHANGED <<filed, owed>>
    BY <1>2 DEF planMerge, FreshBase, Clean, PinTarget, Rebase, MergeTree, SwapBranch,
       FollowMerge, UndoMerge, Settle, Measure, Throws, Rejects, Rejected
  <2>2. run' = Idle \/ run'.pc \in Fresh \cup {"measure", "file"}
    BY <1>2, FreshGoes
  <2> QED BY <2>1, <2>2, <1>a, <1>c DEF Fresh, Pinned
<1>3. CASE fileAcceptedDebt
  <2>1. CASE ~Throws
    <3>1. /\ filed' = IF run.flag /\ filed = 0 THEN filed + 1 ELSE filed
          /\ Goto("push") \/ Goto("recheck")
          /\ owed' = owed
      BY <1>3, <2>1 DEF fileAcceptedDebt
    <3> QED BY <3>1, <1>d DEF Filed
  <2> QED BY <2>1, <1>a DEF Throws
<1>4. CASE FastForward \/ PullRequest
  <2>1. /\ run.pc \in Pinned \ {"measure", "file"} /\ filed' = filed
        /\ \/ run' = Idle /\ owed' = owed
           \/ owed' = owed
              /\ \E to \in {"checkout", "cas", "restore", "track", "open", "verify"} : Goto(to)
           \/ Lands(run.pin)
    BY <1>4 DEF FastForward, Recheck, MoveCheckout, MoveTarget, RestoreCheckout,
       PullRequest, PushBranch, TrackPush, OpenPullRequest, VerifyHead, Throws, Pinned
  <2>2. CASE Lands(run.pin)
    BY <2>1, <2>2 DEF Lands, Filed, Idle, Pinned
  <2> QED BY <2>1, <2>2, <1>a, <1>c, <1>d
<1>5. CASE Merged
  <2>1. UNCHANGED <<filed, owed>>
    BY <1>5 DEF Merged, RecordMerged, KillWindow, RemoveWorktree, RecordMerge, Ratchet
  <2>2. run' = Idle \/ \E to \in {"window", "worktree", "event", "ratchet"} : Goto(to)
    BY <1>5 DEF Merged, RecordMerged, KillWindow, RemoveWorktree, RecordMerge, Ratchet
  <2> QED BY <2>1, <2>2, <1>a, <1>c, <1>d DEF Pinned
<1>6. CASE Crash
  BY <1>6, <1>a DEF Crash
<1>7. CASE UNCHANGED vars
  BY <1>7, <1>b DEF vars
<1> QED BY <1>1, <1>2, <1>3, <1>4, <1>5, <1>6, <1>7 DEF Next, Gate

-----------------------------------------------------------------------------
\* What an open pull request holds stays on its branch.
LEMMA ReviewedStep == TypeOK /\ Stage /\ Reviewed /\ [Next]_vars => Reviewed'
<1> SUFFICES ASSUME TypeOK, Stage, Reviewed, [Next]_vars PROVE Reviewed'
  OBVIOUS
<1>0. RunOK
  BY DEF TypeOK
<1> USE DEF main, worktree, origin, store, history, At, Goto, GateEnds, Quiet
<1>a. ASSUME run' = Idle, UNCHANGED <<remote, pr>> PROVE Reviewed'
  BY <1>a DEF Reviewed, Idle, Fresh
<1>b. ASSUME UNCHANGED <<pr, run>>, remote' = remote \/ remote' # None PROVE Reviewed'
  BY <1>b DEF Reviewed
<1>c. ASSUME UNCHANGED <<remote, pr>>, run'.pr = run.pr, run'.adopted = run.adopted,
             \/ run.pc \in Fresh \cup {"measure"} /\ run'.pc \in Fresh \cup {"measure", "file"}
             \/ run'.pc \in {"recheck", "checkout", "cas", "restore"} \cup After
      PROVE  Reviewed'
  <2>1. CASE run'.pc \in {"recheck", "checkout", "cas", "restore"} \cup After
    BY <1>c, <2>1 DEF Reviewed, Fresh, After
  <2>2. CASE run.pc \in Fresh \cup {"measure"} /\ run'.pc \in Fresh \cup {"measure", "file"}
    BY <1>c, <2>2 DEF Reviewed, Fresh
  <2> QED BY <1>c, <2>1, <2>2
<1>d. ASSUME NEW to, Goto(to)
      PROVE  run'.pc = to /\ run'.pr = run.pr /\ run'.adopted = run.adopted
  BY <1>d, <1>0 DEF RunOK
<1>1. CASE Operator \/ Agent
  <2>1. CASE OpensByHand
    <3>1. remote' = remote /\ remote # None /\ run' = run /\ pr = "none"
      BY <2>1 DEF OpensByHand, Opens
    <3>2. pr' # "open" \/ run.pc = "idle"
      BY <2>1 DEF OpensByHand
    <3> QED BY <3>1, <3>2 DEF Reviewed, Fresh
  <2>2. CASE AgentPushes
    BY <2>2, <1>b DEF AgentPushes, Works
  <2> QED BY <1>1, <2>1, <2>2, <1>b DEF Operator, OperatorCommits, OperatorSwitches,
     Agent, AgentEdits, AgentCommits, AgentSwitches, SessionDone
<1>2. CASE planMerge
  <2>1. PICK asPr \in BOOLEAN :
          run' = [Idle EXCEPT !.pc = "clean", !.pr = asPr, !.adopted = asPr /\ pr # "none"]
    BY <1>2 DEF planMerge
  <2>2. run'.pc = "clean" /\ run'.pr = asPr /\ run'.adopted = (asPr /\ pr # "none")
    BY <2>1 DEF Idle
  <2>3. remote' = remote /\ pr' = IF pr = "unseen" THEN "open" ELSE pr
    BY <1>2 DEF planMerge
  <2>4. pr = "unseen" => remote # None
    BY DEF Reviewed
  <2> QED BY <2>2, <2>3, <2>4 DEF Reviewed
<1>3. CASE FreshBase \/ Measure
  <2>1. UNCHANGED <<remote, pr>> /\ run.pc \in Fresh \cup {"measure"}
    BY <1>3 DEF FreshBase, Clean, PinTarget, Rebase, MergeTree, SwapBranch,
       FollowMerge, UndoMerge, Settle, Measure, Throws, Rejects, Rejected, Fresh
  <2>2. \/ run' = Idle
        \/ /\ run'.pc \in Fresh \cup {"measure", "file"}
           /\ run'.pr = run.pr /\ run'.adopted = run.adopted
    <3>1. ~planMerge
      BY <2>1 DEF planMerge, Fresh
    <3> QED BY <1>3, <1>0, <3>1, FreshGoes
  <2> QED BY <2>1, <2>2, <1>a, <1>c
<1>4. CASE fileAcceptedDebt
  <2>1. CASE ~Throws
    <3>1. /\ run.pc = "file" /\ UNCHANGED <<remote, pr>>
          /\ IF run.pr THEN Goto("push") ELSE Goto("recheck")
      BY <1>4, <2>1 DEF fileAcceptedDebt
    <3> QED BY <3>1, <1>d DEF Reviewed, Fresh
  <2> QED BY <2>1, <1>a DEF Throws
<1>5. CASE FastForward
  <2>1. UNCHANGED <<remote, pr>>
    BY <1>5 DEF FastForward, Recheck, MoveCheckout, MoveTarget, RestoreCheckout, Throws
  <2>2. \/ run' = Idle \/ Lands(run.pin)
        \/ \E to \in {"checkout", "cas", "restore"} : Goto(to)
    BY <1>5 DEF FastForward, Recheck, MoveCheckout, MoveTarget, RestoreCheckout, Throws
  <2>3. CASE Lands(run.pin)
    BY <2>1, <2>3 DEF Lands, Idle, Reviewed, Fresh
  <2> QED BY <2>1, <2>2, <2>3, <1>a, <1>c, <1>d DEF Pinned
<1>6. CASE PullRequest
  <2>1. CASE PushBranch /\ ~Throws
    <3>1. remote' = run.pin /\ pr' = pr /\ Goto("track") /\ run.pc = "push"
      BY <2>1 DEF PushBranch
    <3>2. run.pin # None
      BY <3>1, <1>0 DEF RunOK, Pinned
    <3> QED BY <3>1, <3>2, <1>d DEF Reviewed, Fresh
  <2>2. CASE TrackPush
    BY <2>2, <1>d DEF TrackPush, Reviewed, Fresh
  <2>3. CASE OpenPullRequest /\ ~Throws
    BY <2>3, <1>d DEF OpenPullRequest, Reviewed, Fresh
  <2>4. CASE VerifyHead /\ ~Throws
    BY <2>4, ZenonT(60) DEF VerifyHead, Lands, Idle, Reviewed, Fresh
  <2> QED BY <1>6, <2>1, <2>2, <2>3, <2>4, <1>a DEF PullRequest, Throws
<1>7. CASE Merged
  <2>1. UNCHANGED <<remote, pr>>
    BY <1>7 DEF Merged, RecordMerged, KillWindow, RemoveWorktree, RecordMerge, Ratchet
  <2>2. run' = Idle \/ \E to \in {"window", "worktree", "event", "ratchet"} : Goto(to)
    BY <1>7 DEF Merged, RecordMerged, KillWindow, RemoveWorktree, RecordMerge, Ratchet
  <2> QED BY <2>1, <2>2, <1>a, <1>c, <1>d DEF After
<1>8. CASE Crash
  BY <1>8, <1>a DEF Crash
<1>9. CASE UNCHANGED vars
  BY <1>9, <1>b DEF vars
<1> QED BY <1>1, <1>2, <1>3, <1>4, <1>5, <1>6, <1>7, <1>8, <1>9 DEF Next, Gate

-----------------------------------------------------------------------------
\* What a commit has in its history it keeps.
LEMMA PastStays ==
    ASSUME TypeOK, Stage, [Next]_vars, NEW c \in Commits
    PROVE  c \in Commits' /\ Past(c)' = Past(c)
<1>1. CASE UNCHANGED log
  BY <1>1 DEF Commits, Past
<1>2. ASSUME NEW heads \in SUBSET Commits, NEW files \in SUBSET Changes,
             commitTree(heads, files)
      PROVE  c \in Commits' /\ Past(c)' = Past(c)
  <2>1. PICK n : n = New
    OBVIOUS
  <2> QED BY <1>2, <2>1, CommitGrows DEF TypeOK
<1> QED BY <1>1, <1>2, LogStep

\* The target goes on by a commit of the operator's, or to the pin from its base.
LEMMA TargetMoves ==
    ASSUME [Next]_vars
    PROVE  \/ target' = target
           \/ OperatorCommits
           \/ MoveTarget /\ Lands(run.pin) /\ target = run.base /\ target' = run.pin
<1> USE DEF main, worktree, origin, store, history, At, Goto, GateEnds, Quiet
<1>1. CASE Operator \/ Agent \/ planMerge
  BY <1>1 DEF Operator, OperatorSwitches, OpensByHand, Agent, AgentEdits,
     AgentCommits, AgentSwitches, AgentPushes, SessionDone, planMerge
<1>2. CASE Clean \/ PinTarget \/ Rebase \/ MergeTree \/ SwapBranch
  BY <1>2 DEF Clean, PinTarget, Rebase, MergeTree, SwapBranch, Throws, Rejects, Rejected
<1>3. CASE FollowMerge \/ UndoMerge \/ Settle \/ Measure \/ fileAcceptedDebt
  BY <1>3 DEF FollowMerge, UndoMerge, Settle, Measure, fileAcceptedDebt, Throws,
     Rejects, Rejected
<1>4. CASE FastForward
  BY <1>4 DEF FastForward, Recheck, MoveCheckout, MoveTarget, RestoreCheckout, Throws
<1>5. CASE PullRequest \/ Merged
  BY <1>5 DEF PullRequest, PushBranch, TrackPush, OpenPullRequest, VerifyHead, Throws,
     Merged, RecordMerged, KillWindow, RemoveWorktree, RecordMerge, Ratchet
<1>6. CASE Crash \/ UNCHANGED vars
  BY <1>6 DEF Crash, vars
<1> QED BY <1>1, <1>2, <1>3, <1>4, <1>5, <1>6 DEF Next, Gate, FreshBase

\* What was in the target stays in it.
LEMMA TargetGrows ==
    ASSUME TypeOK, Stage, Closed, [Next]_vars
    PROVE  Past(target) \subseteq Past(target)'
<1>0. LogOK /\ RunOK /\ target \in Commits
  BY DEF TypeOK
<1>a. \A c \in Commits : Past(c)' = Past(c)
  BY PastStays
<1> USE DEF At
<1>1. CASE target' = target
  BY <1>1, <1>0, <1>a
<1>2. CASE OperatorCommits
  <2>1. PICK x \in Theirs \ index : commitTree({target}, index \cup {x})
    BY <1>2 DEF OperatorCommits
  <2>2. {target} \in SUBSET Commits /\ index \cup {x} \in SUBSET Changes
    BY <1>0 DEF Changes, TypeOK
  <2>3. PICK n : n = New
    OBVIOUS
  <2>4. Past(n)' = {n} \cup UNION {Past(c) : c \in {target}}
    BY <1>0, <2>1, <2>2, <2>3, CommitGrows
  <2>5. target' = n
    BY <1>2, <2>3 DEF OperatorCommits
  <2> QED BY <2>4, <2>5 DEF Past
<1>3. CASE MoveTarget /\ target = run.base /\ target' = run.pin
  <2>1. run.pin \in Commits /\ run.base \in Past(run.pin)
    BY <1>3, <1>0 DEF MoveTarget, RunOK, Pinned
  <2> QED BY <1>3, <2>1, <1>a DEF Closed, Past
<1> QED BY TargetMoves, <1>1, <1>2, <1>3

\* The bar, and the ratchet that is about to move it, are of the target.
LEMMA BasedStep ==
    TypeOK /\ Stage /\ Closed /\ Reviewed /\ Based /\ [Next]_vars => Based'
<1> SUFFICES ASSUME TypeOK, Stage, Closed, Reviewed, Based, [Next]_vars PROVE Based'
  OBVIOUS
<1>0. LogOK /\ RunOK /\ target \in Commits /\ bar \in Commits
  BY DEF TypeOK
<1> USE DEF main, worktree, origin, store, history, At, Goto, GateEnds, Quiet
<1>a. \A c \in Commits : Past(c)' = Past(c)
  BY PastStays
<1>c. Past(target) \subseteq Past(target)'
  BY TargetGrows
<1>1. bar' \in Past(target)'
  <2>1. CASE bar' = bar
    BY <2>1, <1>c DEF Based, Past
  <2>2. CASE Ratchet /\ ~run.pr /\ bar' = run.pin
    BY <2>2, <1>c DEF Based, Ratchet, After, Past
  <2>3. bar' = bar \/ Ratchet
    <3>1. CASE Operator \/ Agent \/ planMerge \/ Crash \/ UNCHANGED vars
      BY <3>1 DEF Operator, OperatorCommits, OperatorSwitches, OpensByHand, Agent,
         AgentEdits, AgentCommits, AgentSwitches, AgentPushes, SessionDone, planMerge,
         Crash, vars
    <3>2. CASE FreshBase \/ Measure
      BY <3>2 DEF FreshBase, Clean, PinTarget, Rebase, MergeTree, SwapBranch,
         FollowMerge, UndoMerge, Settle, Measure, Throws, Rejects, Rejected
    <3>3. CASE fileAcceptedDebt \/ FastForward \/ PullRequest \/ Merged
      BY <3>3 DEF fileAcceptedDebt, FastForward, Recheck, MoveCheckout, MoveTarget,
         RestoreCheckout, PullRequest, PushBranch, TrackPush, OpenPullRequest,
         VerifyHead, Throws, Merged, RecordMerged, KillWindow, RemoveWorktree, RecordMerge
    <3> QED BY <3>1, <3>2, <3>3 DEF Next, Gate
  <2> QED BY <2>1, <2>2, <2>3 DEF Ratchet
<1>2. run'.pc \in After /\ ~run'.pr => run'.pin \in Past(target)'
  <2> SUFFICES ASSUME run'.pc \in After, ~run'.pr PROVE run'.pin \in Past(target)'
    BY DEF After
  <2>a. ASSUME run.pc \in After, run'.pin = run.pin, run'.pr = run.pr
        PROVE  run'.pin \in Past(target)'
    BY <2>a, <1>c DEF Based
  <2>b. run' # Idle
    BY DEF Idle, After
  <2>c. ASSUME NEW to, Goto(to) PROVE run'.pc = to /\ run'.pin = run.pin /\ run'.pr = run.pr
    BY <2>c, <1>0 DEF RunOK
  <2>1. CASE Operator \/ Agent \/ UNCHANGED vars
    <3>1. run' = run
      BY <2>1 DEF Operator, OperatorCommits, OperatorSwitches, OpensByHand, Agent,
         AgentEdits, AgentCommits, AgentSwitches, AgentPushes, SessionDone, vars
    <3> QED BY <3>1, <2>a
  <2>2. CASE planMerge \/ FreshBase \/ Measure
    <3>1. run'.pc \in Fresh \cup {"measure", "file"}
      BY <2>2, <2>b, <1>0, FreshGoes
    <3> QED BY <3>1 DEF Fresh, After
  <2>3. CASE fileAcceptedDebt \/ Crash
    BY <2>3, <2>b, <2>c DEF fileAcceptedDebt, Crash, Throws, After
  <2>4. CASE MoveTarget
    <3>1. Lands(run.pin) /\ target' = run.pin
      BY <2>4, <2>b, <2>c DEF MoveTarget, After
    <3>2. run'.pin = run.pin
      BY <3>1 DEF Lands, Idle
    <3>3. run.pin \in Commits
      BY <2>4, <1>0 DEF MoveTarget, RunOK, Pinned
    <3>4. run.pin \in Past(run.pin)
      BY <3>3, <1>0 DEF LogOK
    <3> QED BY <3>1, <3>2, <3>3, <3>4, <1>a DEF Past
  <2>5. CASE VerifyHead
    <3>1. Lands(run.pin) /\ run.pr
      BY <2>5, <2>b DEF VerifyHead, Throws, Reviewed
    <3> QED BY <3>1 DEF Lands, Idle
  <2>6. CASE \/ Recheck \/ MoveCheckout \/ RestoreCheckout
             \/ PushBranch \/ TrackPush \/ OpenPullRequest
    <3>1. \E to \in {"checkout", "cas", "track", "open", "verify"} : Goto(to)
      BY <2>6, <2>b DEF Recheck, MoveCheckout, RestoreCheckout, PushBranch, TrackPush,
         OpenPullRequest, Throws
    <3> QED BY <3>1, <2>c DEF After
  <2>7. CASE Merged
    <3>1. run.pc \in After /\ \E to \in After : Goto(to)
      BY <2>7, <2>b DEF Merged, RecordMerged, KillWindow, RemoveWorktree, RecordMerge,
         Ratchet, After
    <3> QED BY <3>1, <2>a, <2>c
  <2> QED BY <2>1, <2>2, <2>3, <2>4, <2>5, <2>6, <2>7
     DEF Next, Gate, FastForward, PullRequest
<1> QED BY <1>1, <1>2 DEF Based

-----------------------------------------------------------------------------
\* What was counted as left behind still is.
LEMMA ToldStep == TypeOK /\ Stage /\ Told /\ [Next]_vars => Told'
<1> SUFFICES ASSUME TypeOK, Stage, Told, [Next]_vars PROVE Told'
  OBVIOUS
<1>0. RunOK
  BY DEF TypeOK
<1> USE DEF main, worktree, origin, store, history, At, Goto, GateEnds, Quiet
<1>a. ASSUME run' = Idle, UNCHANGED <<row, recorded, branch, alive>> PROVE Told'
  BY <1>a DEF Told, Idle
<1>b. ASSUME UNCHANGED <<run, row, recorded, branch, alive>> PROVE Told'
  BY <1>b DEF Told
\* Before it lands a run leaves no event and the session may do as it will.
<1>c. ASSUME row = "awaiting-review", recorded' = recorded,
             run'.pc \notin {"worktree", "event", "ratchet"}
      PROVE  Told'
  BY <1>c DEF Told
<1>d. ASSUME NEW to, Goto(to) PROVE run'.pc = to /\ run'.pin = run.pin
  BY <1>d, <1>0 DEF RunOK
<1>1. CASE Operator \/ AgentEdits \/ AgentSwitches \/ AgentPushes
  BY <1>1, <1>b DEF Operator, OperatorCommits, OperatorSwitches, OpensByHand,
     AgentEdits, AgentSwitches, AgentPushes
<1>2. CASE AgentCommits \/ SessionDone
  <2>1. alive /\ run' = run /\ recorded' = recorded /\ alive' = alive
    BY <1>2 DEF AgentCommits, SessionDone, Works
  <2> QED BY <2>1 DEF Told
<1>3. CASE planMerge
  <2>1. run'.pc = "clean" /\ row = "awaiting-review" /\ recorded' = recorded
    BY <1>3 DEF planMerge, Idle
  <2> QED BY <2>1, <1>c
<1>4. CASE FreshBase \/ Measure \/ fileAcceptedDebt \/ FastForward \/ PullRequest
  <2>1. row = "awaiting-review"
    <3>1. run.pc \in Fresh \cup Pinned
      BY <1>4 DEF FreshBase, Clean, PinTarget, Rebase, MergeTree, SwapBranch,
         FollowMerge, UndoMerge, Settle, Measure, fileAcceptedDebt, FastForward,
         Recheck, MoveCheckout, MoveTarget, RestoreCheckout, PullRequest, PushBranch,
         TrackPush, OpenPullRequest, VerifyHead, Fresh, Pinned
    <3> QED BY <3>1 DEF Stage
  <2>2. recorded' = recorded
    BY <1>4 DEF FreshBase, Clean, PinTarget, Rebase, MergeTree, SwapBranch,
       FollowMerge, UndoMerge, Settle, Measure, fileAcceptedDebt, FastForward,
       Recheck, MoveCheckout, MoveTarget, RestoreCheckout, PullRequest, PushBranch,
       TrackPush, OpenPullRequest, VerifyHead, Throws, Rejects, Rejected
  <2>3. run'.pc \notin {"worktree", "event", "ratchet"}
    <3>1. run' = Idle => run'.pc = "idle"
      BY DEF Idle
    <3>2. Lands(run.pin) => run'.pc = "record"
      BY DEF Idle, Lands
    <3>3. CASE FreshBase \/ Measure
      <4>1. run' = Idle \/ run'.pc \in Fresh \cup {"measure", "file"}
        BY <3>3, <1>0, FreshGoes
      <4> QED BY <4>1, <3>1 DEF Fresh
    <3>4. CASE fileAcceptedDebt \/ FastForward \/ PullRequest
      <4>1. \/ run' = Idle \/ Lands(run.pin)
            \/ \E to \in Pinned : Goto(to)
        BY <3>4 DEF fileAcceptedDebt, FastForward, Recheck, MoveCheckout, MoveTarget,
           RestoreCheckout, PullRequest, PushBranch, TrackPush, OpenPullRequest,
           VerifyHead, Throws, Pinned
      <4> QED BY <4>1, <3>1, <3>2, <1>d DEF Pinned
    <3> QED BY <1>4, <3>3, <3>4
  <2> QED BY <2>1, <2>2, <2>3, <1>c
<1>5. CASE RecordMerged
  <2>1. run'.pc = "window" /\ recorded' = recorded /\ row = "awaiting-review"
    BY <1>5, <1>d DEF RecordMerged, Stage
  <2> QED BY <2>1, <1>c
<1>6. CASE KillWindow \/ RemoveWorktree
  <2>1. recorded' = recorded /\ recorded.sha = None /\ ~alive'
    BY <1>6 DEF KillWindow, RemoveWorktree, Told
  <2> QED BY <2>1 DEF Told
<1>7. CASE RecordMerge
  <2>1. recorded' = [sha |-> run.pin, left |-> branch \notin {None, run.pin}]
        /\ row' = row /\ run'.pc = "ratchet" /\ branch' = branch /\ alive' = alive
    BY <1>7, <1>d DEF RecordMerge
  <2>2. row = "merged" /\ ~alive
    BY <1>7 DEF RecordMerge, Stage, Told, After
  <2> QED BY <2>1, <2>2 DEF Told
<1>8. CASE Ratchet \/ Crash
  BY <1>8, <1>a DEF Ratchet, Crash
<1>9. CASE UNCHANGED vars
  BY <1>9, <1>b DEF vars
<1> QED
  BY <1>1, <1>2, <1>3, <1>4, <1>5, <1>6, <1>7, <1>8, <1>9 DEF Next, Agent, Gate, Merged

-----------------------------------------------------------------------------
\* The conjuncts of the invariant at first.
LEMMA InitInv == Init => Inv
<1> SUFFICES ASSUME Init PROVE Inv
  OBVIOUS
<1> USE DEF Init
<1>1. Commits = {Root} /\ Past(Root) = {Root} /\ Root = 1
  BY DEF Commits, Past, Root
<1>2. LogOK
  <2>1. [past |-> {Root}, has |-> {}] \in [past : SUBSET (1 .. MaxCommits), has : SUBSET Changes]
    BY BoundAssumption DEF Root
  <2>2. Len(log) \in 1 .. MaxCommits
    BY BoundAssumption
  <2> QED BY <1>1, <2>1, <2>2 DEF LogOK
<1>3. RunOK
  BY DEF RunOK, Idle, Fresh, Pinned, After, None
<1>4. TypeOK
  BY <1>1, <1>2, <1>3 DEF TypeOK, None
<1>5. Closed /\ Based
  BY <1>1 DEF Closed, Based, Idle, After
<1>6. Stage /\ Filed /\ Reviewed /\ Told
  BY <1>1 DEF Stage, Filed, Reviewed, Told, Idle, Fresh, Pinned, After, None
<1> QED BY <1>4, <1>5, <1>6 DEF Inv

\* Inv is inductive, so it holds throughout.
THEOREM InvHolds == Spec => []Inv
<1>1. Inv /\ [Next]_vars => Inv'
  BY TypeStep, StageStep, ClosedStep, FiledStep, ReviewedStep, BasedStep, ToldStep DEF Inv
<1> QED BY InitInv, <1>1, PTL DEF Spec

\* Types: no interleaving of the gate, the session and the operator takes a
\* state out of them, a pin that does not hold its base included.
THEOREM TypeCorrect == Spec => []TypeOK
<1>1. Inv => TypeOK
  BY DEF Inv
<1> QED BY <1>1, InvHolds, PTL

\* fileAcceptedDebt: landed debt is on the ledger, once.
THEOREM DebtFiled == Spec => []DebtIsFiledOnce
<1>1. Inv => DebtIsFiledOnce
  BY DEF Inv, Filed, DebtIsFiledOnce
<1> QED BY <1>1, InvHolds, PTL

\* ratchetBaseline: only what landed on the target moves the bar.
THEOREM BarLanded == Spec => []BarHasLanded
<1>1. Inv => BarHasLanded
  BY DEF Inv, Based, BarHasLanded
<1> QED BY <1>1, InvHolds, PTL

\* fileAcceptedDebt and the ratchet: ledger and bar follow what landed.
THEOREM DebtFollows == Spec => []DebtFollowsLandings
<1>1. DebtIsFiledOnce /\ BarHasLanded => DebtFollowsLandings
  BY DEF DebtFollowsLandings
<1> QED BY <1>1, DebtFiled, BarLanded, PTL

\* recordMerge: the count of what was left behind stays true.
THEOREM LeftBehindTold == Spec => []LeftBehindIsTold
<1>1. Inv => LeftBehindIsTold
  BY DEF Inv, Told, LeftBehindIsTold
<1> QED BY <1>1, InvHolds, PTL

\* pushBranch: what an open pull request holds, it keeps.
THEOREM ReviewedStay == Spec => ReviewedCommitsStay
<1>1. Inv /\ [Next]_vars =>
        [pr = "open" /\ run' # run /\ remote' # remote => remote \in Past(remote)']_vars
  <2> SUFFICES ASSUME Inv, Next, pr = "open", run' # run, remote' # remote
               PROVE  remote \in Past(remote)'
    OBVIOUS
  <2> USE DEF main, worktree, origin, store, history, At, Quiet
  <2>1. PushBranch /\ ~Throws
    <3>1. CASE Operator \/ Agent
      BY <3>1 DEF Operator, OperatorCommits, OperatorSwitches, OpensByHand, Agent,
         AgentEdits, AgentCommits, AgentSwitches, AgentPushes, SessionDone
    <3>2. CASE planMerge \/ FreshBase \/ Measure \/ fileAcceptedDebt
      BY <3>2 DEF planMerge, FreshBase, Clean, PinTarget, Rebase, MergeTree, SwapBranch,
         FollowMerge, UndoMerge, Settle, Measure, fileAcceptedDebt, Throws, Rejects,
         Rejected
    <3>3. CASE FastForward \/ Merged \/ Crash
      BY <3>3 DEF FastForward, Recheck, MoveCheckout, MoveTarget, RestoreCheckout,
         Merged, RecordMerged, KillWindow, RemoveWorktree, RecordMerge, Ratchet, Crash,
         Throws
    <3>4. CASE PullRequest
      BY <3>4 DEF PullRequest, PushBranch, TrackPush, OpenPullRequest, VerifyHead, Throws
    <3> QED BY <3>1, <3>2, <3>3, <3>4 DEF Next, Gate
  <2>2. run.pr /\ run.adopted /\ remote # None
    BY <2>1 DEF Inv, Reviewed, PushBranch
  <2>3. remote \in Past(run.pin) /\ remote' = run.pin /\ log' = log
    BY <2>1, <2>2 DEF PushBranch
  <2> QED BY <2>3 DEF Past
<1> QED BY <1>1, InvHolds, PTL DEF Spec, ReviewedCommitsStay

-----------------------------------------------------------------------------
(***************************************************************************)
(* The gate implements Landing. What Landing sees of a step is the commits, *)
(* the target, the run's verdict and landing, and whether the row says      *)
(* merged: each step makes or moves, checks, lands, publishes, merges, ends *)
(* the run, or shows nothing.                                               *)
(***************************************************************************)
LEMMA InitPromise == Init => Promise!Init
<1> SUFFICES ASSUME Init PROVE Promise!Init
  OBVIOUS
<1>1. Commits = {Root}
  BY DEF Init, Commits, Root
<1> QED BY <1>1 DEF Init, Promise!Init, Idle

\* Each action is one of Landing, or shows nothing.
LEMMA StepPromise == Inv /\ [Next]_vars => [Promise!Next]_(Promise!vars)
<1> SUFFICES ASSUME Inv, [Next]_vars PROVE Promise!Next \/ UNCHANGED Promise!vars
  OBVIOUS
<1>0. TypeOK /\ LogOK /\ RunOK /\ Stage
  BY DEF Inv, TypeOK
<1> USE DEF main, worktree, origin, store, history, At, Goto, GateEnds, Quiet
<1> DEFINE isMerged == (row = "merged")
<1>a. ASSUME UNCHANGED <<log, target>>, isMerged' = isMerged, run' = Idle
      PROVE  Promise!Next
  <2>1. run'.passed = {} /\ run'.landed = {} /\ Commits' = Commits
    BY <1>a DEF Idle, Commits
  <2> QED BY <1>a, <2>1 DEF Promise!Next, Promise!End
<1>b. ASSUME UNCHANGED <<log, target>>, isMerged' = isMerged,
             run'.passed = run.passed, run'.landed = run.landed
      PROVE  UNCHANGED Promise!vars
  BY <1>b DEF Promise!vars, Commits
<1>c. ASSUME NEW heads \in SUBSET Commits, NEW files \in SUBSET Changes,
             commitTree(heads, files), isMerged' = isMerged,
             run'.passed = run.passed, run'.landed = run.landed,
             target' \in {target, New}
      PROVE  Promise!Next
  <2>1. PICK n : n = New
    OBVIOUS
  <2>2. n \in (1 .. MaxCommits) \ Commits /\ Commits' = Commits \cup {n}
    BY <1>c, <1>0, <2>1, CommitGrows
  <2>3. CASE target' = target
    <3>1. Promise!Make
      BY <1>c, <2>2, <2>3 DEF Promise!Make
    <3> QED BY <3>1 DEF Promise!Next
  <2>4. CASE target' = n
    <3>1. Promise!Move
      BY <1>c, <2>2, <2>4 DEF Promise!Move
    <3> QED BY <3>1 DEF Promise!Next
  <2> QED BY <1>c, <2>1, <2>3, <2>4
<1>d. ASSUME NEW to, Goto(to)
      PROVE  run'.passed = run.passed /\ run'.landed = run.landed
  BY <1>d, <1>0 DEF RunOK
<1>e. Throws => Promise!Next
  BY <1>a DEF Throws
<1>f. Rejects /\ run.pc \in Fresh \cup Pinned => Promise!Next
  <2> SUFFICES ASSUME Rejects, run.pc \in Fresh \cup Pinned PROVE Promise!Next
    OBVIOUS
  <2>1. row = "awaiting-review" /\ row' = "running"
    BY <1>0 DEF Stage, Rejects, Rejected
  <2> QED BY <2>1, <1>a DEF Rejects, Rejected
<1>1. CASE OperatorCommits
  <2>1. PICK x \in Theirs \ index : commitTree({target}, index \cup {x})
    BY <1>1 DEF OperatorCommits
  <2>2. {target} \in SUBSET Commits /\ index \cup {x} \in SUBSET Changes
    BY <1>0 DEF Changes, TypeOK
  <2>3. target' = New /\ row' = row /\ run' = run
    BY <1>1 DEF OperatorCommits
  <2> QED BY <2>1, <2>2, <2>3, <1>c
<1>2. CASE AgentCommits
  <2>1. commitTree({branch}, tree) /\ branch \in Commits /\ tree \in SUBSET Changes
    BY <1>2, <1>0 DEF AgentCommits, Works, TypeOK
  <2>2. target' = target /\ row' = row /\ run' = run /\ {branch} \in SUBSET Commits
    BY <1>2, <2>1 DEF AgentCommits
  <2> QED BY <2>1, <2>2, <1>c
<1>3. CASE \/ OperatorSwitches \/ OpensByHand \/ AgentEdits \/ AgentSwitches \/ AgentPushes
           \/ SessionDone \/ UNCHANGED vars
  <2>1. UNCHANGED <<log, target, run>>
    BY <1>3 DEF OperatorSwitches, OpensByHand, AgentEdits, AgentSwitches, AgentPushes,
       SessionDone, vars
  <2>2. CASE SessionDone
    <3>1. isMerged' = isMerged
      BY <2>2 DEF SessionDone
    <3> QED BY <2>1, <3>1, <1>b
  <2>3. CASE ~SessionDone
    <3>1. row' = row
      BY <1>3, <2>3 DEF OperatorSwitches, OpensByHand, AgentEdits, AgentSwitches,
         AgentPushes, vars
    <3> QED BY <2>1, <3>1, <1>b
  <2> QED BY <2>2, <2>3
<1>4. CASE planMerge
  <2>1. /\ UNCHANGED <<log, target, row>>
        /\ run'.passed = {} /\ run'.landed = {} /\ run.pc = "idle"
    BY <1>4 DEF planMerge, Idle
  <2>2. run.passed = {} /\ run.landed = {}
    BY <2>1, <1>0 DEF Stage, Pinned, After
  <2> QED BY <2>1, <2>2, <1>b
<1>5. CASE Rebase \/ MergeTree
  <2> DEFINE files == threeWay(branch, run.base)
  <2>1. CASE Rejects \/ Throws
    BY <2>1, <1>5, <1>e, <1>f DEF Rebase, MergeTree, Fresh
  <2>2. CASE ~Rejects /\ ~Throws
    <3>1. /\ run.base \in Commits /\ branch \in Commits
          /\ {run.base} \in SUBSET Commits /\ {branch, run.base} \in SUBSET Commits
      BY <1>5, <1>0 DEF RunOK, TypeOK, Rebase, MergeTree, Fresh, Stage
    <3>2. files \in SUBSET Changes
      BY <3>1, <1>0, TreesAreChanges
    <3>3. /\ run'.passed = run.passed /\ run'.landed = run.landed
          /\ UNCHANGED <<target, row>>
      <4>1. CASE Rebase
        BY <4>1, <2>2, <1>d DEF Rebase
      <4>2. CASE MergeTree
        <5>1. /\ run' = [run EXCEPT !.pc = "swap", !.tip = branch, !.mid = New,
                                    !.follow = ~away]
              /\ UNCHANGED <<target, row>>
          BY <4>2, <2>2 DEF MergeTree
        <5> QED BY <5>1, <1>0 DEF RunOK
      <4> QED BY <1>5, <4>1, <4>2
    <3>4. \/ UNCHANGED log
          \/ commitTree({run.base}, files) \/ commitTree({branch, run.base}, files)
      BY <1>5, <2>2 DEF Rebase, MergeTree
    <3> HIDE DEF files
    <3>5. CASE UNCHANGED log
      BY <3>3, <3>5, <1>b
    <3>6. CASE commitTree({run.base}, files) \/ commitTree({branch, run.base}, files)
      BY <3>1, <3>2, <3>3, <3>6, <1>c
    <3> QED BY <3>4, <3>5, <3>6
  <2> QED BY <2>1, <2>2
<1>6. CASE Clean \/ PinTarget \/ SwapBranch \/ FollowMerge \/ UndoMerge \/ Settle
  <2>1. UNCHANGED <<log, target>> /\ run.pc \in Fresh
    BY <1>6 DEF Clean, PinTarget, SwapBranch, FollowMerge, UndoMerge, Settle, Throws,
       Rejects, Fresh
  <2>2. /\ row = "awaiting-review"
        /\ row' = row \/ row' = "running"
    BY <1>6, <2>1, <1>0 DEF Stage, Clean, PinTarget, SwapBranch, FollowMerge, UndoMerge,
       Settle, Throws, Rejects, Rejected
  <2>3. \/ run' = Idle
        \/ run'.passed = run.passed /\ run'.landed = run.landed
    <3>1. CASE Clean \/ SwapBranch \/ FollowMerge \/ UndoMerge
      BY <3>1, <1>d DEF Clean, SwapBranch, FollowMerge, UndoMerge, Throws, Rejects,
         Rejected
    <3>2. CASE PinTarget
      <4>1. \/ run' = Idle
            \/ \E to \in Fresh : run' = [run EXCEPT !.base = target, !.pc = to]
        BY <3>2 DEF PinTarget, Fresh, Rejects, Rejected
      <4> QED BY <4>1, <1>0 DEF RunOK
    <3>3. CASE Settle
      <4>1. \/ run' = Idle
            \/ run' = [run EXCEPT !.pc = "measure", !.pin = branch, !.tip = None,
                                  !.mid = None, !.follow = FALSE]
        BY <3>3 DEF Settle, Rejects, Rejected
      <4> QED BY <4>1, <1>0, ZenonT(60) DEF RunOK
    <3> QED BY <1>6, <3>1, <3>2, <3>3
  <2> QED BY <2>1, <2>2, <2>3, <1>a, <1>b
<1>7. CASE Measure
  <2>1. CASE ~Rejects /\ ~Throws
    <3>1. PICK flag \in BOOLEAN :
            run' = [run EXCEPT !.pc = "file", !.flag = flag,
                               !.passed = {<<run.pin, run.base>>}]
      BY <1>7, <2>1 DEF Measure
    <3>2. UNCHANGED <<log, target, row>> /\ run.pc = "measure"
      BY <1>7, <2>1 DEF Measure
    <3>3. run.pin \in Commits /\ run.base \in Commits
      BY <3>2, <1>0 DEF RunOK, LogOK, Pinned
    <3>4. run.passed = {} /\ run'.passed = {<<run.pin, run.base>>} /\ run'.landed = run.landed
      BY <3>1, <3>2, <1>0 DEF Stage, RunOK, Pinned
    <3>5. Promise!Check
      BY <3>2, <3>3, <3>4 DEF Promise!Check, Commits
    <3> QED BY <3>5 DEF Promise!Next
  <2> QED BY <1>7, <2>1, <1>e, <1>f DEF Measure, Pinned
<1>8. CASE \/ fileAcceptedDebt \/ Recheck \/ MoveCheckout \/ RestoreCheckout
           \/ PushBranch \/ TrackPush \/ OpenPullRequest
  <2>1. UNCHANGED <<log, target, row>>
    BY <1>8 DEF fileAcceptedDebt, Recheck, MoveCheckout, RestoreCheckout, PushBranch,
       TrackPush, OpenPullRequest, Throws
  <2>2. run' = Idle \/ \E to \in Pinned : Goto(to)
    BY <1>8 DEF fileAcceptedDebt, Recheck, MoveCheckout, RestoreCheckout, PushBranch,
       TrackPush, OpenPullRequest, Throws, Pinned
  <2> QED BY <2>1, <2>2, <1>a, <1>b, <1>d
<1>g. ASSUME Lands(run.pin)
      PROVE  run'.passed = {} /\ run'.landed = {run.pin}
  BY <1>g DEF Lands, Idle
<1>h. run.pc \in {"cas", "verify"} =>
        /\ run.passed = {<<run.pin, run.base>>} /\ run.landed = {}
        /\ run.pin \in Commits
  BY <1>0 DEF Stage, Pinned, After, RunOK
<1>9. CASE MoveTarget
  <2>1. CASE Goto("restore") /\ Quiet
    BY <2>1, <1>b, <1>d
  <2>2. CASE ~(Goto("restore") /\ Quiet)
    <3>1. /\ target = run.base /\ target' = run.pin /\ Lands(run.pin)
          /\ UNCHANGED <<log, row>> /\ run.pc = "cas"
      BY <1>9, <2>2 DEF MoveTarget
    <3>2. Promise!Land
      BY <3>1, <1>g, <1>h DEF Promise!Land, Commits
    <3> QED BY <3>2 DEF Promise!Next
  <2> QED BY <2>1, <2>2
<1>10. CASE VerifyHead
  <2>1. CASE ~Throws
    <3>1. Lands(run.pin) /\ UNCHANGED <<log, target, row>> /\ run.pc = "verify"
      BY <1>10, <2>1 DEF VerifyHead
    <3>2. <<run.pin, run.base>>[1] = run.pin
      OBVIOUS
    <3>3. Promise!Publish
      BY <3>1, <3>2, <1>g, <1>h DEF Promise!Publish, Commits
    <3> QED BY <3>3 DEF Promise!Next
  <2> QED BY <2>1, <1>e
<1>11. CASE RecordMerged
  <2>1. /\ UNCHANGED <<log, target>> /\ row' = "merged" /\ Goto("window")
        /\ run.pc = "record"
    BY <1>11 DEF RecordMerged
  <2>2. run.landed # {}
    BY <2>1, <1>0 DEF Stage, After
  <2>3. Promise!Merge
    BY <2>1, <2>2, <1>d DEF Promise!Merge, Commits
  <2> QED BY <2>3 DEF Promise!Next
<1>12. CASE KillWindow \/ RemoveWorktree \/ RecordMerge
  <2>1. /\ UNCHANGED <<log, target, row>>
        /\ \E to \in After : Goto(to)
    BY <1>12 DEF KillWindow, RemoveWorktree, RecordMerge, After
  <2> QED BY <2>1, <1>b, <1>d
<1>13. CASE Ratchet \/ Crash
  <2>1. UNCHANGED <<log, target, row>> /\ run' = Idle
    BY <1>13 DEF Ratchet, Crash
  <2> QED BY <2>1, <1>a
<1> QED
  BY <1>1, <1>2, <1>3, <1>4, <1>5, <1>6, <1>7, <1>8, <1>9, <1>10, <1>11, <1>12, <1>13
     DEF Next, Operator, Agent, Gate, FreshBase, FastForward, PullRequest, Merged

\* A commit lands only on the base its stages measured it over, and the
\* session is recorded merged only after a landing, whatever the session and
\* the operator do and wherever the run is killed.
THEOREM PromiseKept == Spec => KeepsPromise
<1> QED
  BY InitPromise, StepPromise, InvHolds, PTL DEF Spec, KeepsPromise, Promise!Spec

-----------------------------------------------------------------------------
(***************************************************************************)
(* The files. What a history has ever held, and a history that has lost     *)
(* none of it.                                                              *)
(***************************************************************************)
Held(c) == UNION {Has(d) : d \in Past(c)}
Kept == Held(target)
Sound(c) == \A d \in Past(c) : Has(d) \subseteq Has(c)
InWorktree == alive /\ ~away
Moving == {"swap", "follow", "undo"}
OnBase == Fresh \ {"clean", "pin"}
InPlace == {"checkout", "cas", "restore"}

\* Every history starts at the root, and a run's base is the target's past.
Rooted == Has(Root) = {} /\ \A c \in Commits : Root \in Past(c)
Grounded == /\ run.base # None => run.base \in Past(target)
            /\ alive => branch # None

\* What the session ever committed is in its branch or in the target's past, in
\* the worktree too, and a merge into the branch takes it along both ways.
BranchCarries == branch # None =>
    \A c \in Commits : Has(c) \cap Mine \subseteq Has(branch) \cup Kept
OriginCarries == branch = None =>
    \A c \in Commits :
        Has(c) \cap Mine \subseteq Kept \cup (IF remote = None THEN {} ELSE Held(remote))
TreeCarries == InWorktree => Has(branch) \cap Mine \subseteq tree \cup Kept
MergeCarries == run.pc \in Moving =>
    /\ Has(run.tip) \cap Mine \subseteq Has(run.mid) \cup Kept
    /\ Has(run.mid) \cap Mine \subseteq Has(run.tip) \cup Kept
PinCarries == run.pc \in After =>
    branch # run.pin \/ remote = run.pin \/ run.pin \in Past(target)
Carried == BranchCarries /\ OriginCarries /\ TreeCarries /\ MergeCarries /\ PinCarries

\* Until a ref and its checkout are caught apart, every commit in use has all
\* that its past ever had.
InUse == {target, branch, run.base, run.tip, run.mid, run.pin} \ {None}
Sounds == \A c \in InUse : Sound(c)

\* Others' changes reach the session through the target alone, and a run's
\* branch through its base.
Foreign ==
    /\ branch # None => Has(branch) \cap Theirs \subseteq Has(target)
    /\ InWorktree => tree \cap Theirs \subseteq Has(target)
    /\ run.pc \in OnBase =>
          /\ branch # None => Has(branch) \cap Theirs \subseteq Has(run.base)
          /\ InWorktree => tree \cap Theirs \subseteq Has(run.base)
    /\ run.pc \in Moving => (Has(run.tip) \cup Has(run.mid)) \cap Theirs \subseteq Has(run.base)
    /\ run.pc \in Pinned => Has(run.pin) \cap Theirs \subseteq Has(run.base)

\* A checkout is its ref's, and between the gate's two moves it is the one the
\* ref is about to have.
MainFollows ==
    /\ run.pc \in InPlace =>
          head = "target" /\ Has(target) \cap Has(run.pin) \subseteq Has(run.base)
    /\ index = IF MainApart THEN readTree(Has(target), run.base, run.pin) ELSE Has(Tip(head))
TreeFollows ==
    /\ run.pc = "swap" => (run.follow <=> ~away)
    /\ run.pc \in {"follow", "undo"} => branch = run.mid /\ ~away
    /\ InWorktree => IF WorktreeApart THEN Has(run.tip) \subseteq tree ELSE Has(branch) \subseteq tree

FilesInv == /\ Rooted /\ Grounded /\ Carried
            /\ ~torn => Sounds /\ Foreign /\ MainFollows /\ TreeFollows

\* Of some numbers there is a last.
LEMMA LatestExists ==
    ASSUME NEW n \in Nat, NEW S \in SUBSET (1 .. n), S # {}
    PROVE  \E m \in S : \A d \in S : d <= m
<1> DEFINE back == {n - c : c \in S}
<1>1. back \subseteq Nat /\ back # {}
  <2>1. \A c \in S : n - c \in Nat
    OBVIOUS
  <2>2. PICK c \in S : TRUE
    OBVIOUS
  <2>3. n - c \in back
    OBVIOUS
  <2> QED BY <2>1, <2>3
<1>2. PICK x \in back : \A y \in back : ~ <<y, x>> \in OpToRel(<, Nat)
  <2> HIDE DEF back
  <2> QED BY <1>1, NatLessThanWellFounded, WFMin, Zenon
<1>3. \A y \in back : ~ (y < x)
  BY <1>1, <1>2 DEF OpToRel
<1>4. PICK m \in S : x = n - m
  OBVIOUS
<1>5. ASSUME NEW d \in S PROVE d <= m
  <2>1. ~ (n - d < n - m)
    BY <1>3, <1>4
  <2> QED BY <2>1
<1> QED BY <1>5

\* Two histories share the base of their merge.
LEMMA BaseIsShared ==
    ASSUME LogOK, Rooted, NEW a \in Commits, NEW b \in Commits
    PROVE  mergeBase(a, b) \in Past(a) \cap Past(b)
<1> DEFINE S == Past(a) \cap Past(b)
<1>1. S \in SUBSET (1 .. Len(log)) /\ Len(log) \in Nat /\ S # {}
  BY BoundAssumption DEF LogOK, Commits, Rooted
<1>2. \E c \in S : \A d \in S : d <= c
  <2> HIDE DEF S
  <2> QED BY <1>1, LatestExists
<1>3. mergeBase(a, b) = CHOOSE c \in S : \A d \in S : d <= c
  BY DEF mergeBase
<1> HIDE DEF S
<1>4. mergeBase(a, b) \in S
  BY <1>2, <1>3, Zenon
<1> QED BY <1>4 DEF S

\* A merge of two trees invents nothing, drops of the one only what the other's
\* past has had, and drops nothing where no history has lost any.
LEMMA MergeKeeps ==
    ASSUME LogOK, Rooted, NEW a \in Commits, NEW b \in Commits
    PROVE  /\ threeWay(a, b) \subseteq Has(a) \cup Has(b)
           /\ Has(a) \subseteq threeWay(a, b) \cup Held(b)
           /\ Sound(a) => Has(b) \subseteq threeWay(a, b)
           /\ Sound(a) /\ Sound(b) => Has(a) \subseteq threeWay(a, b)
<1> DEFINE base == mergeBase(a, b)
<1>1. base \in Past(a) /\ base \in Past(b)
  BY BaseIsShared
<1>2. threeWay(a, b) = (Has(b) \cup (Has(a) \ Has(base))) \ (Has(base) \ Has(a))
  BY DEF threeWay
<1> HIDE DEF base
<1>3. Has(base) \subseteq Held(b)
  BY <1>1 DEF Held
<1>4. (Sound(a) => Has(base) \subseteq Has(a)) /\ (Sound(b) => Has(base) \subseteq Has(b))
  BY <1>1 DEF Sound
<1> QED BY <1>2, <1>3, <1>4

\* The trees of the commits there were, and of a new one.
LEMMA CommitTrees ==
    ASSUME LogOK, NEW heads \in SUBSET Commits, NEW files \in SUBSET Changes,
           commitTree(heads, files), NEW n, n = New
    PROVE  (\A c \in Commits : Has(c)' = Has(c)) /\ Has(n)' = files
<1> DEFINE Rec == [past : SUBSET (1 .. MaxCommits), has : SUBSET Changes]
           last == [past |-> {n} \cup UNION {Past(c) : c \in heads}, has |-> files]
<1>1. log \in Seq(Rec) /\ log' = Append(log, last) /\ n = Len(log) + 1
  BY DEF LogOK, commitTree, New
<1>2. \A c \in Commits : Past(c) \subseteq Commits
  BY DEF LogOK
<1>3. Len(log) \in Nat /\ n \in 1 .. MaxCommits /\ Commits \subseteq 1 .. MaxCommits
  <2>1. Len(log) \in 1 .. MaxCommits /\ MaxCommits \in Nat
    BY BoundAssumption DEF LogOK
  <2>2. n \in 1 .. MaxCommits
    BY CommitGrows
  <2> QED BY <2>1, <2>2 DEF Commits
<1>4. last \in Rec
  <2>1. {n} \cup UNION {Past(c) : c \in heads} \in SUBSET (1 .. MaxCommits)
    BY <1>2, <1>3
  <2> QED BY <2>1
<1>5. log'[n] = last /\ \A c \in Commits : log'[c] = log[c]
  <2> HIDE DEF last, Rec
  <2> QED BY <1>1, <1>3, <1>4 DEF Commits
<1> QED BY <1>5 DEF Has

\* Commits do not change, and their histories hold what they held.
LEMMA Immutable ==
    ASSUME TypeOK, Stage, [Next]_vars, NEW c \in Commits
    PROVE  /\ c \in Commits' /\ Past(c)' = Past(c) /\ Past(c) \subseteq Commits
           /\ Has(c)' = Has(c) /\ Held(c)' = Held(c) /\ Sound(c)' = Sound(c)
<1>1. Past(c) \subseteq Commits
  BY DEF TypeOK, LogOK
<1>2. \A d \in Commits : d \in Commits' /\ Past(d)' = Past(d)
  BY PastStays
<1>3. \A d \in Commits : Has(d)' = Has(d)
  <2>1. CASE UNCHANGED log
    BY <2>1 DEF Has
  <2>2. ASSUME NEW heads \in SUBSET Commits, NEW files \in SUBSET Changes,
               commitTree(heads, files)
        PROVE  \A d \in Commits : Has(d)' = Has(d)
    <3>1. PICK n : n = New
      OBVIOUS
    <3> QED BY <2>2, <3>1, CommitTrees DEF TypeOK
  <2> QED BY <2>1, <2>2, LogStep
<1>4. Held(c)' = Held(c)
  <2>1. {Has(d)' : d \in Past(c)'} = {Has(d) : d \in Past(c)}
    BY <1>1, <1>2, <1>3
  <2> QED BY <2>1 DEF Held
<1>5. Sound(c)' = Sound(c)
  <2>1. (\A d \in Past(c)' : Has(d)' \subseteq Has(c)') <=> \A d \in Past(c) : Has(d) \subseteq Has(c)
    BY <1>1, <1>2, <1>3
  <2> QED BY <2>1 DEF Sound
<1> QED BY <1>1, <1>2, <1>3, <1>4, <1>5

-----------------------------------------------------------------------------
\* The steps that move the session's files.
Still == UNCHANGED <<log, target, branch, tree, away>> /\ (alive' => alive)
Rebased == /\ run.pc = "rebase" /\ run'.pc = "settle" /\ ~away
           /\ tree' = threeWay(branch, run.base)
           /\ \/ tree' = Has(run.base) /\ branch' = run.base /\ log' = log
              \/ branch' = New /\ commitTree({run.base}, tree')
           /\ UNCHANGED <<target, away, alive>>
Swapped == /\ run.pc = "swap" /\ run'.pc = IF run.follow THEN "follow" ELSE "settle"
           /\ branch = run.tip /\ branch' = run.mid
           /\ UNCHANGED <<log, target, tree, away, alive>>
Followed == /\ run.pc = "follow" /\ run'.pc = "settle"
            /\ tree' = readTree(tree, run.tip, run.mid)
            /\ UNCHANGED <<log, target, branch, away, alive>>
Undone == /\ run.pc = "undo" /\ run'.pc = "idle"
          /\ branch = run.mid /\ branch' = run.tip
          /\ UNCHANGED <<log, target, tree, away, alive>>
Removed == /\ run.pc = "worktree" /\ run'.pc = "event"
           /\ branch = run.pin /\ branch' = None
           /\ UNCHANGED <<log, target, tree, away, alive, remote>>

\* A run that goes on is about the commits it was about.
Onward ==
    /\ run'.base = run.base /\ run'.tip = run.tip /\ run'.mid = run.mid
    /\ run'.pin = run.pin /\ run'.follow = run.follow
    /\ \/ run.pc = "clean" /\ run'.pc = "pin"
       \/ run.pc \in OnBase \ {"follow", "undo"} /\ run'.pc = "settle"
       \/ Swapped /\ run'.pc = "follow"
       \/ Followed
       \/ run.pc = "follow" /\ run'.pc = "undo"
       \/ run.pc \in Pinned \ InPlace /\ run'.pc \in Pinned \ InPlace
       \/ Recheck /\ run'.pc = "checkout" /\ head = "target" /\ target = run.base
       \/ /\ run.pc = "checkout" /\ run'.pc = "cas"
          /\ index' = readTree(index, run.base, run.pin)
       \/ run.pc = "cas" /\ run'.pc = "restore"
       \/ run.pc \in After /\ run'.pc \in After

\* It names others where it pins the target, where it makes a merge of it and
\* where it pins the branch; once it has landed, only what landed.
Starts == /\ run'.pc \in {"idle", "clean"}
          /\ run'.base = None /\ run'.tip = None /\ run'.mid = None /\ run'.pin = None
PinsBase == /\ run.pc = "pin" /\ run'.pc \in OnBase \ Moving /\ run'.base = target
            /\ run'.tip = run.tip /\ run'.mid = run.mid /\ run'.pin = run.pin
            /\ UNCHANGED <<log, main, worktree>>
MakesMerge == /\ MergeTree /\ run.pc = "mergeTree" /\ run'.pc = "swap"
              /\ run'.tip = branch /\ run'.mid = New /\ run'.follow = ~away
              /\ run'.base = run.base /\ run'.pin = run.pin
              /\ commitTree({branch, run.base}, threeWay(branch, run.base))
              /\ UNCHANGED <<main, worktree, origin, torn>>
PinsBranch == /\ run.pc = "settle" /\ run'.pc = "measure" /\ run'.pin = branch
              /\ run.base \in Past(branch)
              /\ run'.base = run.base /\ run'.tip = None /\ run'.mid = None
              /\ UNCHANGED <<log, main, worktree>>
HasLanded == /\ \/ run.pc = "cas" /\ target = run.base /\ target' = run.pin
                \/ run.pc = "verify" /\ remote = run.pin /\ UNCHANGED target
             /\ UNCHANGED <<log, head, index, worktree, remote, torn>>
             /\ run'.pc = "record" /\ run'.pin = run.pin
             /\ run'.base = None /\ run'.tip = None /\ run'.mid = None

LEMMA RunGoes ==
    ASSUME RunOK, [Next]_vars
    PROVE  run' = run \/ Onward \/ Starts \/ PinsBase \/ MakesMerge \/ PinsBranch \/ HasLanded
<1> USE DEF main, worktree, origin, store, history, At, GateEnds, Quiet, Throws, Rejects,
     Rejected
<1>a. run' = Idle => Starts
  BY DEF Starts, Idle
<1>b. ASSUME NEW to, Goto(to)
      PROVE  /\ run'.pc = to /\ run'.base = run.base /\ run'.tip = run.tip
             /\ run'.mid = run.mid /\ run'.pin = run.pin /\ run'.follow = run.follow
  BY <1>b DEF Goto, RunOK
<1>1. CASE Operator \/ Agent \/ UNCHANGED vars
  BY <1>1 DEF Operator, OperatorCommits, OperatorSwitches, OpensByHand, Agent,
     AgentEdits, AgentCommits, AgentSwitches, AgentPushes, SessionDone, vars
<1>2. CASE planMerge
  BY <1>2 DEF planMerge, Idle, Starts
<1>3. CASE Clean
  <2>1. run' = Idle \/ (run.pc = "clean" /\ Goto("pin"))
    BY <1>3 DEF Clean
  <2> QED BY <2>1, <1>a, <1>b DEF Onward
<1>15. CASE SwapBranch
  <2>1. \/ run' = Idle
        \/ /\ run.pc = "swap" /\ branch = run.tip /\ branch' = run.mid
           /\ Goto(IF run.follow THEN "follow" ELSE "settle")
           /\ UNCHANGED <<log, target, tree, away, alive>>
    BY <1>15 DEF SwapBranch
  <2> QED BY <2>1, <1>a, <1>b DEF Onward, OnBase, Fresh, Swapped
<1>16. CASE FollowMerge \/ UndoMerge
  <2>1. \/ run' = Idle
        \/ run.pc = "follow" /\ Goto("undo")
        \/ /\ run.pc = "follow" /\ Goto("settle")
           /\ tree' = readTree(tree, run.tip, run.mid)
           /\ UNCHANGED <<log, target, branch, away, alive>>
    BY <1>16 DEF FollowMerge, UndoMerge
  <2> QED BY <2>1, <1>a, <1>b DEF Onward, Followed
<1>14. CASE Rebase
  <2>1. run' = Idle \/ (run.pc = "rebase" /\ Goto("settle"))
    BY <1>14 DEF Rebase
  <2> QED BY <2>1, <1>a, <1>b DEF Onward, OnBase, Fresh
<1>c. /\ {"pc", "base", "tip", "mid", "pin", "follow"} \subseteq DOMAIN run
      /\ run = [f \in DOMAIN run |-> run[f]]
  BY DEF RunOK
<1>4. CASE PinTarget
  <2>1. \/ run' = Idle
        \/ /\ run.pc = "pin" /\ UNCHANGED <<log, main, worktree>>
           /\ \E to \in {"settle", "mergeTree", "rebase"} :
                 run' = [run EXCEPT !.base = target, !.pc = to]
    BY <1>4 DEF PinTarget
  <2> QED BY <2>1, <1>4, <1>a DEF RunOK, PinsBase, OnBase, Fresh, Moving
<1>5. CASE MergeTree
  <2>1. \/ run' = Idle
        \/ run' = [run EXCEPT !.pc = "swap", !.tip = branch, !.mid = New, !.follow = ~away]
    BY <1>5 DEF MergeTree
  <2>2. CASE run' = Idle
    BY <2>2, <1>a
  <2>3. CASE run' # Idle
    <3>1. /\ run.pc = "mergeTree"
          /\ commitTree({branch, run.base}, threeWay(branch, run.base))
          /\ UNCHANGED <<main, worktree, origin, torn>>
      BY <1>5, <2>3 DEF MergeTree
    <3> QED BY ONLY <2>1, <2>3, <3>1, <1>5, <1>c DEF MakesMerge
  <2> QED BY <2>2, <2>3
<1>6. CASE Settle
  <2>1. \/ run' = Idle
        \/ run' = [run EXCEPT !.pc = "measure", !.pin = branch, !.tip = None,
                              !.mid = None, !.follow = FALSE]
    BY <1>6 DEF Settle
  <2>2. run.pc = "settle"
    BY <1>6 DEF Settle
  <2>3. run' # Idle => run.base \in Past(branch) /\ UNCHANGED <<log, main, worktree>>
    BY <1>6 DEF Settle
  <2> QED BY ONLY <2>1, <2>2, <2>3, <1>a, <1>c DEF PinsBranch
<1>7. CASE Measure
  <2>1. \/ run' = Idle
        \/ \E flag \in BOOLEAN :
              run' = [run EXCEPT !.pc = "file", !.flag = flag,
                                 !.passed = {<<run.pin, run.base>>}]
    BY <1>7 DEF Measure
  <2>2. run.pc = "measure"
    BY <1>7 DEF Measure
  <2> QED BY ONLY <2>1, <2>2, <1>a, <1>c DEF Onward, Pinned, InPlace
<1>8. CASE fileAcceptedDebt \/ PushBranch \/ TrackPush \/ OpenPullRequest
  <2>1. \/ run' = Idle
        \/ /\ run.pc \in {"file", "push", "track", "open"}
           /\ \E to \in {"push", "recheck", "track", "open", "verify"} : Goto(to)
    BY <1>8 DEF fileAcceptedDebt, PushBranch, TrackPush, OpenPullRequest
  <2> QED BY <2>1, <1>a, <1>b DEF Onward, Pinned, InPlace
<1>9. CASE Recheck
  BY <1>9, <1>a, <1>b DEF Recheck, Onward
<1>10. CASE MoveCheckout \/ RestoreCheckout
  <2>1. \/ run' = Idle
        \/ /\ run.pc = "checkout" /\ Goto("cas")
           /\ index' = readTree(index, run.base, run.pin)
    BY <1>10 DEF MoveCheckout, RestoreCheckout
  <2> QED BY <2>1, <1>a, <1>b DEF Onward
<1>11. CASE MoveTarget \/ VerifyHead
  <2>1. \/ run' = Idle \/ (run.pc = "cas" /\ Goto("restore"))
        \/ /\ Lands(run.pin) /\ UNCHANGED <<log, head, index, worktree, remote, torn>>
           /\ \/ run.pc = "cas" /\ target = run.base /\ target' = run.pin
              \/ run.pc = "verify" /\ remote = run.pin /\ UNCHANGED target
    BY <1>11 DEF MoveTarget, VerifyHead
  <2>2. Lands(run.pin) => /\ run'.pc = "record" /\ run'.pin = run.pin
                          /\ run'.base = None /\ run'.tip = None /\ run'.mid = None
    BY DEF Lands, Idle
  <2> QED BY <2>1, <2>2, <1>11, <1>a, <1>b DEF Onward, InPlace, HasLanded
<1>12. CASE Merged
  <2>1. run' = Idle \/ (run.pc \in After /\ \E to \in After : Goto(to))
    BY <1>12 DEF Merged, RecordMerged, KillWindow, RemoveWorktree, RecordMerge, Ratchet, After
  <2> QED BY <2>1, <1>a, <1>b DEF Onward
<1>13. CASE Crash
  BY <1>13, <1>a DEF Crash
<1> QED BY <1>1, <1>2, <1>3, <1>4, <1>5, <1>6, <1>7, <1>8, <1>9, <1>10, <1>11, <1>12, <1>13,
      <1>14, <1>15, <1>16
   DEF Next, Gate, FreshBase, FastForward, PullRequest

\* What moves them is one of these steps.
LEMMA FilesMove ==
    ASSUME RunOK, [Next]_vars
    PROVE  \/ Still \/ OperatorCommits \/ AgentEdits \/ AgentCommits \/ AgentSwitches
           \/ Rebased \/ MakesMerge \/ Swapped \/ Followed \/ Undone \/ HasLanded \/ Removed
<1> USE DEF main, worktree, origin, store, history, At, GateEnds, Quiet, Throws, Rejects,
     Rejected
<1>b. ASSUME NEW to, Goto(to) PROVE run'.pc = to
  BY <1>b DEF Goto, RunOK
<1>1. CASE OperatorSwitches \/ OpensByHand \/ AgentPushes \/ SessionDone \/ planMerge \/ Crash
           \/ UNCHANGED vars
  BY <1>1 DEF OperatorSwitches, OpensByHand, AgentPushes, SessionDone, planMerge, Crash,
     vars, Still
<1>2. CASE Clean \/ PinTarget \/ Settle \/ Measure \/ fileAcceptedDebt
  BY <1>2 DEF Clean, PinTarget, Settle, Measure, fileAcceptedDebt, Still
<1>3. CASE Recheck \/ MoveCheckout \/ RestoreCheckout \/ PushBranch \/ TrackPush \/ OpenPullRequest
  BY <1>3 DEF Recheck, MoveCheckout, RestoreCheckout, PushBranch, TrackPush, OpenPullRequest, Still
<1>4. CASE RecordMerged \/ KillWindow \/ RecordMerge \/ Ratchet
  BY <1>4 DEF RecordMerged, KillWindow, RecordMerge, Ratchet, Still
<1>5. CASE RemoveWorktree
  BY <1>5, <1>b DEF RemoveWorktree, Still, Removed
<1>6. CASE MoveTarget \/ VerifyHead
  <2>1. \/ Still
        \/ /\ Lands(run.pin) /\ UNCHANGED <<log, head, index, worktree, remote, torn>>
           /\ \/ run.pc = "cas" /\ target = run.base /\ target' = run.pin
              \/ run.pc = "verify" /\ remote = run.pin /\ UNCHANGED target
    BY <1>6 DEF MoveTarget, VerifyHead, Still
  <2>2. Lands(run.pin) => /\ run'.pc = "record" /\ run'.pin = run.pin
                          /\ run'.base = None /\ run'.tip = None /\ run'.mid = None
    BY DEF Lands, Idle
  <2> QED BY <2>1, <2>2 DEF HasLanded
<1>7. CASE Rebase
  <2>1. CASE Rejects \/ (away /\ Goto("settle") /\ Quiet)
    BY <2>1 DEF Still
  <2>2. CASE ~Rejects /\ ~(away /\ Goto("settle") /\ Quiet)
    BY <1>7, <2>2, <1>b DEF Rebase, Rebased
  <2> QED BY <2>1, <2>2
<1>8. CASE MergeTree
  <2>1. CASE Rejects \/ Throws
    BY <2>1 DEF Still
  <2>2. CASE ~Rejects /\ ~Throws
    <3>1. run' # Idle /\ run' # run
      <4>1. run' = [run EXCEPT !.pc = "swap", !.tip = branch, !.mid = New, !.follow = ~away]
        BY <1>8, <2>2 DEF MergeTree
      <4>2. run.pc = "mergeTree"
        BY <1>8 DEF MergeTree
      <4> QED BY <4>1, <4>2 DEF RunOK, Idle
    <3>2. run'.pc = "swap"
      BY <1>8, <2>2 DEF MergeTree, RunOK
    <3> QED BY <1>8, <3>1, <3>2, RunGoes DEF MergeTree, Onward, Swapped, Followed, Starts, PinsBase, PinsBranch,
            HasLanded, OnBase, Moving, Pinned, InPlace, After
  <2> QED BY <2>1, <2>2
<1>9. CASE SwapBranch
  <2>1. CASE Rejects
    BY <2>1 DEF Still
  <2>2. CASE ~Rejects
    BY <1>9, <2>2, <1>b DEF SwapBranch, Swapped
  <2> QED BY <2>1, <2>2
<1>10. CASE FollowMerge
  BY <1>10, <1>b DEF FollowMerge, Still, Followed
<1>11. CASE UndoMerge
  BY <1>11 DEF UndoMerge, Idle, Still, Undone
<1> QED BY <1>1, <1>2, <1>3, <1>4, <1>5, <1>6, <1>7, <1>8, <1>9, <1>10, <1>11
   DEF Next, Operator, Agent, Gate, FreshBase, FastForward, PullRequest, Merged

\* The main checkout moves with the operator and the gate alone, and origin's
\* branch with the session and the gate.
LEMMA MainMoves ==
    ASSUME RunOK, [Next]_vars
    PROVE  \/ UNCHANGED <<head, index>>
           \/ OperatorCommits
           \/ OperatorSwitches
           \/ /\ run.pc = "checkout" /\ run'.pc = "cas" /\ UNCHANGED <<log, target, head>>
              /\ index' = readTree(index, run.base, run.pin)
           \/ /\ run.pc = "restore" /\ run'.pc = "idle" /\ UNCHANGED <<log, target, head>>
              /\ index' = readTree(index, run.pin, run.base)
<1> USE DEF main, worktree, origin, store, history, At, GateEnds, Quiet, Throws, Rejects
<1>b. ASSUME NEW to, Goto(to) PROVE run'.pc = to
  BY <1>b DEF Goto, RunOK
<1>1. CASE Agent \/ OpensByHand \/ planMerge \/ Crash \/ UNCHANGED vars
  BY <1>1 DEF Agent, AgentEdits, AgentCommits, AgentSwitches, AgentPushes, SessionDone,
     OpensByHand, planMerge, Crash, vars
<1>2. CASE Clean \/ PinTarget \/ Rebase \/ MergeTree \/ SwapBranch
  BY <1>2 DEF Clean, PinTarget, Rebase, MergeTree, SwapBranch
<1>3. CASE FollowMerge \/ UndoMerge \/ Settle \/ Measure \/ fileAcceptedDebt
  BY <1>3 DEF FollowMerge, UndoMerge, Settle, Measure, fileAcceptedDebt
<1>4. CASE Recheck \/ MoveTarget \/ PullRequest \/ Merged
  BY <1>4 DEF Recheck, MoveTarget, PullRequest, PushBranch, TrackPush, OpenPullRequest,
     VerifyHead, Merged, RecordMerged, KillWindow, RemoveWorktree, RecordMerge, Ratchet
<1>5. CASE MoveCheckout
  BY <1>5, <1>b DEF MoveCheckout
<1>6. CASE RestoreCheckout
  BY <1>6 DEF RestoreCheckout, Idle
<1> QED BY <1>1, <1>2, <1>3, <1>4, <1>5, <1>6 DEF Next, Operator, Gate, FreshBase, FastForward

LEMMA OriginMoves ==
    ASSUME RunOK, [Next]_vars
    PROVE  \/ remote' = remote
           \/ /\ branch # None /\ remote' = branch
              /\ UNCHANGED <<log, target, branch, run>>
           \/ /\ run.pc = "push" /\ remote' = run.pin /\ UNCHANGED <<log, target, branch>>
              /\ run'.pc = "track" /\ run'.pin = run.pin
<1> USE DEF main, worktree, origin, store, history, At, GateEnds, Quiet, Throws, Rejects
<1>1. CASE Operator \/ Agent \/ planMerge \/ Crash \/ UNCHANGED vars
  BY <1>1 DEF Operator, OperatorCommits, OperatorSwitches, OpensByHand, Agent, AgentEdits,
     AgentCommits, AgentSwitches, AgentPushes, SessionDone, Works, planMerge, Crash, vars
<1>2. CASE Clean \/ PinTarget \/ Rebase \/ MergeTree \/ SwapBranch
  BY <1>2 DEF Clean, PinTarget, Rebase, MergeTree, SwapBranch
<1>3. CASE FollowMerge \/ UndoMerge \/ Settle \/ Measure \/ fileAcceptedDebt
  BY <1>3 DEF FollowMerge, UndoMerge, Settle, Measure, fileAcceptedDebt
<1>4. CASE FastForward \/ TrackPush \/ OpenPullRequest \/ VerifyHead \/ Merged
  BY <1>4 DEF FastForward, Recheck, MoveCheckout, MoveTarget, RestoreCheckout, TrackPush,
     OpenPullRequest, VerifyHead, Merged, RecordMerged, KillWindow, RemoveWorktree,
     RecordMerge, Ratchet
<1>5. CASE PushBranch
  <2>1. CASE Throws
    BY <2>1
  <2>2. CASE ~Throws
    BY <1>5, <2>2 DEF PushBranch, Goto, RunOK
  <2> QED BY <2>1, <2>2
<1> QED BY <1>1, <1>2, <1>3, <1>4, <1>5 DEF Next, Gate, FreshBase, PullRequest

\* What was caught apart is so for good; a run that ends between a ref and its
\* checkout, and whoever moves one of the two then, catches them.
LEMMA TornMoves ==
    ASSUME RunOK, torn \in BOOLEAN, [Next]_vars, ~torn'
    PROVE  /\ ~torn
           /\ OperatorCommits => ~MainApart
           /\ OperatorSwitches => run.pc \notin InPlace
           /\ AgentCommits => ~WorktreeApart
           /\ AgentSwitches => run.pc # "swap" /\ ~WorktreeApart
           /\ MainApart => \/ run' = run \/ Onward \/ HasLanded
                           \/ run'.pc = "idle" /\ index' = readTree(index, run.pin, run.base)
           /\ WorktreeApart => \/ run' = run \/ Onward \/ Undone
                               \/ branch # run.mid
<1> USE DEF main, worktree, origin, store, history, At, GateEnds, Quiet, Throws, Rejects
<1>1. ~torn
  <2>1. CASE Operator \/ Agent \/ planMerge \/ Crash \/ UNCHANGED vars
    BY <2>1 DEF Operator, OperatorCommits, OperatorSwitches, OpensByHand, Agent, AgentEdits,
       AgentCommits, AgentSwitches, AgentPushes, SessionDone, planMerge, Crash, vars
  <2>2. CASE Clean \/ PinTarget \/ Rebase \/ MergeTree \/ SwapBranch
    BY <2>2 DEF Clean, PinTarget, Rebase, MergeTree, SwapBranch
  <2>3. CASE FollowMerge \/ UndoMerge \/ Settle \/ Measure \/ fileAcceptedDebt
    BY <2>3 DEF FollowMerge, UndoMerge, Settle, Measure, fileAcceptedDebt
  <2>4. CASE FastForward \/ PullRequest \/ Merged
    BY <2>4 DEF FastForward, Recheck, MoveCheckout, MoveTarget, RestoreCheckout, PullRequest,
       PushBranch, TrackPush, OpenPullRequest, VerifyHead, Merged, RecordMerged, KillWindow,
       RemoveWorktree, RecordMerge, Ratchet
  <2> QED BY <2>1, <2>2, <2>3, <2>4 DEF Next, Gate, FreshBase
<1>2. OperatorCommits => ~MainApart
  BY DEF OperatorCommits
<1>3. OperatorSwitches => run.pc \notin InPlace
  BY DEF OperatorSwitches, InPlace
<1>4. AgentCommits => ~WorktreeApart
  BY DEF AgentCommits
<1>5. AgentSwitches => run.pc # "swap" /\ ~WorktreeApart
  BY DEF AgentSwitches
<1>6. ASSUME MainApart \/ WorktreeApart PROVE ~Crash
  BY <1>6 DEF Crash
<1>7. ASSUME MainApart, ~ (run' = run \/ Onward \/ HasLanded)
      PROVE  run'.pc = "idle" /\ index' = readTree(index, run.pin, run.base)
  <2>1. Starts
    BY <1>7, RunGoes DEF PinsBase, PinTarget, MakesMerge, PinsBranch, MainApart
  <2>2. run.pc \in {"cas", "restore"} /\ run' # run
    BY <1>7 DEF MainApart
  <2>3. MoveTarget \/ RestoreCheckout
    BY <1>6, <1>7, <2>2 DEF Next, Operator, OperatorCommits, OperatorSwitches, OpensByHand,
       Agent, AgentEdits, AgentCommits, AgentSwitches, AgentPushes, SessionDone, Gate,
       planMerge, FreshBase, Clean, PinTarget, Rebase, MergeTree, SwapBranch, FollowMerge,
       UndoMerge, Settle, Measure, fileAcceptedDebt, FastForward, Recheck, MoveCheckout,
       PullRequest, PushBranch, TrackPush, OpenPullRequest, VerifyHead, Merged,
       RecordMerged, KillWindow, RemoveWorktree, RecordMerge, Ratchet, vars
  <2>4. ~MoveTarget
    <3>1. Lands(run.pin) \/ Goto("restore") => run'.pc \in {"record", "restore"}
      BY DEF Lands, Goto, Idle, RunOK
    <3> QED BY <2>1, <3>1 DEF MoveTarget, Starts
  <2> QED BY <2>3, <2>4 DEF RestoreCheckout, Idle
<1>8. ASSUME WorktreeApart, ~ (run' = run \/ Onward \/ Undone)
      PROVE  branch # run.mid
  <2>1. Starts
    BY <1>8, RunGoes DEF PinsBase, PinTarget, MakesMerge, PinsBranch, HasLanded, WorktreeApart
  <2>2. run.pc \in {"follow", "undo"} /\ run' # run
    BY <1>8 DEF WorktreeApart
  <2>3. FollowMerge \/ UndoMerge
    BY <1>6, <1>8, <2>2 DEF Next, Operator, OperatorCommits, OperatorSwitches, OpensByHand,
       Agent, AgentEdits, AgentCommits, AgentSwitches, AgentPushes, SessionDone, Gate,
       planMerge, FreshBase, Clean, PinTarget, Rebase, MergeTree, SwapBranch,
       Settle, Measure, fileAcceptedDebt, FastForward, Recheck, MoveCheckout, MoveTarget,
       RestoreCheckout, PullRequest, PushBranch, TrackPush, OpenPullRequest, VerifyHead,
       Merged, RecordMerged, KillWindow, RemoveWorktree, RecordMerge, Ratchet, vars
  <2>4. ~FollowMerge
    <3>1. Goto("undo") \/ Goto("settle") => run'.pc \in {"undo", "settle"}
      BY DEF Goto, RunOK
    <3> QED BY <2>1, <3>1 DEF FollowMerge, Starts
  <2> QED BY <1>8, <2>3, <2>4 DEF UndoMerge, Rejected, Idle, Undone
<1> QED BY <1>1, <1>2, <1>3, <1>4, <1>5, <1>7, <1>8

-----------------------------------------------------------------------------
\* What the types say of the commits in use.
LEMMA Refs ==
    ASSUME Inv
    PROVE  /\ LogOK /\ RunOK /\ target \in Commits
           /\ branch \in Commits \cup {None} /\ remote \in Commits \cup {None}
           /\ run.base \in Commits \cup {None} /\ run.pin \in Commits \cup {None}
           /\ run.tip \in Commits \cup {None} /\ run.mid \in Commits \cup {None}
           /\ None \notin Commits
           /\ \A c \in Commits : c \in Past(c) /\ Past(c) \subseteq Commits
           /\ run.pc \in OnBase => run.base \in Commits /\ branch \in Commits
           /\ run.pc \in Moving => run.tip \in Commits /\ run.mid \in Commits /\ run.pc \in OnBase
           /\ run.pc \in Pinned => run.pin \in Commits /\ run.base \in Commits
                                 /\ run.base \in Past(run.pin)
           /\ run.pc \in After => run.pin \in Commits
<1>1. LogOK /\ RunOK /\ target \in Commits /\ branch \in Commits \cup {None}
      /\ remote \in Commits \cup {None}
  BY DEF Inv, TypeOK
<1>2. /\ run.base \in Commits \cup {None} /\ run.pin \in Commits \cup {None}
      /\ run.tip \in Commits \cup {None} /\ run.mid \in Commits \cup {None}
  BY <1>1 DEF RunOK
<1>3. None \notin Commits
  BY DEF None, Commits
<1>4. \A c \in Commits : c \in Past(c) /\ Past(c) \subseteq Commits
  BY <1>1 DEF LogOK
<1>5. run.pc \in OnBase => run.base \in Commits /\ branch \in Commits
  <2>1. run.pc \in OnBase => run.base # None
    BY <1>1 DEF RunOK, OnBase
  <2>2. run.pc \in OnBase => branch # None
    BY DEF Inv, Stage, OnBase, Fresh
  <2> QED BY <1>1, <1>2, <2>1, <2>2
<1>6. run.pc \in Moving => run.tip \in Commits /\ run.mid \in Commits /\ run.pc \in OnBase
  BY <1>1, <1>2 DEF RunOK, Moving, OnBase, Fresh
<1>7. run.pc \in Pinned => run.pin \in Commits /\ run.base \in Past(run.pin)
  BY <1>1, <1>2 DEF RunOK
<1>8. run.pc \in After => run.pin \in Commits
  BY <1>1, <1>2 DEF RunOK
<1> QED BY <1>1, <1>2, <1>3, <1>4, <1>5, <1>6, <1>7, <1>8

\* What the target had it has had for good, and so it is with what is in it.
LEMMA KeptGrows ==
    ASSUME Inv, [Next]_vars
    PROVE  /\ Kept \subseteq Kept'
           /\ \A c \in Past(target) : Held(c) \subseteq Kept
           /\ \A c \in Past(target) : c \in Past(target)'
           /\ Has(target)' \subseteq Kept'
<1>1. TypeOK' /\ LogOK' /\ target' \in Commits'
  BY TypeStep DEF Inv, TypeOK
<1>2. Past(target) \subseteq Past(target)'
  BY TargetGrows DEF Inv
<1>3. \A c \in Past(target) : Has(c)' = Has(c)
  BY Immutable, Refs DEF Inv
<1>4. Kept \subseteq Kept'
  <2> SUFFICES ASSUME NEW x \in Kept PROVE x \in Kept'
    OBVIOUS
  <2>1. PICK c \in Past(target) : x \in Has(c)
    BY DEF Kept, Held
  <2>2. c \in Past(target)' /\ x \in Has(c)'
    BY <1>2, <1>3, <2>1
  <2> QED BY <2>2 DEF Kept, Held
<1>5. \A c \in Past(target) : Held(c) \subseteq Kept
  <2>1. \A c \in Past(target) : Past(c) \subseteq Past(target)
    BY Refs DEF Inv, Closed
  <2> QED BY <2>1 DEF Held, Kept
<1>6. Has(target)' \subseteq Kept'
  <2>1. target' \in Past(target)'
    BY <1>1 DEF LogOK, Past
  <2> QED BY <2>1 DEF Kept, Held, Has
<1> QED BY <1>2, <1>4, <1>5, <1>6

\* The commits after a step, with their trees.
LEMMA TreesAfter ==
    ASSUME Inv, [Next]_vars
    PROVE  \A c \in Commits : c \in Commits' /\ log'[c].has = log[c].has /\ log'[c].past = log[c].past
BY Immutable DEF Inv, Has, Past

LEMMA NewTree ==
    ASSUME LogOK, NEW heads \in SUBSET Commits, NEW files \in SUBSET Changes,
           commitTree(heads, files)
    PROVE  /\ Commits' = Commits \cup {New} /\ New \notin Commits /\ New # None
           /\ log'[New].has = files
           /\ log'[New].past = {New} \cup UNION {Past(c) : c \in heads}
<1>1. PICK n : n = New
  OBVIOUS
<1>2. Has(n)' = files
  BY <1>1, CommitTrees
<1>3. /\ Commits' = Commits \cup {n} /\ n \notin Commits /\ n # None
      /\ Past(n)' = {n} \cup UNION {Past(c) : c \in heads}
  BY <1>1, CommitGrows
<1> QED BY <1>1, <1>2, <1>3 DEF Has, Past

\* A merge of the branch and a base keeps all of it that is not kept elsewhere, and
\* brings nothing but the base's.
LEMMA MergeCarriesOn ==
    ASSUME Inv, Rooted, Grounded, run.pc \in OnBase
    PROVE  /\ threeWay(branch, run.base) \subseteq Has(branch) \cup Has(run.base)
           /\ Has(run.base) \subseteq Kept
           /\ Has(branch) \subseteq threeWay(branch, run.base) \cup Kept
           /\ threeWay(branch, run.base) \in SUBSET Changes
<1>1. /\ LogOK /\ branch \in Commits /\ run.base \in Commits /\ run.base \in Past(target)
  BY Refs DEF Grounded
<1>2. Held(run.base) \subseteq Kept
  <2>1. Past(run.base) \subseteq Past(target)
    BY <1>1, Refs DEF Inv, Closed
  <2> QED BY <2>1 DEF Held, Kept
<1>3. Has(run.base) \subseteq Held(run.base)
  BY <1>1, Refs DEF Held
<1> QED BY <1>1, <1>2, <1>3, MergeKeeps, TreesAreChanges

-----------------------------------------------------------------------------
LEMMA RootedStep ==
    ASSUME Inv, Rooted, [Next]_vars
    PROVE  Rooted'
<1>1. Root \in Commits
  BY BoundAssumption DEF Inv, TypeOK, LogOK, Commits, Root
<1>2. Has(Root)' = {}
  BY <1>1, TreesAfter DEF Rooted, Has
<1>3. \A c \in Commits : Root \in Past(c)'
  BY TreesAfter DEF Rooted, Past
<1>4. \A c \in Commits' : Root \in Past(c)'
  <2>1. CASE UNCHANGED log
    BY <1>3, <2>1 DEF Commits
  <2>2. ASSUME NEW heads \in SUBSET Commits, NEW files \in SUBSET Changes,
               heads # {}, commitTree(heads, files)
        PROVE  \A c \in Commits' : Root \in Past(c)'
    <3>1. PICK h \in heads : Root \in Past(h)
      BY <2>2 DEF Rooted
    <3>2. Commits' = Commits \cup {New} /\ Root \in log'[New].past
      BY <2>2, <3>1, NewTree DEF Inv, TypeOK
    <3> QED BY <1>3, <3>2 DEF Past
  <2> QED BY <2>1, <2>2, LogStep DEF Inv
<1> QED BY <1>2, <1>4 DEF Rooted

LEMMA GroundedStep ==
    ASSUME Inv, Grounded, [Next]_vars
    PROVE  Grounded'
<1>1. run'.base # None => run'.base \in Past(target)'
  <2>1. run'.base \in {run.base, None, target}
    BY RunGoes, Refs DEF Onward, Starts, PinsBase, MakesMerge, PinsBranch, HasLanded
  <2>2. target \in Past(target)
    BY Refs
  <2> QED BY <2>1, <2>2, KeptGrows DEF Grounded
<1>2. alive' => branch' # None
  <2>1. New # None
    BY DEF Inv, TypeOK, LogOK, New, None
  <2>2. CASE Still \/ OperatorCommits \/ AgentEdits \/ AgentCommits \/ AgentSwitches
    BY <2>1, <2>2 DEF Grounded, Still, OperatorCommits, AgentEdits, AgentCommits,
       AgentSwitches, worktree
  <2>3. CASE Rebased \/ MakesMerge
    BY <2>1, <2>3, Refs DEF Grounded, Rebased, MakesMerge, worktree, OnBase, Fresh
  <2>4. CASE Swapped \/ Followed \/ Undone
    BY <2>4, Refs DEF Grounded, Swapped, Followed, Undone, Moving
  <2>5. CASE HasLanded
    BY <2>5 DEF Grounded, HasLanded, worktree
  <2>6. CASE Removed
    BY <2>6 DEF Inv, Told, Removed
  <2> QED BY <2>2, <2>3, <2>4, <2>5, <2>6, FilesMove, Refs
<1> QED BY <1>1, <1>2 DEF Grounded

\* What the session committed, as the branch moves.
LEMMA BranchCarriesStep ==
    ASSUME Inv, Rooted, Grounded, Carried, [Next]_vars
    PROVE  BranchCarries'
<1> SUFFICES ASSUME branch' # None, NEW c \in Commits'
             PROVE  log'[c].has \cap Mine \subseteq log'[branch'].has \cup Kept'
  BY DEF BranchCarries, Has
<1>1. /\ Kept \subseteq Kept' /\ LogOK /\ target \in Commits
      /\ branch \in Commits \cup {None} /\ None \notin Commits
  BY Refs, KeptGrows
<1>2. branch # None => \A d \in Commits : Has(d) \cap Mine \subseteq Has(branch) \cup Kept
  BY DEF Carried, BranchCarries
<1>3. \A d \in Commits : log'[d].has = Has(d)
  BY TreesAfter DEF Has
<1>4. CASE Still \/ AgentEdits \/ AgentSwitches \/ Followed \/ HasLanded
  <2>1. UNCHANGED <<log, branch>>
    BY <1>4 DEF Still, AgentEdits, AgentSwitches, Followed, HasLanded, worktree
  <2>2. c \in Commits
    BY <2>1 DEF Commits
  <2> QED BY <1>1, <1>2, <1>3, <2>1, <2>2
<1>5. CASE OperatorCommits
  <2>1. PICK x \in Theirs \ index : commitTree({target}, index \cup {x})
    BY <1>5 DEF OperatorCommits
  <2>2. UNCHANGED branch /\ target' = New
    BY <1>5 DEF OperatorCommits, worktree
  <2>3. Commits' = Commits \cup {New}
    <3>1. {target} \in SUBSET Commits /\ index \cup {x} \in SUBSET Changes
      BY <1>1, <2>1 DEF Inv, TypeOK, Changes
    <3> QED BY <1>1, <2>1, <3>1, NewTree
  <2>4. CASE c = New
    BY <2>2, <2>4, KeptGrows DEF Has
  <2>5. CASE c \in Commits
    BY <1>1, <1>2, <1>3, <2>2, <2>5
  <2> QED BY <2>3, <2>4, <2>5
<1>6. CASE AgentCommits
  <2>1. branch # None /\ InWorktree /\ commitTree({branch}, tree) /\ branch' = New
    BY <1>6 DEF AgentCommits, Works, InWorktree
  <2>2. Commits' = Commits \cup {New} /\ log'[New].has = tree
    <3>1. {branch} \in SUBSET Commits /\ tree \in SUBSET Changes
      BY <1>1, <2>1 DEF Inv, TypeOK
    <3> QED BY <1>1, <2>1, <3>1, NewTree
  <2>3. Has(branch) \cap Mine \subseteq tree \cup Kept
    BY <2>1 DEF Carried, TreeCarries
  <2> QED BY <1>1, <1>2, <1>3, <2>1, <2>2, <2>3
<1>7. CASE Rebased
  <2>1. run.pc \in OnBase
    BY <1>7 DEF Rebased, OnBase, Fresh
  <2>2. branch \in Commits /\ run.base \in Commits
    BY <2>1, Refs
  <2>3. /\ Has(branch) \subseteq tree' \cup Kept
        /\ tree' \in SUBSET Changes
    BY <1>7, <2>1, MergeCarriesOn DEF Rebased
  <2>4. CASE tree' = Has(run.base) /\ branch' = run.base /\ log' = log
    BY <1>1, <1>2, <1>3, <2>2, <2>3, <2>4 DEF Commits
  <2>5. CASE branch' = New /\ commitTree({run.base}, tree')
    <3>1. PICK files : files = tree'
      OBVIOUS
    <3>2. Commits' = Commits \cup {New} /\ log'[New].has = files
      BY <1>1, <2>2, <2>3, <2>5, <3>1, NewTree
    <3> QED BY <1>1, <1>2, <1>3, <2>2, <2>3, <2>5, <3>1, <3>2
  <2> QED BY <1>7, <2>4, <2>5 DEF Rebased
<1>8. CASE MakesMerge
  <2>1. run.pc \in OnBase
    BY <1>8 DEF MakesMerge, OnBase, Fresh
  <2>2. branch \in Commits /\ run.base \in Commits /\ branch' = branch
    BY <1>8, <2>1, Refs DEF MakesMerge, worktree
  <2>3. /\ threeWay(branch, run.base) \subseteq Has(branch) \cup Kept
        /\ threeWay(branch, run.base) \in SUBSET Changes
    BY <2>1, MergeCarriesOn
  <2>4. Commits' = Commits \cup {New} /\ log'[New].has = threeWay(branch, run.base)
    BY <1>1, <1>8, <2>2, <2>3, NewTree DEF MakesMerge
  <2> QED BY <1>1, <1>2, <1>3, <2>2, <2>3, <2>4
<1>9. CASE Swapped \/ Undone
  <2>1. run.pc \in Moving /\ UNCHANGED log
    BY <1>9 DEF Swapped, Undone, Moving
  <2>2. run.tip \in Commits /\ run.mid \in Commits
    BY <2>1, Refs
  <2>3. /\ Has(run.tip) \cap Mine \subseteq Has(run.mid) \cup Kept
        /\ Has(run.mid) \cap Mine \subseteq Has(run.tip) \cup Kept
    BY <2>1 DEF Carried, MergeCarries
  <2>4. \/ branch = run.tip /\ branch' = run.mid
        \/ branch = run.mid /\ branch' = run.tip
    BY <1>9 DEF Swapped, Undone
  <2>5. c \in Commits
    BY <2>1 DEF Commits
  <2> QED BY <1>1, <1>2, <1>3, <2>2, <2>3, <2>4, <2>5
<1>10. ~Removed
  BY DEF Removed
<1> QED BY <1>4, <1>5, <1>6, <1>7, <1>8, <1>9, <1>10, FilesMove, Refs

LEMMA OriginCarriesStep ==
    ASSUME Inv, Rooted, Grounded, Carried, [Next]_vars
    PROVE  OriginCarries'
<1> SUFFICES ASSUME branch' = None, NEW c \in Commits'
             PROVE  log'[c].has \cap Mine \subseteq
                        Kept' \cup (IF remote' = None THEN {} ELSE Held(remote)')
  BY DEF OriginCarries, Has
<1>1. /\ Kept \subseteq Kept' /\ LogOK /\ target \in Commits
      /\ branch \in Commits \cup {None} /\ remote \in Commits \cup {None} /\ None \notin Commits
      /\ \A d \in Commits : log'[d].has = Has(d) /\ Held(d)' = Held(d)
  BY Refs, KeptGrows, TreesAfter, Immutable DEF Inv, Has
<1>2. CASE branch = None
  <2>1. remote' = remote
    <3>1. run.pc # "push"
      BY <1>2 DEF Inv, Stage, Pinned
    <3> QED BY <1>2, <3>1, OriginMoves, Refs
  <2>2. ~ (run.pc \in OnBase)
    BY <1>1, <1>2, Refs
  <2>3. OperatorCommits \/ UNCHANGED log
    BY <1>2, <2>2, FilesMove, Refs DEF Still, AgentEdits, AgentCommits, AgentSwitches, Works,
       Rebased, MakesMerge, Swapped, Followed, Undone, HasLanded, Removed, OnBase, Fresh
  <2>4. \A d \in Commits : Has(d) \cap Mine \subseteq
            Kept \cup (IF remote = None THEN {} ELSE Held(remote))
    BY <1>2 DEF Carried, OriginCarries
  <2>5. c \in Commits \/ log'[c].has \subseteq Kept'
    <3>1. CASE UNCHANGED log
      BY <3>1 DEF Commits
    <3>2. CASE OperatorCommits
      <4>1. PICK x \in Theirs \ index : commitTree({target}, index \cup {x})
        BY <3>2 DEF OperatorCommits
      <4>2. Commits' = Commits \cup {New}
        BY <1>1, <4>1, NewTree DEF Inv, TypeOK, Changes
      <4> QED BY <3>2, <4>2, KeptGrows DEF OperatorCommits, Has
    <3> QED BY <2>3, <3>1, <3>2
  <2> QED BY <1>1, <2>1, <2>4, <2>5
<1>3. CASE branch # None
  <2>1. New # None
    BY DEF Inv, TypeOK, LogOK, New, None
  <2>2. Removed
    BY <1>1, <1>3, <2>1, FilesMove, Refs DEF Still, OperatorCommits, AgentEdits, AgentCommits,
       AgentSwitches, Rebased, MakesMerge, Swapped, Followed, Undone, HasLanded, worktree,
       Moving, OnBase, Fresh
  <2>3. /\ branch = run.pin /\ remote' = remote /\ run.pc \in After /\ UNCHANGED log
        /\ c \in Commits
    BY <2>2 DEF Removed, After, Commits
  <2>4. Has(c) \cap Mine \subseteq Has(branch) \cup Kept
    BY <1>3, <2>3 DEF Carried, BranchCarries
  <2>5. CASE remote = run.pin
    <3>1. Has(branch) \subseteq Held(branch) /\ branch \in Commits
      BY <1>1, <1>3, Refs DEF Held
    <3> QED BY <1>1, <1>3, <2>3, <2>4, <2>5, <3>1
  <2>6. CASE run.pin \in Past(target)
    <3>1. Has(branch) \subseteq Held(branch) /\ Held(branch) \subseteq Kept
      BY <1>1, <1>3, <2>3, <2>6, Refs, KeptGrows DEF Held
    <3> QED BY <1>1, <2>3, <2>4, <3>1
  <2> QED BY <2>3, <2>5, <2>6 DEF Carried, PinCarries
<1> QED BY <1>2, <1>3

LEMMA TreeCarriesStep ==
    ASSUME Inv, Rooted, Grounded, Carried, [Next]_vars
    PROVE  TreeCarries'
<1> SUFFICES ASSUME alive', ~away'
             PROVE  log'[branch'].has \cap Mine \subseteq tree' \cup Kept'
  BY DEF TreeCarries, InWorktree, Has
<1>1. /\ Kept \subseteq Kept' /\ LogOK /\ None \notin Commits
      /\ \A d \in Commits : log'[d].has = Has(d)
  BY Refs, KeptGrows, TreesAfter DEF Has
<1>2. branch' # None
  BY GroundedStep DEF Grounded
<1>3. CASE Still \/ HasLanded \/ OperatorCommits \/ MakesMerge
  <2>1. UNCHANGED <<branch, tree, away>> /\ alive
    BY <1>3 DEF Still, HasLanded, OperatorCommits, MakesMerge, worktree
  <2>2. Has(branch) \cap Mine \subseteq tree \cup Kept
    BY <2>1 DEF Carried, TreeCarries, InWorktree
  <2> QED BY <1>1, <1>2, <2>1, <2>2, Refs
<1>4. CASE AgentEdits \/ AgentSwitches
  <2>1. CASE AgentEdits
    <3>1. Has(branch) \cap Mine \subseteq tree \cup Kept
      BY <2>1 DEF AgentEdits, Works, Carried, TreeCarries, InWorktree
    <3>2. tree \subseteq tree' /\ branch' = branch
      BY <2>1 DEF AgentEdits
    <3> QED BY <1>1, <1>2, <3>1, <3>2, Refs
  <2>2. CASE AgentSwitches
    <3>1. tree' = Has(branch) /\ branch' = branch
      BY <2>2 DEF AgentSwitches
    <3> QED BY <1>1, <1>2, <3>1, Refs
  <2> QED BY <1>4, <2>1, <2>2
<1>5. CASE AgentCommits
  <2>1. branch \in Commits /\ commitTree({branch}, tree) /\ branch' = New /\ tree' = tree
    BY <1>5, Refs DEF AgentCommits, Works
  <2>2. log'[New].has = tree
    <3>1. {branch} \in SUBSET Commits /\ tree \in SUBSET Changes
      BY <2>1 DEF Inv, TypeOK
    <3> QED BY <1>1, <2>1, <3>1, NewTree
  <2> QED BY <2>1, <2>2
<1>6. CASE Rebased
  <2>1. branch \in Commits /\ run.base \in Commits /\ tree' \in SUBSET Changes
    BY <1>6, Refs, MergeCarriesOn DEF Rebased, OnBase, Fresh
  <2>2. CASE tree' = Has(run.base) /\ branch' = run.base
    BY <1>1, <2>1, <2>2
  <2>3. CASE branch' = New /\ commitTree({run.base}, tree')
    <3>1. PICK files : files = tree'
      OBVIOUS
    <3>2. log'[New].has = files
      BY <1>1, <2>1, <2>3, <3>1, NewTree
    <3> QED BY <2>3, <3>1, <3>2
  <2> QED BY <1>6, <2>2, <2>3 DEF Rebased
<1>7. CASE Swapped \/ Undone
  <2>1. run.pc \in Moving /\ UNCHANGED <<tree, away, alive>>
    BY <1>7 DEF Swapped, Undone, Moving
  <2>2. /\ run.tip \in Commits /\ run.mid \in Commits
        /\ Has(run.tip) \cap Mine \subseteq Has(run.mid) \cup Kept
        /\ Has(run.mid) \cap Mine \subseteq Has(run.tip) \cup Kept
    BY <2>1, Refs DEF Carried, MergeCarries
  <2>3. Has(branch) \cap Mine \subseteq tree \cup Kept
    BY <2>1 DEF Carried, TreeCarries, InWorktree
  <2>4. \/ branch = run.tip /\ branch' = run.mid
        \/ branch = run.mid /\ branch' = run.tip
    BY <1>7 DEF Swapped, Undone
  <2> QED BY <1>1, <2>1, <2>2, <2>3, <2>4
<1>8. CASE Followed
  <2>1. /\ run.pc \in Moving /\ UNCHANGED <<branch, away, alive>>
        /\ tree' = readTree(tree, run.tip, run.mid)
    BY <1>8 DEF Followed, Moving
  <2>2. /\ Has(run.tip) \cap Mine \subseteq Has(run.mid) \cup Kept
        /\ branch \in Commits
    BY <2>1, Refs DEF Carried, MergeCarries
  <2>3. Has(branch) \cap Mine \subseteq tree \cup Kept
    BY <2>1 DEF Carried, TreeCarries, InWorktree
  <2> QED BY <1>1, <2>1, <2>2, <2>3 DEF readTree
<1>9. ~Removed
  BY DEF Removed, Inv, Told
<1> QED BY <1>3, <1>4, <1>5, <1>6, <1>7, <1>8, <1>9, FilesMove, Refs

LEMMA MergeCarriesStep ==
    ASSUME Inv, Rooted, Grounded, Carried, [Next]_vars
    PROVE  MergeCarries'
<1> SUFFICES ASSUME run'.pc \in Moving
             PROVE  /\ log'[run'.tip].has \cap Mine \subseteq log'[run'.mid].has \cup Kept'
                    /\ log'[run'.mid].has \cap Mine \subseteq log'[run'.tip].has \cup Kept'
  BY DEF MergeCarries, Has
<1>1. /\ Kept \subseteq Kept' /\ LogOK
      /\ \A d \in Commits : log'[d].has = Has(d)
  BY Refs, KeptGrows, TreesAfter DEF Has
<1>2. CASE run.pc \in Moving /\ run'.tip = run.tip /\ run'.mid = run.mid
  <2>1. /\ run.tip \in Commits /\ run.mid \in Commits
        /\ Has(run.tip) \cap Mine \subseteq Has(run.mid) \cup Kept
        /\ Has(run.mid) \cap Mine \subseteq Has(run.tip) \cup Kept
    BY <1>2, Refs DEF Carried, MergeCarries
  <2> QED BY <1>1, <1>2, <2>1
<1>3. CASE MakesMerge
  <2>1. run.pc \in OnBase
    BY <1>3 DEF MakesMerge, OnBase, Fresh
  <2>2. branch \in Commits /\ run.base \in Commits
    BY <2>1, Refs
  <2>3. /\ threeWay(branch, run.base) \subseteq Has(branch) \cup Kept
        /\ Has(branch) \subseteq threeWay(branch, run.base) \cup Kept
        /\ threeWay(branch, run.base) \in SUBSET Changes
    BY <2>1, MergeCarriesOn
  <2>4. log'[New].has = threeWay(branch, run.base)
    BY <1>1, <1>3, <2>2, <2>3, NewTree DEF MakesMerge
  <2> QED BY <1>1, <1>3, <2>2, <2>3, <2>4 DEF MakesMerge
<1>4. \/ MakesMerge
      \/ run.pc \in Moving /\ run'.tip = run.tip /\ run'.mid = run.mid
  BY RunGoes, Refs DEF Onward, Starts, PinsBase, PinsBranch, HasLanded, Moving, Swapped,
     Followed, Pinned, After
<1> QED BY <1>2, <1>3, <1>4

LEMMA PinCarriesStep ==
    ASSUME Inv, Rooted, Grounded, Carried, [Next]_vars
    PROVE  PinCarries'
<1> SUFFICES ASSUME run'.pc \in After, branch' = run'.pin, remote' # run'.pin
             PROVE  run'.pin \in Past(target)'
  BY DEF PinCarries
<1>1. \/ HasLanded
      \/ run.pc \in After /\ run'.pin = run.pin
  BY RunGoes, Refs DEF Onward, Starts, PinsBase, MakesMerge, PinsBranch, Swapped, Followed,
     After, Pinned, OnBase, Fresh
<1>2. CASE HasLanded
  <2>1. run.pc \in Pinned /\ run'.pin = run.pin
    BY <1>2 DEF HasLanded, Pinned
  <2>2. run.pin \in Commits
    BY <2>1, Refs
  <2>3. target' = run.pin /\ log' = log
    BY <1>2, <2>1 DEF HasLanded
  <2>4. run.pin \in Past(run.pin)
    BY <2>2, Refs
  <2> QED BY <2>1, <2>3, <2>4 DEF Past
<1>3. CASE run.pc \in After /\ run'.pin = run.pin
  <2>1. run.pin \in Commits /\ New \notin Commits /\ None \notin Commits
    BY <1>3, Refs DEF New, Commits, LogOK
  <2>2. branch' \in {branch, New, None}
    BY <1>3, FilesMove, Refs DEF Still, OperatorCommits, AgentEdits, AgentCommits,
       AgentSwitches, Rebased, MakesMerge, Swapped, Followed, Undone, HasLanded, Removed,
       worktree, After
  <2>3. branch = run.pin
    BY <1>3, <2>1, <2>2
  <2>4. remote # run.pin
    BY <1>3, <2>3, OriginMoves, Refs DEF After
  <2>5. run.pin \in Past(target)
    BY <1>3, <2>3, <2>4 DEF Carried, PinCarries
  <2> QED BY <1>3, <2>5, KeptGrows
<1> QED BY <1>1, <1>2, <1>3

LEMMA CarriedStep ==
    ASSUME Inv, Rooted, Grounded, Carried, [Next]_vars
    PROVE  Carried'
BY BranchCarriesStep, OriginCarriesStep, TreeCarriesStep, MergeCarriesStep, PinCarriesStep
   DEF Carried

-----------------------------------------------------------------------------
\* While nothing is caught apart, the target has what the base has, and so has the pin.
LEMMA BaseIsHad ==
    ASSUME Inv, Grounded, Sounds
    PROVE  /\ run.base # None => Has(run.base) \subseteq Has(target)
           /\ run.pc \in Pinned => Has(run.base) \subseteq Has(run.pin)
<1>1. Sound(target)
  BY Refs DEF Sounds, InUse
<1>2. run.pc \in Pinned => Sound(run.pin) /\ run.base \in Past(run.pin)
  BY Refs DEF Sounds, InUse
<1> QED BY <1>1, <1>2 DEF Grounded, Sound

\* The checkout and the worktree, as a commit finds them.
LEMMA CommitsTakeAll ==
    ASSUME Inv, MainFollows, TreeFollows, ~torn', [Next]_vars
    PROVE  /\ OperatorCommits => index = Has(target) /\ ~MainApart
           /\ AgentCommits => Has(branch) \subseteq tree /\ ~WorktreeApart
<1>1. /\ OperatorCommits => ~MainApart
      /\ AgentCommits => ~WorktreeApart
  BY TornMoves DEF Inv, TypeOK
<1> QED BY <1>1 DEF OperatorCommits, AgentCommits, Works, MainFollows, TreeFollows,
      InWorktree, Tip

LEMMA TargetHasMore ==
    ASSUME Inv, Grounded, Sounds, MainFollows, TreeFollows, ~torn', [Next]_vars
    PROVE  Has(target) \subseteq log'[target'].has
<1>1. /\ LogOK /\ target \in Commits
      /\ \A d \in Commits : log'[d].has = Has(d)
  BY Refs, TreesAfter DEF Has
<1>2. CASE target' = target
  BY <1>1, <1>2
<1>3. CASE OperatorCommits
  <2>1. PICK x \in Theirs \ index : commitTree({target}, index \cup {x})
    BY <1>3 DEF OperatorCommits
  <2>2. log'[New].has = index \cup {x}
    <3>1. {target} \in SUBSET Commits /\ index \cup {x} \in SUBSET Changes
      BY <1>1 DEF Inv, TypeOK, Changes
    <3> QED BY <1>1, <2>1, <3>1, NewTree
  <2> QED BY <1>3, <2>2, CommitsTakeAll DEF OperatorCommits
<1>4. CASE MoveTarget /\ Lands(run.pin) /\ target = run.base /\ target' = run.pin
  <2>1. run.pc \in Pinned
    BY <1>4 DEF MoveTarget, At, Pinned
  <2> QED BY <1>1, <1>4, <2>1, BaseIsHad, Refs
<1> QED BY <1>2, <1>3, <1>4, TargetMoves

\* A commit on top of sound ones, with all that they have, is sound.
LEMMA NewIsSound ==
    ASSUME LogOK, NEW heads \in SUBSET Commits, NEW files \in SUBSET Changes,
           commitTree(heads, files),
           \A c \in heads : Sound(c) /\ Has(c) \subseteq files
    PROVE  /\ New \in Commits'
           /\ \A d \in log'[New].past : log'[d].has \subseteq log'[New].has
<1>1. PICK n : n = New
  OBVIOUS
<1>2. \A c \in Commits : log'[c].has = Has(c)
  BY CommitTrees DEF Has
<1>3. /\ log'[n].has = files /\ log'[n].past = {n} \cup UNION {Past(c) : c \in heads}
      /\ n \in Commits'
  BY <1>1, NewTree
<1>4. ASSUME NEW c \in heads, NEW d \in Past(c) PROVE log'[d].has \subseteq files
  BY <1>2, <1>4 DEF Sound, LogOK
<1> QED BY <1>1, <1>3, <1>4

\* A commit the step makes.
LEMMA SoundCommit ==
    ASSUME Inv, Rooted, Grounded, Sounds, MainFollows, TreeFollows, ~torn', [Next]_vars
    PROVE  \/ UNCHANGED log
           \/ /\ New \in Commits'
              /\ \A d \in log'[New].past : log'[d].has \subseteq log'[New].has
<1>1. /\ LogOK /\ target \in Commits /\ tree \in SUBSET Changes /\ index \in SUBSET Changes
  BY DEF Inv, TypeOK
<1>2. CASE Still \/ AgentEdits \/ AgentSwitches \/ Swapped \/ Followed \/ Undone \/ HasLanded
           \/ Removed
  BY <1>2 DEF Still, AgentEdits, AgentSwitches, Swapped, Followed, Undone, HasLanded, Removed
<1>3. CASE OperatorCommits
  <2>1. PICK x \in Theirs \ index : commitTree({target}, index \cup {x})
    BY <1>3 DEF OperatorCommits
  <2>2. Sound(target) /\ index = Has(target)
    BY <1>3, CommitsTakeAll, Refs DEF Sounds, InUse
  <2>3. {target} \in SUBSET Commits /\ index \cup {x} \in SUBSET Changes
    BY <1>1 DEF Changes
  <2>4. \A c \in {target} : Sound(c) /\ Has(c) \subseteq index \cup {x}
    BY <2>2
  <2> QED BY <1>1, <2>1, <2>3, <2>4, NewIsSound
<1>4. CASE AgentCommits
  <2>1. branch \in Commits /\ commitTree({branch}, tree)
    BY <1>4, Refs DEF AgentCommits, Works
  <2>2. Sound(branch) /\ Has(branch) \subseteq tree
    BY <1>4, <2>1, CommitsTakeAll, Refs DEF Sounds, InUse
  <2>3. {branch} \in SUBSET Commits /\ \A c \in {branch} : Sound(c) /\ Has(c) \subseteq tree
    BY <2>1, <2>2
  <2> QED BY <1>1, <2>1, <2>3, NewIsSound
<1>5. ASSUME run.pc \in OnBase
      PROVE  /\ branch \in Commits /\ run.base \in Commits /\ Sound(branch) /\ Sound(run.base)
             /\ Has(branch) \subseteq threeWay(branch, run.base)
             /\ Has(run.base) \subseteq threeWay(branch, run.base)
             /\ threeWay(branch, run.base) \in SUBSET Changes
  <2>1. branch \in Commits /\ run.base \in Commits /\ branch # None /\ run.base # None
    BY <1>5, Refs
  <2>2. Sound(branch) /\ Sound(run.base)
    BY <2>1 DEF Sounds, InUse
  <2> QED BY <1>1, <2>1, <2>2, MergeKeeps, TreesAreChanges
<1>6. CASE Rebased
  <2>1. PICK files : files = threeWay(branch, run.base)
    OBVIOUS
  <2>2. run.pc \in OnBase /\ tree' = files
    BY <1>6, <2>1 DEF Rebased, OnBase, Fresh
  <2>3. log' = log \/ commitTree({run.base}, files)
    BY <1>6, <2>2 DEF Rebased
  <2>4. /\ {run.base} \in SUBSET Commits /\ files \in SUBSET Changes
        /\ \A c \in {run.base} : Sound(c) /\ Has(c) \subseteq files
    BY <1>5, <2>1, <2>2
  <2> QED BY <1>1, <2>3, <2>4, NewIsSound
<1>7. CASE MakesMerge
  <2>1. run.pc \in OnBase /\ commitTree({branch, run.base}, threeWay(branch, run.base))
    BY <1>7 DEF MakesMerge, OnBase, Fresh
  <2>2. PICK files : files = threeWay(branch, run.base)
    OBVIOUS
  <2>3. /\ {branch, run.base} \in SUBSET Commits /\ files \in SUBSET Changes
        /\ \A c \in {branch, run.base} : Sound(c) /\ Has(c) \subseteq files
    BY <1>5, <2>1, <2>2
  <2> QED BY <1>1, <2>1, <2>2, <2>3, NewIsSound
<1> QED BY <1>2, <1>3, <1>4, <1>6, <1>7, FilesMove, Refs

LEMMA SoundsStep ==
    ASSUME Inv, Rooted, Grounded, Sounds, MainFollows, TreeFollows, ~torn', [Next]_vars
    PROVE  Sounds'
<1>1. \A c \in InUse : c \in Commits
  BY Refs DEF InUse
<1>2. \A c \in InUse : \A d \in log'[c].past : log'[d].has \subseteq log'[c].has
  <2>1. \A c \in Commits : Sound(c)' = Sound(c)
    BY Immutable DEF Inv
  <2> QED BY <1>1, <2>1 DEF Sounds, Sound, Has, Past
<1>3. InUse' \subseteq InUse \cup (IF log' = log THEN {} ELSE {New})
  <2>1. run'.base \in {run.base, None, target}
    BY RunGoes, Refs DEF Onward, Starts, PinsBase, MakesMerge, PinsBranch, HasLanded
  <2>2. run'.tip \in {run.tip, None, branch} /\ run'.pin \in {run.pin, None, branch}
    BY RunGoes, Refs DEF Onward, Starts, PinsBase, MakesMerge, PinsBranch, HasLanded
  <2>3. \A heads, files : commitTree(heads, files) => log' # log
    BY Refs DEF commitTree, LogOK
  <2>4. run'.mid \in {run.mid, None} \/ (run'.mid = New /\ log' # log)
    BY <2>3, RunGoes, Refs DEF Onward, Starts, PinsBase, MakesMerge, PinsBranch, HasLanded
  <2>5. target' \in {target, run.pin} \/ (target' = New /\ log' # log)
    BY <2>3, TargetMoves DEF OperatorCommits
  <2>6. branch' \in {branch, run.base, run.mid, run.tip, None} \/ (branch' = New /\ log' # log)
    BY <2>3, FilesMove, Refs DEF Still, OperatorCommits, AgentEdits, AgentCommits,
       AgentSwitches, Rebased, MakesMerge, Swapped, Followed, Undone, HasLanded, Removed,
       worktree
  <2> QED BY <2>1, <2>2, <2>4, <2>5, <2>6 DEF InUse
<1>4. log' # log => \A d \in log'[New].past : log'[d].has \subseteq log'[New].has
  BY SoundCommit
<1>5. \A c \in InUse' : \A d \in log'[c].past : log'[d].has \subseteq log'[c].has
  BY <1>2, <1>3, <1>4
<1> QED BY <1>5 DEF Sounds, Sound, Has, Past

\* What others changed gets into the branch and its worktree with a base alone.
LEMMA ForeignMoves ==
    ASSUME Inv, [Next]_vars, NEW bound,
           branch # None => Has(branch) \cap Theirs \subseteq bound,
           InWorktree => tree \cap Theirs \subseteq bound,
           run.pc \in OnBase => Has(run.base) \cap Theirs \subseteq bound,
           run.pc \in Moving => (Has(run.tip) \cup Has(run.mid)) \cap Theirs \subseteq bound
    PROVE  /\ branch' # None => log'[branch'].has \cap Theirs \subseteq bound
           /\ alive' /\ ~away' => tree' \cap Theirs \subseteq bound
<1>1. /\ LogOK /\ None \notin Commits /\ branch \in Commits \cup {None}
      /\ tree \in SUBSET Changes
      /\ \A d \in Commits : log'[d].has = Has(d)
  BY Refs, TreesAfter DEF Inv, TypeOK, Has
<1>2. CASE Still \/ OperatorCommits \/ MakesMerge \/ HasLanded
  <2>1. UNCHANGED <<branch, tree, away>> /\ (alive' => alive)
    BY <1>2 DEF Still, OperatorCommits, MakesMerge, HasLanded, worktree
  <2> QED BY <1>1, <2>1 DEF InWorktree
<1>3. CASE AgentEdits
  <2>1. PICK x \in Mine : tree' = tree \cup {x}
    BY <1>3 DEF AgentEdits
  <2>2. UNCHANGED <<branch, away, alive>>
    BY <1>3 DEF AgentEdits
  <2> QED BY <1>1, <2>1, <2>2, ChangesAssumption DEF InWorktree
<1>4. CASE AgentSwitches
  <2>1. branch \in Commits /\ branch' = branch
    BY <1>1, <1>4 DEF AgentSwitches, Works
  <2>2. alive' /\ ~away' => tree' = Has(branch)
    BY <1>4 DEF AgentSwitches
  <2> QED BY <1>1, <2>1, <2>2
<1>5. CASE AgentCommits
  <2>1. /\ branch \in Commits /\ commitTree({branch}, tree) /\ branch' = New /\ tree' = tree
        /\ InWorktree
    BY <1>1, <1>5 DEF AgentCommits, Works, InWorktree
  <2>2. log'[New].has = tree
    BY <1>1, <2>1, NewTree
  <2> QED BY <2>1, <2>2
<1>6. CASE Rebased
  <2>1. PICK files : files = threeWay(branch, run.base)
    OBVIOUS
  <2>2. branch \in Commits /\ run.base \in Commits /\ run.pc \in OnBase
    BY <1>6, Refs DEF Rebased, OnBase, Fresh
  <2>3. files \subseteq Has(branch) \cup Has(run.base) /\ files \in SUBSET Changes
    BY <1>1, <2>1, <2>2, TreesAreChanges DEF threeWay
  <2>4. files \cap Theirs \subseteq bound
    BY <1>1, <2>2, <2>3
  <2>5. tree' = files /\ (branch' = run.base \/ (branch' = New /\ commitTree({run.base}, files)))
    BY <1>6, <2>1 DEF Rebased
  <2>6. branch' = New /\ commitTree({run.base}, files) => log'[New].has = files
    BY <1>1, <2>2, <2>3, NewTree
  <2> QED BY <1>1, <2>2, <2>4, <2>5, <2>6
<1>7. CASE Swapped \/ Undone
  <2>1. /\ run.pc \in Moving /\ UNCHANGED <<tree, away, alive>>
        /\ branch' \in {run.tip, run.mid}
    BY <1>7 DEF Swapped, Undone, Moving
  <2> QED BY <1>1, <2>1, Refs DEF InWorktree
<1>8. CASE Followed
  <2>1. /\ run.pc \in Moving /\ UNCHANGED <<branch, away, alive>>
        /\ tree' \subseteq tree \cup Has(run.mid)
    BY <1>8 DEF Followed, Moving, readTree
  <2> QED BY <1>1, <2>1 DEF InWorktree
<1>9. CASE Removed
  BY <1>9 DEF Removed, Inv, Told
<1> QED BY <1>2, <1>3, <1>4, <1>5, <1>6, <1>7, <1>8, <1>9, FilesMove, Refs

LEMMA ForeignStep ==
    ASSUME Inv, Rooted, Grounded, Sounds, Foreign, MainFollows, TreeFollows, ~torn',
           [Next]_vars
    PROVE  Foreign'
<1>1. /\ LogOK /\ \A d \in Commits : log'[d].has = Has(d)
  BY Refs, TreesAfter DEF Has
<1>2. /\ branch' # None => log'[branch'].has \cap Theirs \subseteq log'[target'].has
      /\ alive' /\ ~away' => tree' \cap Theirs \subseteq log'[target'].has
  <2>1. PICK bound : bound = Has(target)
    OBVIOUS
  <2>2. run.pc \in OnBase => Has(run.base) \subseteq bound
    BY <2>1, BaseIsHad, Refs
  <2>3. run.pc \in Moving => (Has(run.tip) \cup Has(run.mid)) \cap Theirs \subseteq bound
    BY <2>2, Refs DEF Foreign
  <2>4. /\ branch' # None => log'[branch'].has \cap Theirs \subseteq bound
        /\ alive' /\ ~away' => tree' \cap Theirs \subseteq bound
    BY <2>1, <2>2, <2>3, ForeignMoves DEF Foreign
  <2> QED BY <2>1, <2>4, TargetHasMore
<1>3. ASSUME run.pc \in OnBase
      PROVE  /\ branch' # None => log'[branch'].has \cap Theirs \subseteq Has(run.base)
             /\ alive' /\ ~away' => tree' \cap Theirs \subseteq Has(run.base)
  <2>1. PICK bound : bound = Has(run.base)
    OBVIOUS
  <2>2. /\ branch # None => Has(branch) \cap Theirs \subseteq bound
        /\ InWorktree => tree \cap Theirs \subseteq bound
        /\ run.pc \in Moving => (Has(run.tip) \cup Has(run.mid)) \cap Theirs \subseteq bound
    BY <1>3, <2>1 DEF Foreign
  <2>3. Has(run.base) \cap Theirs \subseteq bound
    BY <2>1
  <2> QED BY <2>1, <2>2, <2>3, ForeignMoves
<1>4. ASSUME run'.pc \in OnBase
      PROVE  /\ branch' # None => log'[branch'].has \cap Theirs \subseteq log'[run'.base].has
             /\ alive' /\ ~away' => tree' \cap Theirs \subseteq log'[run'.base].has
  <2>1. \/ run.pc \in OnBase /\ run'.base = run.base
        \/ PinsBase
    BY <1>4, RunGoes, Refs DEF Onward, Starts, MakesMerge, PinsBranch, HasLanded, Swapped,
       Followed, OnBase, Fresh, Pinned, After, InPlace
  <2>2. CASE run.pc \in OnBase /\ run'.base = run.base
    BY <1>1, <1>3, <2>2, Refs
  <2>3. CASE PinsBase
    BY <1>2, <2>3 DEF PinsBase, main
  <2> QED BY <2>1, <2>2, <2>3
<1>5. ASSUME run'.pc \in Moving
      PROVE  (log'[run'.tip].has \cup log'[run'.mid].has) \cap Theirs \subseteq log'[run'.base].has
  <2>1. \/ run.pc \in Moving /\ run'.base = run.base /\ run'.tip = run.tip /\ run'.mid = run.mid
        \/ MakesMerge
    BY <1>5, RunGoes, Refs DEF Onward, Starts, PinsBase, PinsBranch, HasLanded, Swapped,
       Followed, Moving, Pinned, After, InPlace
  <2>2. CASE run.pc \in Moving /\ run'.base = run.base /\ run'.tip = run.tip /\ run'.mid = run.mid
    BY <1>1, <2>2, Refs DEF Foreign
  <2>3. CASE MakesMerge
    <3>1. run.pc \in OnBase
      BY <2>3 DEF MakesMerge, OnBase, Fresh
    <3>2. PICK files : files = threeWay(branch, run.base)
      OBVIOUS
    <3>3. /\ branch \in Commits /\ run.base \in Commits /\ branch # None
          /\ files \in SUBSET Changes /\ files \subseteq Has(branch) \cup Has(run.base)
      BY <1>1, <3>1, <3>2, Refs, TreesAreChanges DEF threeWay
    <3>4. log'[New].has = files
      BY <1>1, <2>3, <3>2, <3>3, NewTree DEF MakesMerge
    <3>5. Has(branch) \cap Theirs \subseteq Has(run.base)
      BY <3>1, <3>3 DEF Foreign
    <3> QED BY <1>1, <2>3, <3>3, <3>4, <3>5 DEF MakesMerge
  <2> QED BY <2>1, <2>2, <2>3
<1>6. ASSUME run'.pc \in Pinned
      PROVE  log'[run'.pin].has \cap Theirs \subseteq log'[run'.base].has
  <2>1. \/ run.pc \in Pinned /\ run'.base = run.base /\ run'.pin = run.pin
        \/ PinsBranch
    BY <1>6, RunGoes, Refs DEF Onward, Starts, PinsBase, MakesMerge, HasLanded, Swapped,
       Followed, OnBase, Fresh, Pinned, After, Recheck, At
  <2>2. CASE run.pc \in Pinned /\ run'.base = run.base /\ run'.pin = run.pin
    BY <1>1, <2>2, Refs DEF Foreign
  <2>3. CASE PinsBranch
    <3>1. run.pc \in OnBase
      BY <2>3 DEF PinsBranch, OnBase, Fresh
    <3>2. branch \in Commits /\ run.base \in Commits /\ branch # None
      BY <3>1, Refs
    <3> QED BY <1>1, <2>3, <3>1, <3>2 DEF PinsBranch, Foreign
  <2> QED BY <2>1, <2>2, <2>3
<1> QED BY <1>2, <1>4, <1>5, <1>6 DEF Foreign, InWorktree, Has

LEMMA TargetStays ==
    ASSUME [Next]_vars, run'.pc # "record"
    PROVE  target' = target \/ OperatorCommits
<1>1. Lands(run.pin) => run'.pc = "record"
  BY DEF Lands, Idle
<1> QED BY <1>1, TargetMoves

\* While the gate moves the target and its checkout, neither moves otherwise.
LEMMA MoveIsAlone ==
    ASSUME Inv, ~torn', [Next]_vars, MainApart, MainApart'
    PROVE  /\ run'.base = run.base /\ run'.pin = run.pin /\ UNCHANGED <<target, head, index>>
<1>1. run.pc \in {"cas", "restore"} /\ run'.pc \in {"cas", "restore"}
  BY DEF MainApart
<1>2. run'.base = run.base /\ run'.pin = run.pin
  BY <1>1, RunGoes, Refs DEF Onward, Starts, PinsBase, MakesMerge, PinsBranch, HasLanded,
     OnBase, Fresh
<1>3. ~OperatorCommits /\ ~OperatorSwitches
  BY <1>1, TornMoves, Refs DEF Inv, TypeOK, InPlace
<1>4. target' = target
  BY <1>1, <1>3, TargetStays
<1>5. UNCHANGED <<head, index>>
  BY <1>1, <1>3, MainMoves, Refs
<1> QED BY <1>2, <1>4, <1>5

LEMMA MainFollowsStep ==
    ASSUME Inv, Rooted, Grounded, Sounds, Foreign, MainFollows, TreeFollows, ~torn',
           [Next]_vars
    PROVE  MainFollows'
<1>1. /\ LogOK /\ target \in Commits /\ Root \in Commits
      /\ \A d \in Commits : log'[d].has = Has(d)
  <2>1. LogOK /\ target \in Commits /\ \A d \in Commits : log'[d].has = Has(d)
    BY Refs, TreesAfter DEF Has
  <2>2. Root \in Commits
    BY <2>1 DEF LogOK, Commits, Root
  <2> QED BY <2>1, <2>2
<1>2. ASSUME OperatorCommits
      PROVE  \E x \in Theirs \ index :
                /\ index = Has(target) /\ head = "target" /\ run' = run /\ head' = head
                /\ target' = New /\ index' = index \cup {x} /\ log'[New].has = index \cup {x}
                /\ ~MainApart
  <2>1. PICK x \in Theirs \ index :
            commitTree({target}, index \cup {x}) /\ index' = index \cup {x}
    BY <1>2 DEF OperatorCommits
  <2>2. {target} \in SUBSET Commits /\ index \cup {x} \in SUBSET Changes
    BY <1>1 DEF Inv, TypeOK, Changes
  <2>3. log'[New].has = index \cup {x}
    BY <1>1, <2>1, <2>2, NewTree
  <2> QED BY <1>2, <2>1, <2>3, CommitsTakeAll DEF OperatorCommits
<1>3. run.pc \in InPlace => /\ run.base \in Commits /\ run.pin \in Commits
                            /\ Has(run.base) \subseteq Has(target)
                            /\ Has(run.base) \subseteq Has(run.pin)
                            /\ Has(run.pin) \cap Theirs \subseteq Has(run.base)
                            /\ head = "target"
                            /\ Has(target) \cap Has(run.pin) \subseteq Has(run.base)
  <2>1. run.pc \in InPlace => run.pc \in Pinned
    BY DEF InPlace, Pinned
  <2> QED BY <2>1, BaseIsHad, Refs DEF Foreign, MainFollows
\* The target has nothing of the pin's but the base's.
<1>4. ASSUME run'.pc \in InPlace
      PROVE  /\ head' = "target"
             /\ log'[target'].has \cap log'[run'.pin].has \subseteq log'[run'.base].has
  <2>1. \/ run.pc \in InPlace /\ run'.base = run.base /\ run'.pin = run.pin
        \/ /\ Recheck /\ head = "target" /\ target = run.base
           /\ run'.base = run.base /\ run'.pin = run.pin /\ run'.pc = "checkout"
    BY <1>4, RunGoes, Refs DEF Onward, Starts, PinsBase, MakesMerge, PinsBranch, HasLanded,
       Swapped, Followed, OnBase, Fresh, Pinned, After, InPlace
  <2>2. CASE run.pc \in InPlace /\ run'.base = run.base /\ run'.pin = run.pin
    <3>1. ~OperatorSwitches
      BY <2>2, TornMoves, Refs DEF Inv, TypeOK
    <3>2. head' = head
      BY <3>1, <1>2, MainMoves, Refs
    <3>3. target' = target \/ OperatorCommits
      BY <1>4, TargetStays DEF InPlace
    <3>4. CASE target' = target
      BY <1>1, <1>3, <2>2, <3>2, <3>4
    <3>5. CASE OperatorCommits
      <4>1. PICK x \in Theirs \ index :
                index = Has(target) /\ target' = New /\ log'[New].has = index \cup {x}
        BY <1>2, <3>5
      <4>2. x \notin Has(run.pin)
        BY <1>3, <2>2, <4>1
      <4> QED BY <1>1, <1>3, <2>2, <3>2, <4>1, <4>2
    <3> QED BY <3>3, <3>4, <3>5
  <2>3. CASE /\ Recheck /\ head = "target" /\ target = run.base
             /\ run'.base = run.base /\ run'.pin = run.pin /\ run'.pc = "checkout"
    <3>1. UNCHANGED <<target, head, log>>
      BY <2>3 DEF Recheck, Quiet, Throws, main
    <3> QED BY <2>3, <3>1 DEF Has
  <2> QED BY <2>1, <2>2, <2>3
\* The index, case by case.
<1>5. CASE MainApart /\ MainApart'
  <2>1. /\ run'.base = run.base /\ run'.pin = run.pin /\ UNCHANGED <<target, head, index>>
    BY <1>5, MoveIsAlone
  <2>2. index = readTree(Has(target), run.base, run.pin) /\ run.pc \in InPlace
    BY <1>5 DEF MainFollows, MainApart, InPlace
  <2>3. index' = (log'[target'].has \ (log'[run'.base].has \ log'[run'.pin].has))
                     \cup (log'[run'.pin].has \ log'[run'.base].has)
    BY <1>1, <1>3, <2>1, <2>2 DEF readTree
  <2> QED BY <1>4, <1>5, <2>3 DEF MainFollows, readTree, Has
<1>6. CASE MainApart /\ ~MainApart'
  <2>1. index = readTree(Has(target), run.base, run.pin) /\ run.pc \in InPlace
    BY <1>6 DEF MainFollows, MainApart, InPlace
  <2>2. HasLanded \/ (run'.pc = "idle" /\ index' = readTree(index, run.pin, run.base))
    BY <1>6, TornMoves, Refs DEF Inv, TypeOK, MainApart, Onward, Swapped, Followed, After, Recheck,
       At, InPlace, OnBase, Fresh
  <2>3. ~OperatorCommits /\ ~OperatorSwitches
    BY <1>6, <2>1, TornMoves, Refs DEF Inv, TypeOK
  <2>4. CASE HasLanded
    <3>1. run.pc = "cas" /\ target = run.base /\ target' = run.pin /\ UNCHANGED <<head, index>>
      BY <1>6, <2>4 DEF HasLanded, MainApart
    <3>2. index' = Has(run.pin)
      BY <1>3, <2>1, <3>1 DEF readTree
    <3>3. index' = log'[target'].has /\ head' = "target"
      BY <1>1, <1>3, <2>1, <3>1, <3>2
    <3> QED BY <1>4, <1>6, <3>3 DEF MainFollows, Tip, Has
  <2>5. CASE run'.pc = "idle" /\ index' = readTree(index, run.pin, run.base)
    <3>1. target' = target
      BY <2>3, <2>5, TargetStays
    <3>2. head' = head
      BY <2>3, MainMoves, Refs
    <3>3. index' = Has(target)
      BY <1>3, <2>1, <2>5 DEF readTree
    <3>4. index' = log'[target'].has /\ head' = "target"
      BY <1>1, <1>3, <2>1, <3>1, <3>2, <3>3
    <3> QED BY <1>4, <1>6, <3>4 DEF MainFollows, Tip, Has
  <2> QED BY <2>2, <2>4, <2>5
<1>7. CASE ~MainApart /\ MainApart'
  <2>1. /\ run.pc = "checkout" /\ run'.pc = "cas" /\ run'.base = run.base /\ run'.pin = run.pin
        /\ index' = readTree(index, run.base, run.pin)
    BY <1>7, RunGoes, Refs DEF MainApart, Onward, Starts, PinsBase, MakesMerge, PinsBranch,
       HasLanded, Swapped, Followed, After, OnBase, Fresh, Pinned, InPlace
  <2>2. run.pc \in InPlace
    BY <2>1 DEF InPlace
  <2>3. index = Has(target)
    BY <1>3, <1>7, <2>2 DEF MainFollows, Tip
  <2>4. target' = target
    BY <1>2, <2>1, TargetStays
  <2>5. index' = (log'[target'].has \ (log'[run'.base].has \ log'[run'.pin].has))
                     \cup (log'[run'.pin].has \ log'[run'.base].has)
    BY <1>1, <1>3, <2>1, <2>2, <2>3, <2>4 DEF readTree
  <2> QED BY <1>4, <1>7, <2>5 DEF MainFollows, readTree, Has
<1>8. CASE ~MainApart /\ ~MainApart'
  <2>1. index = Has(Tip(head))
    BY <1>8 DEF MainFollows
  <2>2. CASE OperatorCommits
    <3>1. index' = log'[target'].has /\ head' = "target"
      BY <1>2, <2>2
    <3> QED BY <1>4, <1>8, <3>1 DEF MainFollows, Tip, Has
  <2>3. CASE ~OperatorCommits
    <3>1. target' = target
      BY <1>8, <2>3, TargetMoves DEF MoveTarget, At, MainApart
    <3>2. \/ UNCHANGED <<head, index>>
          \/ index' = readTree(index, Tip(head), Tip(head'))
      BY <1>8, <2>3, MainMoves, Refs DEF MainApart, OperatorSwitches
    <3>3. Tip(head) \in Commits /\ Tip(head') \in Commits
      BY <1>1 DEF Tip
    <3>4. index' = Has(Tip(head'))
      BY <2>1, <3>2, <3>3 DEF readTree
    <3>5. index' = log'[Tip(head')].has
      BY <1>1, <3>3, <3>4
    <3> QED BY <1>4, <1>8, <3>1, <3>5 DEF MainFollows, Tip, Has
  <2> QED BY <2>2, <2>3
<1> QED BY <1>5, <1>6, <1>7, <1>8

LEMMA TreeFollowsStep ==
    ASSUME Inv, Rooted, Grounded, Sounds, MainFollows, TreeFollows, ~torn', [Next]_vars
    PROVE  TreeFollows'
<1>1. /\ LogOK /\ None \notin Commits /\ \A d \in Commits : log'[d].has = Has(d)
      /\ branch \in Commits \cup {None} /\ tree \in SUBSET Changes
  BY Refs, TreesAfter DEF Inv, TypeOK, Has
<1>2. /\ AgentCommits => ~WorktreeApart
      /\ AgentSwitches => run.pc # "swap" /\ ~WorktreeApart
  BY TornMoves, Refs DEF Inv, TypeOK
<1>3. ASSUME run'.pc = "swap" PROVE run'.follow <=> ~away'
  <2>1. run' = run \/ MakesMerge
    BY <1>3, RunGoes, Refs DEF Onward, Starts, PinsBase, PinsBranch, HasLanded, Swapped,
       Followed, Moving, Pinned, After, InPlace
  <2>2. CASE MakesMerge
    BY <2>2 DEF MakesMerge, worktree
  <2>3. CASE run' = run
    <3>1. away' = away
      BY <1>2, <1>3, <2>3, FilesMove, Refs DEF Still, OperatorCommits, AgentEdits,
         AgentCommits, Rebased, MakesMerge, Swapped, Followed, Undone, HasLanded, Removed,
         worktree
    <3> QED BY <1>3, <2>3, <3>1 DEF TreeFollows
  <2> QED BY <2>1, <2>2, <2>3
\* The merge keeps the worktree to itself while it follows.
<1>4. ASSUME WorktreeApart'
      PROVE  /\ branch' = run'.mid /\ ~away' /\ run'.tip = run.tip
             /\ \/ Swapped /\ branch = run.tip /\ UNCHANGED tree /\ (alive' => alive)
                \/ WorktreeApart /\ tree \subseteq tree' /\ (alive' => alive)
  <2>1. \/ /\ run'.tip = run.tip /\ run'.mid = run.mid
           /\ \/ Swapped /\ run'.pc = "follow"
              \/ WorktreeApart
    BY <1>4, RunGoes, Refs DEF Onward, Starts, PinsBase, MakesMerge, PinsBranch, HasLanded,
       Followed, Moving, Pinned, After, InPlace, WorktreeApart
  <2>2. CASE Swapped /\ run'.pc = "follow"
    <3>1. run.follow
      BY <2>2 DEF Swapped
    <3> QED BY <2>1, <2>2, <3>1 DEF Swapped, TreeFollows
  <2>3. CASE WorktreeApart
    <3>1. run.pc \in {"follow", "undo"} /\ run'.pc \in {"follow", "undo"}
      BY <1>4, <2>3 DEF WorktreeApart
    <3>2. UNCHANGED <<branch, away>> /\ tree \subseteq tree' /\ (alive' => alive)
      BY <1>2, <2>3, <3>1, FilesMove, Refs DEF Still, OperatorCommits, AgentEdits,
         Rebased, MakesMerge, Swapped, Followed, Undone, HasLanded, Removed, worktree
    <3> QED BY <2>1, <2>3, <3>1, <3>2 DEF TreeFollows
  <2> QED BY <2>1, <2>2, <2>3
<1>5. ASSUME WorktreeApart', alive', ~away'
      PROVE  log'[run'.tip].has \subseteq tree'
  <2>1. run.pc \in Moving
    BY <1>4, <1>5 DEF Swapped, WorktreeApart, Moving
  <2>2. run.tip \in Commits
    BY <2>1, Refs
  <2>3. CASE Swapped /\ branch = run.tip /\ UNCHANGED tree /\ (alive' => alive)
    <3>1. away' = away /\ ~WorktreeApart
      BY <2>3 DEF Swapped, WorktreeApart
    <3>2. Has(branch) \subseteq tree
      BY <1>5, <2>3, <3>1 DEF TreeFollows, InWorktree
    <3> QED BY <1>1, <1>4, <1>5, <2>2, <2>3, <3>2
  <2>4. CASE WorktreeApart /\ tree \subseteq tree' /\ (alive' => alive)
    <3>1. Has(run.tip) \subseteq tree
      BY <1>5, <2>4 DEF TreeFollows, InWorktree, WorktreeApart
    <3> QED BY <1>1, <1>4, <1>5, <2>2, <2>4, <3>1
  <2> QED BY <1>4, <1>5, <2>3, <2>4
<1>6. ASSUME ~WorktreeApart', alive', ~away'
      PROVE  log'[branch'].has \subseteq tree'
  <2>1. CASE WorktreeApart
    <3>1. /\ run.pc \in Moving /\ run.tip \in Commits /\ run.mid \in Commits
          /\ branch = run.mid /\ ~away
      BY <2>1, Refs DEF WorktreeApart, Moving, TreeFollows
    <3>2. Followed \/ Undone
      <4>1. run' = run \/ Onward \/ Undone
        BY <2>1, <3>1, TornMoves, Refs DEF Inv, TypeOK
      <4> QED BY <1>6, <2>1, <4>1 DEF WorktreeApart, Onward, Swapped, OnBase, Fresh, Pinned,
              After, Recheck, At
    <3>3. alive /\ Has(run.tip) \subseteq tree
      BY <1>6, <2>1, <3>1, <3>2 DEF Followed, Undone, TreeFollows, InWorktree
    <3>4. CASE Followed
      <4>1. Has(run.mid) \subseteq tree' /\ branch' = run.mid
        BY <3>1, <3>3, <3>4 DEF Followed, readTree
      <4> QED BY <1>1, <3>1, <4>1
    <3>5. CASE Undone
      BY <1>1, <3>1, <3>3, <3>5 DEF Undone
    <3> QED BY <3>2, <3>4, <3>5
  <2>2. CASE ~WorktreeApart
    <3>1. branch' # None
      BY <1>6, GroundedStep DEF Grounded
    <3>2. InWorktree => Has(branch) \subseteq tree
      BY <2>2 DEF TreeFollows
    <3>3. CASE Still \/ OperatorCommits \/ AgentEdits \/ MakesMerge \/ HasLanded
      <4>1. UNCHANGED <<branch, away>> /\ (alive' => alive) /\ tree \subseteq tree'
        BY <3>3 DEF Still, OperatorCommits, AgentEdits, MakesMerge, HasLanded, worktree
      <4> QED BY <1>1, <1>6, <3>1, <3>2, <4>1 DEF InWorktree
    <3>4. CASE AgentSwitches
      BY <1>1, <1>6, <3>1, <3>4 DEF AgentSwitches
    <3>5. CASE AgentCommits
      <4>1. /\ {branch} \in SUBSET Commits /\ commitTree({branch}, tree)
            /\ branch' = New /\ tree' = tree
        BY <1>1, <3>5 DEF AgentCommits, Works
      <4>2. log'[New].has = tree
        BY <1>1, <4>1, NewTree
      <4> QED BY <4>1, <4>2
    <3>6. CASE Rebased
      <4>1. PICK files : files = threeWay(branch, run.base)
        OBVIOUS
      <4>2. branch \in Commits /\ run.base \in Commits /\ tree' = files
        BY <3>6, <4>1, Refs DEF Rebased, OnBase, Fresh
      <4>3. {run.base} \in SUBSET Commits /\ files \in SUBSET Changes
        BY <1>1, <4>1, <4>2, TreesAreChanges
      <4>4. \/ files = Has(run.base) /\ branch' = run.base
            \/ branch' = New /\ commitTree({run.base}, files)
        BY <3>6, <4>2 DEF Rebased
      <4>5. commitTree({run.base}, files) => log'[New].has = files
        BY <1>1, <4>3, NewTree
      <4> QED BY <1>1, <4>2, <4>4, <4>5
    <3>7. ~Swapped
      <4>1. SUFFICES ASSUME Swapped PROVE FALSE
        OBVIOUS
      <4>2. run.pc = "swap" /\ ~run.follow /\ ~away
        BY <1>6, <4>1 DEF Swapped, WorktreeApart
      <4> QED BY <4>2 DEF TreeFollows
    <3>8. ~Followed /\ ~Undone
      BY <2>2 DEF Followed, Undone, WorktreeApart
    <3>9. ~Removed
      BY <1>6 DEF Removed, Inv, Told
    <3> QED BY <3>3, <3>4, <3>5, <3>6, <3>7, <3>8, <3>9, FilesMove, Refs
  <2> QED BY <2>1, <2>2
<1>7. run'.pc \in {"follow", "undo"} => branch' = run'.mid /\ ~away'
  BY <1>4 DEF WorktreeApart
<1> QED BY <1>3, <1>5, <1>6, <1>7 DEF TreeFollows, InWorktree, WorktreeApart, Has

LEMMA FilesInit == Init => FilesInv
<1> SUFFICES ASSUME Init PROVE FilesInv
  OBVIOUS
<1>1. /\ Commits = {Root} /\ Past(Root) = {Root} /\ Has(Root) = {} /\ None # Root
  BY DEF Init, Commits, Past, Has, Root, None
<1>2. /\ run.pc = "idle" /\ run.base = None /\ run.tip = None /\ run.mid = None /\ run.pin = None
      /\ target = Root /\ branch = Root /\ index = {} /\ tree = {} /\ head = "target"
  BY DEF Init, Idle
<1>3. Rooted /\ Grounded
  BY <1>1, <1>2 DEF Rooted, Grounded
<1>4. Carried
  BY <1>1, <1>2 DEF Carried, BranchCarries, OriginCarries, TreeCarries, MergeCarries,
     PinCarries, Moving, After
<1>5. Sounds
  BY <1>1, <1>2 DEF Sounds, InUse, Sound
<1>6. Foreign
  BY <1>1, <1>2 DEF Foreign, OnBase, Fresh, Moving, Pinned
<1>7. MainFollows /\ TreeFollows
  BY <1>1, <1>2 DEF MainFollows, TreeFollows, InPlace, MainApart, WorktreeApart, Tip
<1> QED BY <1>3, <1>4, <1>5, <1>6, <1>7 DEF FilesInv

LEMMA FilesStep == Inv /\ FilesInv /\ [Next]_vars => FilesInv'
<1> SUFFICES ASSUME Inv, FilesInv, [Next]_vars PROVE FilesInv'
  OBVIOUS
<1>1. Rooted' /\ Grounded' /\ Carried'
  BY RootedStep, GroundedStep, CarriedStep DEF FilesInv
<1>2. ASSUME ~torn' PROVE Sounds' /\ Foreign' /\ MainFollows' /\ TreeFollows'
  <2>1. ~torn
    BY <1>2, TornMoves, Refs DEF Inv, TypeOK
  <2> QED BY <1>2, <2>1, SoundsStep, ForeignStep, MainFollowsStep, TreeFollowsStep DEF FilesInv
<1> QED BY <1>1, <1>2 DEF FilesInv

LEMMA FilesHold == Spec => []FilesInv
<1>1. Inv /\ FilesInv /\ [Next]_vars => FilesInv'
  BY FilesStep
<1> QED BY <1>1, FilesInit, InvHolds, PTL DEF Spec

\* mergeTargetInto, fastForward, removeWorktree: no commit of the session's, no
\* file of the target's and no checkout's is lost, whatever the gate, the session
\* and the operator do meanwhile, crashes included.
THEOREM WorkIsKeptHolds == Spec => []WorkIsKept
<1>1. Inv /\ FilesInv => WorkIsKept
  <2> SUFFICES ASSUME Inv, FilesInv PROVE WorkIsKept
    OBVIOUS
  <2>1. NothingCommittedIsLost
    <3> SUFFICES ASSUME NEW c \in Commits, NEW x \in Mine, x \in Has(c)
                 PROVE  \E d \in Reached : x \in Has(d)
      BY DEF NothingCommittedIsLost
    <3>1. ASSUME NEW d \in {target, branch, remote} \ {None}, x \in Held(d)
          PROVE  \E e \in Reached : x \in Has(e)
      BY <3>1 DEF Held, Reached
    <3>2. target # None /\ (branch # None => Has(branch) \subseteq Held(branch))
      BY Refs DEF Held
    <3>3. CASE branch # None
      <4>1. x \in Held(branch) \/ x \in Held(target)
        BY <3>2, <3>3 DEF FilesInv, Carried, BranchCarries, Kept
      <4> QED BY <3>1, <3>2, <3>3, <4>1
    <3>4. CASE branch = None
      <4>1. x \in Held(target) \/ (remote # None /\ x \in Held(remote))
        BY <3>4 DEF FilesInv, Carried, OriginCarries, Kept
      <4> QED BY <3>1, <3>2, <4>1
    <3> QED BY <3>3, <3>4
  <2>2. TargetKeepsItsWork
    BY Refs DEF FilesInv, Sounds, InUse, Sound, TargetKeepsItsWork
  <2>3. CheckoutsFollowRefs
    BY DEF FilesInv, MainFollows, TreeFollows, CheckoutsFollowRefs, InWorktree
  <2> QED BY <2>1, <2>2, <2>3 DEF WorkIsKept
<1> QED BY <1>1, InvHolds, FilesHold, PTL
=============================================================================
