------------------------- MODULE PullRequestProofs -------------------------
(***************************************************************************)
(* What holds in every behaviour of PullRequest, for any number of          *)
(* commands, commits, pull requests, rejections and crashes.                *)
(***************************************************************************)
EXTENDS PullRequest, TLAPS

\* The steps a command is in while the merge lock is its own.
Gating == GateSteps \ {"gatelock"}
Holding == {"restore", "edge", "land"} \cup Gating

LockHeld == \A c \in Cmds : lock = c <=> pc[c] \in Holding

\* What is gone from the branch and the open pull request, and is kept for good.
Kept == origin \cup discarded
        \cup UNION {pulls[i].head : i \in {j \in DOMAIN pulls : pulls[j].state # "OPEN"}}

\* The newest merge event is there, and each names a pin that was measured on a
\* pull request there is.
IsNewest(events, i) ==
    /\ events[i].type # "fix_round"
    /\ \A j \in DOMAIN events : j > i => events[j].type = "fix_round"
LogNames ==
    /\ \E i \in DOMAIN log : IsNewest(log, i)
    /\ \A i \in DOMAIN log : log[i].type # "fix_round" =>
          log[i].pin \in measured /\ log[i].pr \in DOMAIN pulls

\* Only a round takes the session out of merged, and no round follows a landing;
\* a round counts its own rejections from the base its event holds.
RowStands ==
    /\ hasLanded => state = "merged"
    /\ ~inRound => state = "merged"
    /\ inRound => rejects - Last(log).base = failed

\* An open pull request shows the branch on origin; without one, what pup pushed
\* is on the branch still, or kept.
PushedIsKept ==
    /\ \A i \in DOMAIN pulls : pulls[i].state = "OPEN" => pulls[i].head = remote
    /\ pushed \subseteq remote
    /\ openPull = 0 => pushed \subseteq branch \cup Kept

\* A fix round, once it holds the lock, is about the merge that stands.
FixSound(c) ==
    /\ pc[c] \in {"review", "fixlock", "asks", "landlock", "land"} =>
          my[c].pr \in DOMAIN pulls /\ my[c].pin \in measured
    /\ pc[c] \in {"restore", "edge"} => ~hasLanded /\ newestMerge.pin = my[c].pin
    /\ pc[c] = "edge" => my[c].pin \subseteq branch /\ (worktree \/ loose)

\* A landing is about a pull request that was merged at the pin.
LandSound(c) ==
    /\ pc[c] \in {"landlock", "land"} =>
          pulls[my[c].pr].state = "MERGED" /\ pulls[my[c].pr].head = my[c].pin
    /\ pc[c] = "land" => state = "merged" /\ ~hasLanded

\* A plan whose mark the row still bears was made of the log as it stands; when it
\* adopts nothing, nothing pup pushed was lost since.
PlanSound(c) ==
    pc[c] = "gatelock" =>
        /\ my[c].from \in {"merged", "awaiting-review"} /\ my[c].from = my[c].mark[1]
        /\ my[c].pr \in 0 .. Len(pulls) /\ (Regates(c) => my[c].pr > 0)
        /\ my[c].mark[3] <= Len(log)
        /\ my[c].mark[3] = Len(log) =>
              /\ ~hasLanded
              /\ my[c].pr = 0 /\ state # "merged" => pushed \subseteq branch \cup Kept

\* A gate runs on a session that has not landed; a re-gate finds it merged.
GateRow(c) ==
    pc[c] \in Gating =>
        /\ ~hasLanded
        /\ my[c].from \in {"merged", "awaiting-review"}
        /\ my[c].pr \in 0 .. Len(pulls) /\ (Regates(c) => my[c].pr > 0)
        /\ Regates(c) => state = "merged" /\ pc[c] \in {"pin", "stages", "verify", "event"}
        /\ pc[c] \in {"close", "teardown", "event"} => state = "merged"

\* Its pin is on the branch until it is pushed, and on its pull request from the
\* verification on; it overwrites nothing that is not kept elsewhere.
GatePin(c) ==
    /\ pc[c] \in {"push", "pr", "verify", "record", "close", "teardown", "event"} =>
          my[c].pin \in measured
    /\ pc[c] \in {"verify", "record", "close", "teardown", "event"} => my[c].pr > 0
    /\ pc[c] \in {"stages", "push"} /\ ~Regates(c) => my[c].pin \subseteq branch
    /\ pc[c] = "pin" /\ my[c].pr = 0 => pushed \subseteq branch \cup Kept
    /\ pc[c] \in {"stages", "push"} /\ my[c].pr = 0 => pushed \subseteq my[c].pin \cup Kept
    /\ pc[c] \in {"pr", "verify", "record", "close", "teardown"} /\ ~Regates(c) =>
          pushed = my[c].pin
    /\ pc[c] \in {"record", "close", "teardown"} => my[c].pin \subseteq pulls[my[c].pr].head

\* Who opened a window of a merged session is about to see the row, or close it.
WindowIsSeen ==
    state = "merged" /\ window > 0 /\ ~loose =>
        \E c \in Cmds : pc[c] \in {"store", "drop", "close"}

\* What the session's record, its branch and its pull requests say.
Shared == LogNames /\ RowStands /\ PushedIsKept /\ CommitsAreKept /\ LandsOnlyMeasured
Sound(c) == FixSound(c) /\ LandSound(c) /\ PlanSound(c) /\ GateRow(c) /\ GatePin(c)

PRInv == TypeOK /\ LockHeld /\ Shared /\ WindowIsSeen /\ \A c \in Cmds : Sound(c)

-----------------------------------------------------------------------------
(* The log and the pull requests, as they are read.                         *)

\* The newest merge event is the one no other follows.
LEMMA NewestIs ==
    ASSUME NEW events \in Seq(Event), NEW i \in DOMAIN events, IsNewest(events, i)
    PROVE  Newest(events) = events[i]
<1> DEFINE P(k) == k \in DOMAIN events /\ IsNewest(events, k)
<1>1. \A k : P(k) => k = i
      BY DEF IsNewest
<1>2. P(i)
      OBVIOUS
<1>3. Newest(events) = events[CHOOSE k \in DOMAIN events : IsNewest(events, k)]
      BY DEF Newest, IsNewest
<1>4. QED BY <1>1, <1>2, <1>3

\* What an appended event does to the newest merge.
LEMMA NewestAfter ==
    ASSUME NEW events \in Seq(Event), NEW e \in Event,
           \E i \in DOMAIN events : IsNewest(events, i)
    PROVE  LET after == Append(events, e)
           IN  /\ \E i \in DOMAIN after : IsNewest(after, i)
               /\ e.type # "fix_round" => Newest(after) = e
               /\ e.type = "fix_round" => Newest(after) = Newest(events)
<1> DEFINE after == Append(events, e)
           n == Len(events) + 1
<1>1. /\ after \in Seq(Event) /\ Len(after) = n /\ DOMAIN after = 1 .. n
      /\ after[n] = e /\ \A j \in DOMAIN events : after[j] = events[j]
      /\ DOMAIN events = 1 .. Len(events) /\ Len(events) \in Nat
      OBVIOUS
<1> HIDE DEF after
<1>2. CASE e.type # "fix_round"
  <2>1. n \in DOMAIN after /\ IsNewest(after, n)
        BY <1>1, <1>2 DEF IsNewest
  <2>2. QED BY <1>1, <1>2, <2>1, NewestIs DEF after
<1>3. CASE e.type = "fix_round"
  <2>1. PICK i \in DOMAIN events : IsNewest(events, i)
        OBVIOUS
  <2>2. i \in DOMAIN after /\ IsNewest(after, i)
        BY <1>1, <1>3, <2>1 DEF IsNewest
  <2>3. QED BY <1>1, <1>3, <2>1, <2>2, NewestIs DEF after
<1>4. QED BY <1>2, <1>3

\* The open pull request, when there is one.
LEMMA FirstOpenIs ==
    ASSUME NEW listed \in Seq(Pull)
    PROVE  /\ FirstOpen(listed) \in 0 .. Len(listed)
           /\ FirstOpen(listed) > 0 => /\ FirstOpen(listed) \in DOMAIN listed
                                       /\ listed[FirstOpen(listed)].state = "OPEN"
           /\ FirstOpen(listed) = 0 => \A i \in DOMAIN listed : listed[i].state # "OPEN"
<1>1. DOMAIN listed = 1 .. Len(listed) /\ Len(listed) \in Nat
      OBVIOUS
<1>2. CASE \E i \in DOMAIN listed : listed[i].state = "OPEN"
      BY <1>1, <1>2 DEF FirstOpen
<1>3. CASE ~\E i \in DOMAIN listed : listed[i].state = "OPEN"
      BY <1>1, <1>3 DEF FirstOpen
<1>4. QED BY <1>2, <1>3

-----------------------------------------------------------------------------
(* What a step of one command, or of the world, leaves to the others.       *)

\* Nothing that was measured, merged or kept is ever taken back.
Grows ==
    /\ Len(pulls) <= Len(pulls') /\ measured \subseteq measured' /\ Kept \subseteq Kept'
    /\ loose => loose'
    /\ \A i \in DOMAIN pulls : pulls[i].state = "MERGED" =>
          pulls'[i].state = "MERGED" /\ pulls'[i].head = pulls[i].head
    /\ log' = log \/ Len(log') > Len(log)
    /\ Len(log') > Len(log) \/ (state = "merged" => state' = "merged")
    /\ state # "merged" /\ pushed \subseteq branch \cup Kept => pushed' \subseteq branch' \cup Kept'

\* A command that does not move keeps its place, and what the lock keeps for it.
Spares(d) ==
    /\ pc'[d] = pc[d] /\ my'[d] = my[d]
    /\ lock = d => /\ log' = log /\ pushed' = pushed /\ branch \subseteq branch'
                   /\ \A i \in DOMAIN pulls : pulls[i].head \subseteq pulls'[i].head
    /\ pc[d] = "edge" /\ worktree => worktree' \/ loose'

\* A frame, field by field.
LEMMA FrameTyped ==
    ASSUME TypeOK, NEW d \in Cmds
    PROVE  /\ my[d] \in Frame /\ my[d].pin \in Tips /\ my[d].pr \in Nat
           /\ my[d].round \in Nat /\ my[d].from \in SessionState
           /\ my[d].mark[3] \in Nat
<1>1. my[d] \in Frame
      BY DEF TypeOK
<1>2. my[d].mark \in SessionState \X Nat \X Nat
      BY <1>1 DEF Frame
<1>3. my[d].mark[3] \in Nat
      BY <1>2
<1>4. QED BY <1>1, <1>3, BoundsAssumption DEF Frame

\* What a command knew is so still when another one, or the world, has moved.
LEMMA SparedIsSound ==
    ASSUME TypeOK, TypeOK', LockHeld, Grows, NEW d \in Cmds, Sound(d), Spares(d)
    PROVE  Sound(d)'
<1>1. /\ DOMAIN pulls = 1 .. Len(pulls) /\ DOMAIN pulls' = 1 .. Len(pulls')
      /\ Len(pulls) \in Nat /\ Len(pulls') \in Nat /\ Len(pulls) <= Len(pulls')
      /\ Len(log) \in Nat /\ Len(log') \in Nat
  <2>1. pulls \in Seq(Pull) /\ pulls' \in Seq(Pull) /\ log \in Seq(Event) /\ log' \in Seq(Event)
        BY DEF TypeOK
  <2>2. Len(pulls) <= Len(pulls')
        BY DEF Grows
  <2>3. QED BY ONLY <2>1, <2>2
<1>2. my[d].pr \in Nat /\ my[d].mark[3] \in Nat
      BY FrameTyped
<1>3. /\ pc'[d] = pc[d] /\ my'[d] = my[d] /\ (Regates(d)' <=> Regates(d))
      /\ lock = d <=> pc[d] \in Holding
      BY DEF Spares, LockHeld, Regates
<1>4. log' = log => newestMerge' = newestMerge /\ (hasLanded' <=> hasLanded)
      BY DEF newestMerge, hasLanded
<1>5. FixSound(d)'
      BY <1>1, <1>2, <1>3, <1>4 DEF Sound, FixSound, Spares, Grows, Holding
<1>6. LandSound(d)'
      BY <1>1, <1>2, <1>3, <1>4 DEF Sound, FixSound, LandSound, Spares, Grows, Holding
<1>7. PlanSound(d)'
      BY <1>1, <1>2, <1>3, <1>4 DEF Sound, PlanSound, Grows
<1>8. GateRow(d)'
      BY <1>1, <1>2, <1>3, <1>4 DEF Sound, GateRow, Spares, Grows, Holding
<1>9. GatePin(d)'
  <2>1. pc[d] \in {"verify", "record", "close", "teardown", "event"} => my[d].pr \in DOMAIN pulls
        BY <1>1, <1>2 DEF Sound, GateRow, GatePin, Gating, GateSteps
  <2>2. pc[d] \in Gating => lock = d
        BY <1>3 DEF Holding
  <2>3. QED BY <1>1, <1>3, <2>1, <2>2 DEF Sound, GatePin, Spares, Grows, Gating, GateSteps
<1>10. QED BY <1>5, <1>6, <1>7, <1>8, <1>9 DEF Sound

\* A step that leaves the session's record, git and GitHub as they are.
Quiet ==
    /\ UNCHANGED <<state, rejects, log, git, github, fresh, failed, discarded>>
    /\ measured \subseteq measured' /\ (loose => loose')

\* A step that leaves the log, the branch and GitHub as they are.
Still ==
    /\ UNCHANGED <<log, branch, pushed, github, fresh, discarded>>
    /\ measured \subseteq measured' /\ (loose => loose')
    /\ state = "merged" => state' = "merged"

LEMMA StillIsShared ==
    ASSUME PRInv, Still, RowStands'
    PROVE  Shared' /\ Grows
<1>1. openPull' = openPull /\ Kept' = Kept
      BY DEF Still, openPull, Kept, github
<1>2. LogNames'
      BY DEF PRInv, Shared, LogNames, Still, IsNewest, github
<1>3. PushedIsKept'
      BY <1>1 DEF PRInv, Shared, PushedIsKept, Still, github
<1>4. CommitsAreKept' /\ LandsOnlyMeasured'
      BY DEF PRInv, Shared, CommitsAreKept, LandsOnlyMeasured, Still, github
<1>5. Grows
      BY <1>1 DEF PRInv, TypeOK, Grows, Still, github
<1>6. QED BY <1>2, <1>3, <1>4, <1>5 DEF Shared

LEMMA QuietIsShared ==
    ASSUME PRInv, Quiet
    PROVE  Shared' /\ Grows
<1>1. Still
      BY DEF Quiet, Still, git
<1>2. hasLanded' = hasLanded /\ inRound' = inRound
      BY DEF Quiet, hasLanded, newestMerge, inRound
<1>3. RowStands'
      BY <1>2 DEF PRInv, Shared, RowStands, Quiet
<1>4. QED BY <1>1, <1>3, StillIsShared

\* The merge that stands is about a pull request there is, at a measured pin.
LEMMA NewestNames ==
    ASSUME TypeOK, LogNames
    PROVE  /\ newestMerge.pr \in DOMAIN pulls /\ newestMerge.pr \in 1 .. MaxPulls
           /\ newestMerge.pin \in measured /\ newestMerge.pin \in Tips
<1>1. PICK i \in DOMAIN log : IsNewest(log, i)
      BY DEF LogNames
<1>2. newestMerge = log[i]
      BY <1>1, NewestIs DEF newestMerge, TypeOK
<1>3. log[i] \in Event /\ log[i].type # "fix_round"
      BY <1>1 DEF TypeOK, IsNewest
<1>4. log[i].pr \in 1 .. MaxPulls /\ log[i].pin \in Tips
      BY <1>3 DEF Event
<1>5. QED BY <1>1, <1>2, <1>4 DEF LogNames, IsNewest

\* A command's own step, when it leaves the rest to the others.
LEMMA OneMoves ==
    ASSUME PRInv, NEW c \in Cmds, TypeOK', LockHeld', Shared', WindowIsSeen', Sound(c)',
           Grows, \A d \in Cmds \ {c} : Spares(d)
    PROVE  PRInv'
<1>1. \A d \in Cmds \ {c} : Sound(d)'
      BY SparedIsSound DEF PRInv
<1>2. QED BY <1>1 DEF PRInv

\* The frames a command begins with, and the one it ends with.
LEMMA BlankTyped == Blank \in Frame /\ \A pin \in Tips, pr \in 0 .. MaxPulls :
                       [Blank EXCEPT !.pin = pin, !.pr = pr] \in Frame
<1>1. Blank.mark \in SessionState \X Nat \X Nat
      BY DEF Blank, SessionState
<1>2. Blank.pin \in Tips /\ Blank.head \in Tips /\ Blank.pr \in 0 .. MaxPulls
      BY BoundsAssumption DEF Blank, Tips
<1>3. QED BY <1>1, <1>2 DEF Blank, Frame, SessionState

PlanFrame(pr, mark, from, head) ==
    [Blank EXCEPT !.pr = pr, !.mark = mark, !.from = from, !.head = head]

LEMMA PlanFrameTyped ==
    ASSUME NEW pr \in 0 .. MaxPulls, NEW mark \in SessionState \X Nat \X Nat,
           NEW from \in SessionState, NEW head \in Tips
    PROVE  LET f == PlanFrame(pr, mark, from, head)
           IN  f \in Frame /\ f.pr = pr /\ f.mark = mark /\ f.from = from
BY BlankTyped DEF PlanFrame, Blank, Frame

\* A frame stays one as its fields are read anew.
LEMMA FrameExcept ==
    \A f \in Frame :
        /\ \A st \in SessionState : [f EXCEPT !.from = st] \in Frame
        /\ \A n \in Nat : [f EXCEPT !.round = n] \in Frame
        /\ \A tip \in Tips : [f EXCEPT !.pin = tip] \in Frame
        /\ \A pr \in 0 .. MaxPulls : [f EXCEPT !.pr = pr] \in Frame
BY DEF Frame

\* The base of the round that goes on is a count.
LEMMA BaseTyped == ASSUME TypeOK, LogNames, inRound PROVE rejectBase \in Nat /\ rejectBase = Last(log).base
<1>1. Len(log) \in DOMAIN log
      BY DEF TypeOK, LogNames
<1>2. Last(log) \in Event
      BY <1>1 DEF TypeOK, Last
<1>3. QED BY <1>2 DEF Event, inRound, rejectBase

\* A mark is a state and two counts.
LEMMA MarkTyped == TypeOK => /\ sessionMark \in SessionState \X Nat \X Nat
                             /\ sessionMark[1] = state /\ sessionMark[3] = Len(log)
                             /\ Len(log) \in Nat
BY DEF TypeOK, sessionMark

\* What is kept is so still when no pull request, no merge and no drop changed it.
LEMMA KeptStays == UNCHANGED <<origin, discarded, pulls>> => Kept' = Kept
BY DEF Kept

\* The log is read as before when nothing was appended.
LEMMA LogIsRead ==
    log' = log => /\ newestMerge' = newestMerge /\ hasLanded' = hasLanded
                  /\ inRound' = inRound
BY DEF newestMerge, hasLanded, inRound

-----------------------------------------------------------------------------
(* `pup fix`.                                                               *)

LEMMA FixReadsStep == ASSUME PRInv, NEW c \in Cmds, FixReads(c) PROVE PRInv'
<1> USE DEF FixReads, Begin, row, git, github, history
<1>1. TypeOK'
  <2>1. [Blank EXCEPT !.pin = newestMerge.pin, !.pr = newestMerge.pr] \in Frame
    <3>1. newestMerge.pin \in Tips /\ newestMerge.pr \in 0 .. MaxPulls
          BY NewestNames, BoundsAssumption DEF PRInv, Shared
    <3>2. QED BY <3>1, BlankTyped
  <2>2. QED BY <2>1, BoundsAssumption DEF PRInv, TypeOK, Steps, FixSteps, At
<1>2. LockHeld'
      BY DEF PRInv, TypeOK, LockHeld, Holding, Gating, GateSteps, At
<1>3. WindowIsSeen'
      BY DEF PRInv, TypeOK, WindowIsSeen, At
<1>4. Sound(c)'
      BY NewestNames DEF PRInv, Shared, TypeOK, At, Sound, FixSound, LandSound, PlanSound, GateRow,
         GatePin, Gating, GateSteps, Blank
<1>5. Quiet /\ \A d \in Cmds \ {c} : Spares(d)
      BY DEF PRInv, TypeOK, LockHeld, Quiet, Spares, At
<1>6. QED BY <1>1, <1>2, <1>3, <1>4, <1>5, QuietIsShared, OneMoves

LEMMA FixReviewStep == ASSUME PRInv, NEW c \in Cmds, FixReview(c) PROVE PRInv'
<1> USE DEF FixReview, Goto, End, row, git, github, history, bounds
<1>1. TypeOK'
      BY BlankTyped, BoundsAssumption DEF PRInv, TypeOK, Steps, FixSteps, At
<1>2. LockHeld'
      BY NoOneAssumption DEF PRInv, TypeOK, LockHeld, Holding, Gating, GateSteps, At
<1>3. WindowIsSeen'
      BY DEF PRInv, TypeOK, WindowIsSeen, At
<1>4. Sound(c)'
      BY NoOneAssumption DEF PRInv, TypeOK, At, Sound, FixSound, LandSound, PlanSound, GateRow,
         GatePin, Gating, GateSteps
<1>5. Quiet /\ \A d \in Cmds \ {c} : Spares(d)
      BY NoOneAssumption DEF PRInv, TypeOK, LockHeld, Quiet, Spares, At
<1>6. QED BY <1>1, <1>2, <1>3, <1>4, <1>5, QuietIsShared, OneMoves

LEMMA FixLocksStep == ASSUME PRInv, NEW c \in Cmds, FixLocks(c) PROVE PRInv'
<1> USE DEF FixLocks, Goto, End, Busy, TakesLock, assertStillPinned, row, git, github, history, bounds
<1>1. TypeOK'
      BY BlankTyped, BoundsAssumption DEF PRInv, TypeOK, Steps, FixSteps, At
<1>2. LockHeld'
      BY NoOneAssumption DEF PRInv, TypeOK, LockHeld, Holding, Gating, GateSteps, At
<1>3. WindowIsSeen'
      BY DEF PRInv, TypeOK, WindowIsSeen, At
<1>4. Sound(c)'
      BY NoOneAssumption, LogIsRead DEF PRInv, TypeOK, At, Sound, FixSound, LandSound, PlanSound, GateRow,
         GatePin, Gating, GateSteps
<1>5. Quiet /\ \A d \in Cmds \ {c} : Spares(d)
      BY NoOneAssumption DEF PRInv, TypeOK, LockHeld, Quiet, Spares, At
<1>6. QED BY <1>1, <1>2, <1>3, <1>4, <1>5, QuietIsShared, OneMoves

LEMMA KillOldWindowStep == ASSUME PRInv, NEW c \in Cmds, KillOldWindow(c) PROVE PRInv'
<1> USE DEF KillOldWindow, Goto, row, git, github, history, bounds
<1>1. TypeOK'
      BY BoundsAssumption DEF PRInv, TypeOK, Steps, FixSteps, At
<1>2. LockHeld'
      BY NoOneAssumption DEF PRInv, TypeOK, LockHeld, Holding, Gating, GateSteps, At
<1>3. WindowIsSeen'
      BY DEF PRInv, TypeOK, WindowIsSeen, At
<1>4. Sound(c)'
      BY NoOneAssumption DEF PRInv, TypeOK, At, Sound, FixSound, LandSound, PlanSound, GateRow,
         GatePin, Gating, GateSteps
<1>5. Quiet /\ \A d \in Cmds \ {c} : Spares(d)
      BY NoOneAssumption DEF PRInv, TypeOK, LockHeld, Quiet, Spares, At
<1>6. QED BY <1>1, <1>2, <1>3, <1>4, <1>5, QuietIsShared, OneMoves

LEMMA OpenWindowStep == ASSUME PRInv, NEW c \in Cmds, OpenWindow(c) PROVE PRInv'
<1> USE DEF OpenWindow, Goto, row, git, github, history, bounds
<1>1. TypeOK'
      BY FrameTyped, BoundsAssumption DEF PRInv, TypeOK, Steps, FixSteps, At
<1>2. LockHeld'
      BY NoOneAssumption DEF PRInv, TypeOK, LockHeld, Holding, Gating, GateSteps, At
<1>3. WindowIsSeen'
      BY DEF PRInv, TypeOK, WindowIsSeen, At
<1>4. Sound(c)'
      BY NoOneAssumption DEF PRInv, TypeOK, At, Sound, FixSound, LandSound, PlanSound, GateRow,
         GatePin, Gating, GateSteps
<1>5. Quiet /\ \A d \in Cmds \ {c} : Spares(d)
      BY NoOneAssumption DEF PRInv, TypeOK, LockHeld, Quiet, Spares, At
<1>6. QED BY <1>1, <1>2, <1>3, <1>4, <1>5, QuietIsShared, OneMoves

LEMMA StorePaneStep == ASSUME PRInv, NEW c \in Cmds, StorePane(c) PROVE PRInv'
<1> USE DEF StorePane, Goto, row, git, github, history, bounds
<1>1. TypeOK'
      BY FrameTyped, BoundsAssumption DEF PRInv, TypeOK, Steps, FixSteps, At
<1>2. LockHeld'
      BY NoOneAssumption DEF PRInv, TypeOK, LockHeld, Holding, Gating, GateSteps, At
<1>3. WindowIsSeen'
      BY DEF PRInv, TypeOK, WindowIsSeen, At
<1>4. Sound(c)'
      BY NoOneAssumption DEF PRInv, TypeOK, At, Sound, FixSound, LandSound, PlanSound, GateRow,
         GatePin, Gating, GateSteps
<1>5. Quiet /\ \A d \in Cmds \ {c} : Spares(d)
      BY NoOneAssumption DEF PRInv, TypeOK, LockHeld, Quiet, Spares, At
<1>6. QED BY <1>1, <1>2, <1>3, <1>4, <1>5, QuietIsShared, OneMoves

LEMMA DropWindowStep == ASSUME PRInv, NEW c \in Cmds, DropWindow(c) PROVE PRInv'
<1> USE DEF DropWindow, End, row, git, github, history, bounds
<1>1. TypeOK'
      BY BlankTyped, BoundsAssumption DEF PRInv, TypeOK, Steps, FixSteps, At
<1>2. LockHeld'
      BY NoOneAssumption DEF PRInv, TypeOK, LockHeld, Holding, Gating, GateSteps, At
<1>3. WindowIsSeen'
      BY DEF PRInv, TypeOK, WindowIsSeen, At
<1>4. Sound(c)'
      BY NoOneAssumption DEF PRInv, TypeOK, At, Sound, FixSound, LandSound, PlanSound, GateRow,
         GatePin, Gating, GateSteps
<1>5. Quiet /\ \A d \in Cmds \ {c} : Spares(d)
      BY NoOneAssumption DEF PRInv, TypeOK, LockHeld, Quiet, Spares, At
<1>6. QED BY <1>1, <1>2, <1>3, <1>4, <1>5, QuietIsShared, OneMoves

LEMMA KickoffStep == ASSUME PRInv, NEW c \in Cmds, Kickoff(c) PROVE PRInv'
<1> USE DEF Kickoff, Goto, End, row, git, github, history, bounds
<1>1. TypeOK'
      BY BlankTyped, BoundsAssumption DEF PRInv, TypeOK, Steps, FixSteps, At
<1>2. LockHeld'
      BY NoOneAssumption DEF PRInv, TypeOK, LockHeld, Holding, Gating, GateSteps, At
<1>3. WindowIsSeen'
      BY DEF PRInv, TypeOK, WindowIsSeen, At
<1>4. Sound(c)'
      BY NoOneAssumption DEF PRInv, TypeOK, At, Sound, FixSound, LandSound, PlanSound, GateRow,
         GatePin, Gating, GateSteps
<1>5. Quiet /\ \A d \in Cmds \ {c} : Spares(d)
      BY NoOneAssumption DEF PRInv, TypeOK, LockHeld, Quiet, Spares, At
<1>6. QED BY <1>1, <1>2, <1>3, <1>4, <1>5, QuietIsShared, OneMoves

LEMMA JudgeStep == ASSUME PRInv, NEW c \in Cmds, Judge(c) PROVE PRInv'
<1> USE DEF Judge, Then, End, row, git, github, history, bounds
<1>1. TypeOK'
  <2>1. [my[c] EXCEPT !.from = state] \in Frame
        BY FrameExcept, FrameTyped DEF PRInv, TypeOK
  <2>2. QED BY <2>1, BlankTyped, BoundsAssumption DEF PRInv, TypeOK, Steps, FixSteps, UndoSteps, At
<1>2. LockHeld'
      BY NoOneAssumption DEF PRInv, TypeOK, LockHeld, Holding, Gating, GateSteps, At
<1>3. WindowIsSeen'
      BY DEF PRInv, TypeOK, WindowIsSeen, At
<1>4. Sound(c)'
      BY NoOneAssumption DEF PRInv, TypeOK, At, Sound, FixSound, LandSound, PlanSound, GateRow,
         GatePin, Gating, GateSteps
<1>5. Quiet /\ \A d \in Cmds \ {c} : Spares(d)
      BY NoOneAssumption DEF PRInv, TypeOK, LockHeld, Quiet, Spares, At
<1>6. QED BY <1>1, <1>2, <1>3, <1>4, <1>5, QuietIsShared, OneMoves

-----------------------------------------------------------------------------
(* The quiet steps of `pup kill`, the gate and `pup land`, and their ends.   *)

LEMMA killSessionStep == ASSUME PRInv, NEW c \in Cmds, killSession(c) PROVE PRInv'
<1> USE DEF killSession, Begin, row, git, github, history, bounds
<1>1. TypeOK'
  <2>1. [Blank EXCEPT !.from = state, !.mark = sessionMark] \in Frame
    <3>1. state \in SessionState /\ sessionMark \in SessionState \X Nat \X Nat
          BY MarkTyped DEF PRInv, TypeOK
    <3>2. QED BY <3>1, BlankTyped DEF Frame
  <2>2. pc' \in [Cmds -> Steps] /\ my' \in [Cmds -> Frame]
        BY <2>1 DEF PRInv, TypeOK, Steps, UndoSteps
  <2>3. begun' \in 0 .. MaxBegun /\ crashes' \in 0 .. MaxCrashes
        BY BoundsAssumption DEF PRInv, TypeOK
  <2>4. /\ UNCHANGED <<state, pane, rejects, log, worktree, branch, pushed, tracking, window>>
        /\ UNCHANGED <<remote, origin, pulls, lock, fresh>>
        /\ UNCHANGED <<measured, abandoned, failed, discarded, loose>>
        OBVIOUS
  <2>5. TypeOK
        BY DEF PRInv
  <2>6. QED BY ONLY <2>2, <2>3, <2>4, <2>5 DEF TypeOK
<1>2. LockHeld'
      BY NoOneAssumption DEF PRInv, TypeOK, LockHeld, Holding, Gating, GateSteps, At
<1>3. WindowIsSeen'
      BY DEF PRInv, TypeOK, WindowIsSeen, At
<1>4. Sound(c)'
      BY NoOneAssumption DEF PRInv, TypeOK, At, Sound, FixSound, LandSound, PlanSound, GateRow,
         GatePin, Gating, GateSteps
<1>5. Quiet /\ \A d \in Cmds \ {c} : Spares(d)
      BY NoOneAssumption DEF PRInv, TypeOK, LockHeld, Quiet, Spares, At
<1>6. QED BY <1>1, <1>2, <1>3, <1>4, <1>5, QuietIsShared, OneMoves

LEMMA KillWindowStep == ASSUME PRInv, NEW c \in Cmds, KillWindow(c) PROVE PRInv'
<1> USE DEF KillWindow, Goto, row, git, github, history, bounds
<1>1. TypeOK'
      BY BoundsAssumption DEF PRInv, TypeOK, Steps, UndoSteps, At
<1>2. LockHeld'
      BY NoOneAssumption DEF PRInv, TypeOK, LockHeld, Holding, Gating, GateSteps, At
<1>3. WindowIsSeen'
      BY DEF PRInv, TypeOK, WindowIsSeen, At
<1>4. Sound(c)'
      BY NoOneAssumption DEF PRInv, TypeOK, At, Sound, FixSound, LandSound, PlanSound, GateRow,
         GatePin, Gating, GateSteps
<1>5. Quiet /\ \A d \in Cmds \ {c} : Spares(d)
      BY NoOneAssumption DEF PRInv, TypeOK, LockHeld, Quiet, Spares, At
<1>6. QED BY <1>1, <1>2, <1>3, <1>4, <1>5, QuietIsShared, OneMoves

LEMMA LandReadsStep == ASSUME PRInv, NEW c \in Cmds, LandReads(c) PROVE PRInv'
<1> USE DEF LandReads, Begin, row, git, github, history, bounds
<1>1. TypeOK'
  <2>1. [Blank EXCEPT !.pin = newestMerge.pin, !.pr = newestMerge.pr] \in Frame
    <3>1. newestMerge.pin \in Tips /\ newestMerge.pr \in 0 .. MaxPulls
          BY NewestNames, BoundsAssumption DEF PRInv, Shared
    <3>2. QED BY <3>1, BlankTyped
  <2>2. pc' \in [Cmds -> Steps] /\ my' \in [Cmds -> Frame]
        BY <2>1 DEF PRInv, TypeOK, Steps, LandSteps
  <2>3. begun' \in 0 .. MaxBegun /\ crashes' \in 0 .. MaxCrashes
        BY BoundsAssumption DEF PRInv, TypeOK
  <2>4. /\ UNCHANGED <<state, pane, rejects, log, worktree, branch, pushed, tracking, window>>
        /\ UNCHANGED <<remote, origin, pulls, lock, fresh>>
        /\ UNCHANGED <<measured, abandoned, failed, discarded, loose>>
        OBVIOUS
  <2>5. TypeOK
        BY DEF PRInv
  <2>6. QED BY ONLY <2>2, <2>3, <2>4, <2>5 DEF TypeOK
<1>2. LockHeld'
      BY NoOneAssumption DEF PRInv, TypeOK, LockHeld, Holding, Gating, GateSteps, At
<1>3. WindowIsSeen'
      BY DEF PRInv, TypeOK, WindowIsSeen, At
<1>4. Sound(c)'
      BY NewestNames, NoOneAssumption DEF PRInv, TypeOK, At, Shared, Blank, Sound, FixSound, LandSound, PlanSound, GateRow,
         GatePin, Gating, GateSteps
<1>5. Quiet /\ \A d \in Cmds \ {c} : Spares(d)
      BY NoOneAssumption DEF PRInv, TypeOK, LockHeld, Quiet, Spares, At
<1>6. QED BY <1>1, <1>2, <1>3, <1>4, <1>5, QuietIsShared, OneMoves

LEMMA LandAsksStep == ASSUME PRInv, NEW c \in Cmds, LandAsks(c) PROVE PRInv'
<1> USE DEF LandAsks, Goto, End, row, git, github, history, bounds
<1>1. TypeOK'
      BY BlankTyped, BoundsAssumption DEF PRInv, TypeOK, Steps, LandSteps, At
<1>2. LockHeld'
      BY NoOneAssumption DEF PRInv, TypeOK, LockHeld, Holding, Gating, GateSteps, At
<1>3. WindowIsSeen'
      BY DEF PRInv, TypeOK, WindowIsSeen, At
<1>4. Sound(c)'
      BY NoOneAssumption DEF PRInv, TypeOK, At, Sound, FixSound, LandSound, PlanSound, GateRow,
         GatePin, Gating, GateSteps
<1>5. Quiet /\ \A d \in Cmds \ {c} : Spares(d)
      BY NoOneAssumption DEF PRInv, TypeOK, LockHeld, Quiet, Spares, At
<1>6. QED BY <1>1, <1>2, <1>3, <1>4, <1>5, QuietIsShared, OneMoves

LEMMA LandLocksStep == ASSUME PRInv, NEW c \in Cmds, LandLocks(c) PROVE PRInv'
<1> USE DEF LandLocks, Goto, End, Busy, TakesLock, row, git, github, history, bounds
<1>1. TypeOK'
      BY BlankTyped, BoundsAssumption DEF PRInv, TypeOK, Steps, LandSteps, At
<1>2. LockHeld'
      BY NoOneAssumption DEF PRInv, TypeOK, LockHeld, Holding, Gating, GateSteps, At
<1>3. WindowIsSeen'
      BY DEF PRInv, TypeOK, WindowIsSeen, At
<1>4. Sound(c)'
      BY LogIsRead, NoOneAssumption DEF PRInv, TypeOK, At, Sound, FixSound, LandSound, PlanSound, GateRow,
         GatePin, Gating, GateSteps
<1>5. Quiet /\ \A d \in Cmds \ {c} : Spares(d)
      BY NoOneAssumption DEF PRInv, TypeOK, LockHeld, Quiet, Spares, At
<1>6. QED BY <1>1, <1>2, <1>3, <1>4, <1>5, QuietIsShared, OneMoves

LEMMA ThrowsStep == ASSUME PRInv, NEW c \in Cmds, Throws(c) PROVE PRInv'
<1> USE DEF Throws, End, row, git, github, history, bounds
<1>1. TypeOK'
      BY BlankTyped, BoundsAssumption DEF PRInv, TypeOK, Steps, At
<1>2. LockHeld'
      BY NoOneAssumption DEF PRInv, TypeOK, LockHeld, Holding, Gating, GateSteps, At
<1>3. WindowIsSeen'
      BY DEF PRInv, TypeOK, WindowIsSeen, At
<1>4. Sound(c)'
      BY NoOneAssumption DEF PRInv, TypeOK, At, Sound, FixSound, LandSound, PlanSound, GateRow,
         GatePin, Gating, GateSteps
<1>5. Quiet /\ \A d \in Cmds \ {c} : Spares(d)
      BY NoOneAssumption DEF PRInv, TypeOK, LockHeld, Quiet, Spares, At
<1>6. QED BY <1>1, <1>2, <1>3, <1>4, <1>5, QuietIsShared, OneMoves

LEMMA CrashStep == ASSUME PRInv, NEW c \in Cmds, Crash(c) PROVE PRInv'
<1> USE DEF Crash, End, row, git, github, history, bounds
<1>1. TypeOK'
  <2>1. crashes' \in 0 .. MaxCrashes
        BY BoundsAssumption DEF PRInv, TypeOK
  <2>2. QED BY <2>1, BlankTyped, BoundsAssumption DEF PRInv, TypeOK, Steps, At
<1>2. LockHeld'
      BY NoOneAssumption DEF PRInv, TypeOK, LockHeld, Holding, Gating, GateSteps, At
<1>3. WindowIsSeen'
      BY DEF PRInv, TypeOK, WindowIsSeen, At
<1>4. Sound(c)'
      BY NoOneAssumption DEF PRInv, TypeOK, At, Sound, FixSound, LandSound, PlanSound, GateRow,
         GatePin, Gating, GateSteps
<1>5. Quiet /\ \A d \in Cmds \ {c} : Spares(d)
      BY NoOneAssumption DEF PRInv, TypeOK, LockHeld, Quiet, Spares, At
<1>6. QED BY <1>1, <1>2, <1>3, <1>4, <1>5, QuietIsShared, OneMoves

LEMMA VerifyHeadStep == ASSUME PRInv, NEW c \in Cmds, VerifyHead(c) PROVE PRInv'
<1> USE DEF VerifyHead, Goto, Regates, row, git, github, history, bounds
<1>1. TypeOK'
      BY BoundsAssumption DEF PRInv, TypeOK, Steps, GateSteps, At
<1>2. LockHeld'
      BY NoOneAssumption DEF PRInv, TypeOK, LockHeld, Holding, Gating, GateSteps, At
<1>3. WindowIsSeen'
      BY DEF PRInv, TypeOK, WindowIsSeen, At
<1>4. Sound(c)'
      BY LogIsRead, FrameTyped, NoOneAssumption DEF PRInv, TypeOK, At, Sound, FixSound, LandSound, PlanSound, GateRow,
         GatePin, Gating, GateSteps
<1>5. Quiet /\ \A d \in Cmds \ {c} : Spares(d)
      BY NoOneAssumption DEF PRInv, TypeOK, LockHeld, Quiet, Spares, At
<1>6. QED BY <1>1, <1>2, <1>3, <1>4, <1>5, QuietIsShared, OneMoves

LEMMA CloseWindowStep == ASSUME PRInv, NEW c \in Cmds, CloseWindow(c) PROVE PRInv'
<1> USE DEF CloseWindow, Goto, Regates, row, git, github, history, bounds
<1>1. TypeOK'
      BY BoundsAssumption DEF PRInv, TypeOK, Steps, GateSteps, At
<1>2. LockHeld'
      BY NoOneAssumption DEF PRInv, TypeOK, LockHeld, Holding, Gating, GateSteps, At
<1>3. WindowIsSeen'
      BY DEF PRInv, TypeOK, WindowIsSeen, At
<1>4. Sound(c)'
      BY LogIsRead, FrameTyped, NoOneAssumption DEF PRInv, TypeOK, At, Sound, FixSound, LandSound, PlanSound, GateRow,
         GatePin, Gating, GateSteps
<1>5. Quiet /\ \A d \in Cmds \ {c} : Spares(d)
      BY NoOneAssumption DEF PRInv, TypeOK, LockHeld, Quiet, Spares, At
<1>6. QED BY <1>1, <1>2, <1>3, <1>4, <1>5, QuietIsShared, OneMoves

LEMMA SteerReportStep == ASSUME PRInv, NEW c \in Cmds, SteerReport(c) PROVE PRInv'
<1> USE DEF SteerReport, Goto, Regates, row, git, github, history, bounds
<1>1. TypeOK'
      BY BoundsAssumption DEF PRInv, TypeOK, Steps, GateSteps, At
<1>2. LockHeld'
      BY NoOneAssumption DEF PRInv, TypeOK, LockHeld, Holding, Gating, GateSteps, At
<1>3. WindowIsSeen'
      BY DEF PRInv, TypeOK, WindowIsSeen, At
<1>4. Sound(c)'
      BY LogIsRead, FrameTyped, NoOneAssumption DEF PRInv, TypeOK, At, Sound, FixSound, LandSound, PlanSound, GateRow,
         GatePin, Gating, GateSteps
<1>5. Quiet /\ \A d \in Cmds \ {c} : Spares(d)
      BY NoOneAssumption DEF PRInv, TypeOK, LockHeld, Quiet, Spares, At
<1>6. QED BY <1>1, <1>2, <1>3, <1>4, <1>5, QuietIsShared, OneMoves

LEMMA SettleStep == ASSUME PRInv, NEW c \in Cmds, Settle(c) PROVE PRInv'
<1> USE DEF Settle, Goto, Then, Regates, row, git, github, history, bounds
<1>1. TypeOK'
  <2>1. [my[c] EXCEPT !.pin = branch] \in Frame
        BY FrameExcept, FrameTyped DEF PRInv, TypeOK
  <2>2. QED BY <2>1, BoundsAssumption DEF PRInv, TypeOK, Steps, GateSteps, At
<1>2. LockHeld'
      BY NoOneAssumption DEF PRInv, TypeOK, LockHeld, Holding, Gating, GateSteps, At
<1>3. WindowIsSeen'
      BY DEF PRInv, TypeOK, WindowIsSeen, At
<1>4. Sound(c)'
  <2>1. /\ newestMerge' = newestMerge /\ hasLanded' = hasLanded /\ inRound' = inRound
        /\ Kept' = Kept
        BY LogIsRead, KeptStays
  <2>2. Sound(c) /\ my[c] \in Frame /\ pc \in [Cmds -> Steps] /\ my \in [Cmds -> Frame]
        BY FrameTyped DEF PRInv, TypeOK
  <2>3. FixSound(c)' /\ LandSound(c)' /\ PlanSound(c)'
        BY <2>2 DEF FixSound, LandSound, PlanSound, At
  <2>4. GateRow(c)'
    <3>1. /\ my'[c].from = my[c].from /\ my'[c].pr = my[c].pr /\ pc[c] = "pin"
          /\ pc'[c] \in {"stages", "reject"}
          /\ my[c].from = "merged" => pc'[c] = "stages"
          BY <2>2 DEF At, Frame
    <3>2. GateRow(c) /\ UNCHANGED <<state, pulls>>
          BY <2>2 DEF Sound
    <3>3. QED BY <2>1, <3>1, <3>2 DEF GateRow, Gating, GateSteps
  <2>5. GatePin(c)'
        BY <2>1, <2>2 DEF Sound, GateRow, GatePin, Gating, GateSteps, At, Frame
  <2>6. QED BY <2>3, <2>4, <2>5 DEF Sound
<1>5. Quiet /\ \A d \in Cmds \ {c} : Spares(d)
      BY NoOneAssumption DEF PRInv, TypeOK, LockHeld, Quiet, Spares, At
<1>6. QED BY <1>1, <1>2, <1>3, <1>4, <1>5, QuietIsShared, OneMoves

LEMMA MeasureStep == ASSUME PRInv, NEW c \in Cmds, Measure(c) PROVE PRInv'
<1> USE DEF Measure, Goto, End, Regates, row, git, github, history, bounds
<1>1. TypeOK'
      BY BlankTyped, FrameTyped, BoundsAssumption DEF PRInv, TypeOK, Steps, GateSteps, At
<1>2. LockHeld'
      BY NoOneAssumption DEF PRInv, TypeOK, LockHeld, Holding, Gating, GateSteps, At
<1>3. WindowIsSeen'
      BY DEF PRInv, TypeOK, WindowIsSeen, At
<1>4. Sound(c)'
  <2>1. /\ newestMerge' = newestMerge /\ hasLanded' = hasLanded /\ inRound' = inRound
        /\ Kept' = Kept
        BY LogIsRead, KeptStays
  <2>2. Sound(c) /\ my[c] \in Frame /\ pc \in [Cmds -> Steps] /\ my \in [Cmds -> Frame]
        BY FrameTyped DEF PRInv, TypeOK
  <2>3. FixSound(c)' /\ LandSound(c)' /\ PlanSound(c)'
        BY <2>2 DEF FixSound, LandSound, PlanSound, At
  <2>4. GateRow(c)'
        BY <2>1, <2>2 DEF Sound, GateRow, Gating, GateSteps, At, Frame
  <2>5. GatePin(c)'
        BY <2>1, <2>2 DEF Sound, GateRow, GatePin, Gating, GateSteps, At, Frame
  <2>6. QED BY <2>3, <2>4, <2>5 DEF Sound
<1>5. Quiet /\ \A d \in Cmds \ {c} : Spares(d)
      BY NoOneAssumption DEF PRInv, TypeOK, LockHeld, Quiet, Spares, At
<1>6. QED BY <1>1, <1>2, <1>3, <1>4, <1>5, QuietIsShared, OneMoves

\* A plan is a frame: it adopts the open pull request, and what it re-gates is one
\* that stands.
LEMMA PlanTyped ==
    ASSUME PRInv, PlansRound \/ PlansRegate
    PROVE  /\ Plan \in Frame
           /\ Plan.pr = openPull /\ openPull \in 0 .. Len(pulls) /\ (state = "merged" => openPull > 0)
           /\ Plan.from = state /\ state \in {"merged", "awaiting-review"}
           /\ Plan.mark[1] = state /\ Plan.mark[3] = Len(log) /\ Len(log) \in Nat
           /\ ~hasLanded
           /\ openPull = 0 => pushed \subseteq branch \cup Kept
<1>1. openPull \in 0 .. Len(pulls) /\ Len(pulls) \in 1 .. MaxPulls
      BY FirstOpenIs DEF openPull, PRInv, TypeOK
<1>2. ~hasLanded
      BY DEF PRInv, Shared, RowStands, PlansRound, PlansRegate
<1>3. /\ openPull \in 0 .. MaxPulls /\ state \in SessionState
      /\ sessionMark \in SessionState \X Nat \X Nat
      BY <1>1, MarkTyped, BoundsAssumption DEF PRInv, TypeOK
<1>4. CASE PlansRegate
  <2>1. openPull \in DOMAIN pulls
        BY <1>4, NewestNames DEF PlansRegate, PRInv, Shared
  <2>2. pulls[openPull] \in Pull /\ openPull > 0
        BY <1>1, <2>1 DEF PRInv, TypeOK
  <2>3. Plan \in Frame /\ Plan.pr = openPull /\ Plan.from = state /\ Plan.mark = sessionMark
    <3>1. pulls[openPull].head \in Tips
          BY <2>2 DEF Pull
    <3>2. Plan = PlanFrame(openPull, sessionMark, state, pulls[openPull].head)
          BY <1>4 DEF Plan, PlanFrame
    <3>3. QED BY <1>3, <3>1, <3>2, PlanFrameTyped
  <2>4. QED BY <1>1, <1>2, <1>4, <2>2, <2>3, MarkTyped DEF PlansRegate, PRInv, Shared, PushedIsKept
<1>5. CASE ~PlansRegate
  <2>1. {} \in Tips /\ state = "awaiting-review"
        BY <1>5 DEF Tips, PlansRound
  <2>2. Plan \in Frame /\ Plan.pr = openPull /\ Plan.from = state /\ Plan.mark = sessionMark
    <3>1. Plan = PlanFrame(openPull, sessionMark, state, {})
          BY <1>5 DEF Plan, PlanFrame
    <3>2. QED BY <1>3, <2>1, <3>1, PlanFrameTyped
  <2>3. QED BY <1>1, <1>2, <2>1, <2>2, MarkTyped DEF PRInv, Shared, PushedIsKept
<1>6. QED BY <1>4, <1>5

LEMMA planMergeStep == ASSUME PRInv, NEW c \in Cmds, planMerge(c) PROVE PRInv'
<1> USE DEF planMerge, Begin, row, git, github, history, bounds
<1>1. TypeOK'
  <2>1. Plan \in Frame
        BY PlanTyped
  <2>2. QED BY <2>1, BoundsAssumption DEF PRInv, TypeOK, Steps, GateSteps, At
<1>2. LockHeld'
      BY NoOneAssumption DEF PRInv, TypeOK, LockHeld, Holding, Gating, GateSteps, At
<1>3. WindowIsSeen'
      BY DEF PRInv, TypeOK, WindowIsSeen, At
<1>4. Sound(c)'
  <2>1. /\ newestMerge' = newestMerge /\ hasLanded' = hasLanded /\ inRound' = inRound
        /\ Kept' = Kept
        BY LogIsRead, KeptStays
  <2>2. Sound(c) /\ my[c] \in Frame /\ pc \in [Cmds -> Steps] /\ my \in [Cmds -> Frame]
        BY FrameTyped DEF PRInv, TypeOK
  <2>3. FixSound(c)' /\ LandSound(c)'
        BY <2>2 DEF FixSound, LandSound, At
  <2>4. PlanSound(c)'
        BY PlanTyped, <2>1, <2>2 DEF PlanSound, Regates, At
  <2>5. GateRow(c)'
        BY PlanTyped, <2>1, <2>2 DEF Sound, PlanSound, GateRow, Gating, GateSteps, Regates, At
  <2>6. GatePin(c)'
        BY PlanTyped, <2>1, <2>2 DEF Sound, PlanSound, GateRow, GatePin, Gating, GateSteps, Regates, At
  <2>7. QED BY <2>3, <2>4, <2>5, <2>6 DEF Sound
<1>5. Quiet /\ \A d \in Cmds \ {c} : Spares(d)
      BY NoOneAssumption DEF PRInv, TypeOK, LockHeld, Quiet, Spares, At
<1>6. QED BY <1>1, <1>2, <1>3, <1>4, <1>5, QuietIsShared, OneMoves

LEMMA GateLocksStep == ASSUME PRInv, NEW c \in Cmds, GateLocks(c) PROVE PRInv'
<1> USE DEF GateLocks, TakesLock, Busy, Goto, Then, End, row, git, github, history, bounds
<1>1. TypeOK'
  <2>1. PlansRound \/ PlansRegate => Plan \in Frame
        BY PlanTyped
  <2>2. QED BY <2>1, BlankTyped, BoundsAssumption DEF PRInv, TypeOK, Steps, GateSteps, At
<1>2. LockHeld'
      BY NoOneAssumption DEF PRInv, TypeOK, LockHeld, Holding, Gating, GateSteps, At
<1>3. WindowIsSeen'
      BY DEF PRInv, TypeOK, WindowIsSeen, At
<1>4. Sound(c)'
  <2>1. /\ newestMerge' = newestMerge /\ hasLanded' = hasLanded /\ inRound' = inRound
        /\ Kept' = Kept
        BY LogIsRead, KeptStays
  <2>2. Sound(c) /\ my[c] \in Frame /\ pc \in [Cmds -> Steps] /\ my \in [Cmds -> Frame]
        BY FrameTyped DEF PRInv, TypeOK
  <2>3. FixSound(c)' /\ LandSound(c)'
        BY <2>2 DEF FixSound, LandSound, At
  <2>4. PlanSound(c)'
        BY PlanTyped, MarkTyped, FrameTyped, <2>1, <2>2 DEF PlanSound, Regates, At
  <2>5. CASE pc'[c] # "pin"
        BY <2>2, <2>3, <2>4, <2>5 DEF Sound, GateRow, GatePin, Gating, GateSteps, At
  <2>6. CASE my'[c] = my[c] /\ sessionMark = my[c].mark /\ pc'[c] = "pin"
    <3>1. my[c].mark[1] = state /\ my[c].mark[3] = Len(log) /\ Len(log) \in Nat
          BY <2>6, MarkTyped DEF PRInv
    <3>2. PlanSound(c) /\ pc[c] = "gatelock"
          BY <2>2 DEF Sound, At
    <3>3. GateRow(c)'
          BY <2>1, <2>6, <3>1, <3>2 DEF PlanSound, GateRow, Gating, GateSteps, Regates
    <3>4. GatePin(c)'
          BY <2>1, <2>6, <3>1, <3>2 DEF PlanSound, GatePin, Regates
    <3>5. QED BY <2>3, <2>4, <3>3, <3>4 DEF Sound
  <2>7. CASE my'[c] = Plan /\ (PlansRound \/ PlansRegate) /\ pc'[c] = "pin"
    <3>1. GateRow(c)'
          BY <2>1, <2>7, PlanTyped DEF GateRow, Gating, GateSteps, Regates
    <3>2. GatePin(c)'
          BY <2>1, <2>7, PlanTyped DEF GatePin, Regates
    <3>3. QED BY <2>3, <2>4, <3>1, <3>2 DEF Sound
  <2>8. QED BY <2>2, <2>5, <2>6, <2>7 DEF At
<1>5. Quiet /\ \A d \in Cmds \ {c} : Spares(d)
      BY NoOneAssumption DEF PRInv, TypeOK, LockHeld, Quiet, Spares, At
<1>6. QED BY <1>1, <1>2, <1>3, <1>4, <1>5, QuietIsShared, OneMoves

-----------------------------------------------------------------------------
(* The steps that move the row, or take the worktree.                       *)

LEMMA KillRowStep == ASSUME PRInv, NEW c \in Cmds, KillRow(c) PROVE PRInv'
<1> USE DEF KillRow, Goto, End, Moves, canTransition, TRANSITIONS, KillsRound, isTerminal, row, git, github, history, bounds
<1>1. TypeOK'
  <2>1. state' \in SessionState /\ pane' \in Nat /\ abandoned' \in SUBSET Nat
    <3>1. Len(log) \in Nat /\ abandoned \in SUBSET Nat /\ pane \in Nat
          BY DEF PRInv, TypeOK
    <3>2. \/ state' = "merged" /\ pane' = 0 /\ abandoned' = abandoned \cup {Len(log)}
          \/ state' = "killed" /\ pane' = pane /\ abandoned' = abandoned
          OBVIOUS
    <3>3. state' \in SessionState
          BY <3>2 DEF SessionState
    <3>4. pane' \in Nat
          BY <3>1, <3>2
    <3>5. abandoned' \in SUBSET Nat
          BY <3>1, <3>2
    <3>6. QED BY <3>3, <3>4, <3>5
  <2>3. loose' \in BOOLEAN
        BY Zenon
  <2>2. pc' \in [Cmds -> Steps] /\ my' \in [Cmds -> Frame] /\ lock' \in Cmds \cup {NoOne}
        BY BlankTyped DEF PRInv, TypeOK, Steps, UndoSteps, At
  <2>4. QED BY <2>1, <2>2, <2>3 DEF PRInv, TypeOK
<1>2. LockHeld'
      BY NoOneAssumption DEF PRInv, TypeOK, LockHeld, Holding, Gating, GateSteps, At
<1>3. WindowIsSeen'
      BY NoOneAssumption DEF PRInv, TypeOK, WindowIsSeen, At
<1>4. RowStands' /\ Still
      BY LogIsRead DEF PRInv, Shared, TypeOK, RowStands, Still, Moves, canTransition, TRANSITIONS,
         Sound, GateRow, Gating, GateSteps, At
<1>5. Sound(c)'
  <2>1. /\ newestMerge' = newestMerge /\ hasLanded' = hasLanded /\ inRound' = inRound
        /\ Kept' = Kept
        BY LogIsRead, KeptStays
  <2>2. Sound(c) /\ my[c] \in Frame /\ pc \in [Cmds -> Steps] /\ my \in [Cmds -> Frame]
        BY FrameTyped DEF PRInv, TypeOK
  <2>3. FixSound(c)' /\ LandSound(c)' /\ PlanSound(c)'
        BY <2>2 DEF FixSound, LandSound, PlanSound, At
  <2>4. GateRow(c)'
        BY <2>1, <2>2 DEF Sound, GateRow, Gating, GateSteps, Regates, At
  <2>5. GatePin(c)'
        BY <2>1, <2>2 DEF Sound, GatePin, Gating, GateSteps, Regates, At
  <2>6. QED BY <2>3, <2>4, <2>5 DEF Sound
<1>6. \A d \in Cmds \ {c} : Spares(d)
      BY NoOneAssumption DEF PRInv, TypeOK, LockHeld, Spares, Holding, At
<1>7. QED BY <1>1, <1>2, <1>3, <1>4, <1>5, <1>6, StillIsShared, OneMoves

LEMMA SweepStep == ASSUME PRInv, NEW c \in Cmds, Sweep(c) PROVE PRInv'
<1> USE DEF Sweep, End, row, git, github, history, bounds
<1>1. TypeOK'
      BY BlankTyped, BoundsAssumption DEF PRInv, TypeOK, Steps, UndoSteps, At
<1>2. LockHeld'
      BY NoOneAssumption DEF PRInv, TypeOK, LockHeld, Holding, Gating, GateSteps, At
<1>3. WindowIsSeen'
      BY NoOneAssumption DEF PRInv, TypeOK, WindowIsSeen, At
<1>4. RowStands' /\ Still
      BY LogIsRead DEF PRInv, Shared, TypeOK, RowStands, Still, Moves, canTransition, TRANSITIONS,
         Sound, GateRow, Gating, GateSteps, At
<1>5. Sound(c)'
  <2>1. /\ newestMerge' = newestMerge /\ hasLanded' = hasLanded /\ inRound' = inRound
        /\ Kept' = Kept
        BY LogIsRead, KeptStays
  <2>2. Sound(c) /\ my[c] \in Frame /\ pc \in [Cmds -> Steps] /\ my \in [Cmds -> Frame]
        BY FrameTyped DEF PRInv, TypeOK
  <2>3. FixSound(c)' /\ LandSound(c)' /\ PlanSound(c)'
        BY <2>2 DEF FixSound, LandSound, PlanSound, At
  <2>4. GateRow(c)'
        BY <2>1, <2>2 DEF Sound, GateRow, Gating, GateSteps, Regates, At
  <2>5. GatePin(c)'
        BY <2>1, <2>2 DEF Sound, GatePin, Gating, GateSteps, Regates, At
  <2>6. QED BY <2>3, <2>4, <2>5 DEF Sound
<1>6. \A d \in Cmds \ {c} : Spares(d)
      BY NoOneAssumption DEF PRInv, TypeOK, LockHeld, Spares, Holding, At
<1>7. QED BY <1>1, <1>2, <1>3, <1>4, <1>5, <1>6, StillIsShared, OneMoves

LEMMA RecordMergedStep == ASSUME PRInv, NEW c \in Cmds, RecordMerged(c) PROVE PRInv'
<1> USE DEF RecordMerged, Goto, row, git, github, history, bounds
<1>1. TypeOK'
      BY BoundsAssumption DEF PRInv, TypeOK, Steps, GateSteps, SessionState, At
<1>2. LockHeld'
      BY NoOneAssumption DEF PRInv, TypeOK, LockHeld, Holding, Gating, GateSteps, At
<1>3. WindowIsSeen'
      BY NoOneAssumption DEF PRInv, TypeOK, WindowIsSeen, At
<1>4. RowStands' /\ Still
      BY LogIsRead DEF PRInv, Shared, TypeOK, RowStands, Still, Moves, canTransition, TRANSITIONS,
         Sound, GateRow, Gating, GateSteps, At
<1>5. Sound(c)'
  <2>1. /\ newestMerge' = newestMerge /\ hasLanded' = hasLanded /\ inRound' = inRound
        /\ Kept' = Kept
        BY LogIsRead, KeptStays
  <2>2. Sound(c) /\ my[c] \in Frame /\ pc \in [Cmds -> Steps] /\ my \in [Cmds -> Frame]
        BY FrameTyped DEF PRInv, TypeOK
  <2>3. FixSound(c)' /\ LandSound(c)' /\ PlanSound(c)'
        BY <2>2 DEF FixSound, LandSound, PlanSound, At
  <2>4. GateRow(c)'
        BY <2>1, <2>2 DEF Sound, GateRow, Gating, GateSteps, Regates, At
  <2>5. GatePin(c)'
        BY <2>1, <2>2 DEF Sound, GatePin, Gating, GateSteps, Regates, At
  <2>6. QED BY <2>3, <2>4, <2>5 DEF Sound
<1>6. \A d \in Cmds \ {c} : Spares(d)
      BY NoOneAssumption DEF PRInv, TypeOK, LockHeld, Spares, Holding, At
<1>7. QED BY <1>1, <1>2, <1>3, <1>4, <1>5, <1>6, StillIsShared, OneMoves

LEMMA RejectStep == ASSUME PRInv, NEW c \in Cmds, Reject(c) PROVE PRInv'
<1> USE DEF Reject, Goto, End, Regates, row, git, github, history, bounds
<1>1. TypeOK'
  <2>1. /\ rejects' \in Nat /\ failed' \in Nat /\ state' \in SessionState
        BY DEF PRInv, TypeOK, SessionState
  <2>2. pc' \in [Cmds -> Steps] /\ my' \in [Cmds -> Frame] /\ lock' \in Cmds \cup {NoOne}
        BY BlankTyped DEF PRInv, TypeOK, Steps, GateSteps, At
  <2>3. QED BY <2>1, <2>2 DEF PRInv, TypeOK
<1>2. LockHeld'
      BY NoOneAssumption DEF PRInv, TypeOK, LockHeld, Holding, Gating, GateSteps, At
<1>3. WindowIsSeen'
      BY NoOneAssumption DEF PRInv, TypeOK, WindowIsSeen, At
<1>4. RowStands' /\ Still
  <2>1. Still
        BY DEF PRInv, Still, Moves, canTransition, TRANSITIONS
  <2>2. inRound => rejectBase \in Nat /\ rejectBase = Last(log).base
        BY BaseTyped DEF PRInv, Shared
  <2>3. inRound => rejects' - Last(log).base = failed'
        BY <2>2 DEF PRInv, Shared, RowStands, TypeOK
  <2>4. (hasLanded \/ ~inRound) => state' = "merged"
        BY DEF PRInv, Shared, RowStands, Moves, canTransition, TRANSITIONS
  <2>5. QED BY <2>1, <2>3, <2>4, LogIsRead DEF RowStands
<1>5. Sound(c)'
  <2>1. /\ newestMerge' = newestMerge /\ hasLanded' = hasLanded /\ inRound' = inRound
        /\ Kept' = Kept
        BY LogIsRead, KeptStays
  <2>2. Sound(c) /\ my[c] \in Frame /\ pc \in [Cmds -> Steps] /\ my \in [Cmds -> Frame]
        BY FrameTyped DEF PRInv, TypeOK
  <2>3. FixSound(c)' /\ LandSound(c)' /\ PlanSound(c)'
        BY <2>2 DEF FixSound, LandSound, PlanSound, At
  <2>4. GateRow(c)'
        BY <2>1, <2>2 DEF Sound, GateRow, Gating, GateSteps, Regates, At
  <2>5. GatePin(c)'
        BY <2>1, <2>2 DEF Sound, GatePin, Gating, GateSteps, Regates, At
  <2>6. QED BY <2>3, <2>4, <2>5 DEF Sound
<1>6. \A d \in Cmds \ {c} : Spares(d)
      BY NoOneAssumption DEF PRInv, TypeOK, LockHeld, Spares, Holding, At
<1>7. QED BY <1>1, <1>2, <1>3, <1>4, <1>5, <1>6, StillIsShared, OneMoves

LEMMA ParkStep == ASSUME PRInv, NEW c \in Cmds, Park(c) PROVE PRInv'
<1> USE DEF Park, Goto, End, Moves, canTransition, TRANSITIONS, row, git, github, history, bounds
<1>1. TypeOK'
      BY BlankTyped, BoundsAssumption DEF PRInv, TypeOK, Steps, GateSteps, SessionState, At
<1>2. LockHeld'
      BY NoOneAssumption DEF PRInv, TypeOK, LockHeld, Holding, Gating, GateSteps, At
<1>3. WindowIsSeen'
      BY NoOneAssumption DEF PRInv, TypeOK, WindowIsSeen, At
<1>4. RowStands' /\ Still
      BY LogIsRead DEF PRInv, Shared, TypeOK, RowStands, Still, Moves, canTransition, TRANSITIONS,
         Sound, GateRow, Gating, GateSteps, At
<1>5. Sound(c)'
  <2>1. /\ newestMerge' = newestMerge /\ hasLanded' = hasLanded /\ inRound' = inRound
        /\ Kept' = Kept
        BY LogIsRead, KeptStays
  <2>2. Sound(c) /\ my[c] \in Frame /\ pc \in [Cmds -> Steps] /\ my \in [Cmds -> Frame]
        BY FrameTyped DEF PRInv, TypeOK
  <2>3. FixSound(c)' /\ LandSound(c)' /\ PlanSound(c)'
        BY <2>2 DEF FixSound, LandSound, PlanSound, At
  <2>4. GateRow(c)'
        BY <2>1, <2>2 DEF Sound, GateRow, Gating, GateSteps, Regates, At
  <2>5. GatePin(c)'
        BY <2>1, <2>2 DEF Sound, GatePin, Gating, GateSteps, Regates, At
  <2>6. QED BY <2>3, <2>4, <2>5 DEF Sound
<1>6. \A d \in Cmds \ {c} : Spares(d)
      BY NoOneAssumption DEF PRInv, TypeOK, LockHeld, Spares, Holding, At
<1>7. QED BY <1>1, <1>2, <1>3, <1>4, <1>5, <1>6, StillIsShared, OneMoves

LEMMA ResumeStep == ASSUME PRInv, NEW c \in Cmds, Resume(c) PROVE PRInv'
<1> USE DEF Resume, Goto, End, Moves, canTransition, TRANSITIONS, row, git, github, history, bounds
<1>1. TypeOK'
      BY BlankTyped, BoundsAssumption DEF PRInv, TypeOK, Steps, GateSteps, SessionState, At
<1>2. LockHeld'
      BY NoOneAssumption DEF PRInv, TypeOK, LockHeld, Holding, Gating, GateSteps, At
<1>3. WindowIsSeen'
      BY NoOneAssumption DEF PRInv, TypeOK, WindowIsSeen, At
<1>4. RowStands' /\ Still
      BY LogIsRead DEF PRInv, Shared, TypeOK, RowStands, Still, Moves, canTransition, TRANSITIONS,
         Sound, GateRow, Gating, GateSteps, At
<1>5. Sound(c)'
  <2>1. /\ newestMerge' = newestMerge /\ hasLanded' = hasLanded /\ inRound' = inRound
        /\ Kept' = Kept
        BY LogIsRead, KeptStays
  <2>2. Sound(c) /\ my[c] \in Frame /\ pc \in [Cmds -> Steps] /\ my \in [Cmds -> Frame]
        BY FrameTyped DEF PRInv, TypeOK
  <2>3. FixSound(c)' /\ LandSound(c)' /\ PlanSound(c)'
        BY <2>2 DEF FixSound, LandSound, PlanSound, At
  <2>4. GateRow(c)'
        BY <2>1, <2>2 DEF Sound, GateRow, Gating, GateSteps, Regates, At
  <2>5. GatePin(c)'
        BY <2>1, <2>2 DEF Sound, GatePin, Gating, GateSteps, Regates, At
  <2>6. QED BY <2>3, <2>4, <2>5 DEF Sound
<1>6. \A d \in Cmds \ {c} : Spares(d)
      BY NoOneAssumption DEF PRInv, TypeOK, LockHeld, Spares, Holding, At
<1>7. QED BY <1>1, <1>2, <1>3, <1>4, <1>5, <1>6, StillIsShared, OneMoves

-----------------------------------------------------------------------------
(* The steps that move the branch.                                          *)

\* A branch that grows, with GitHub and the log as they are.
BranchGrows ==
    /\ UNCHANGED <<state, rejects, log, pushed, github, fresh, measured, failed, discarded>>
    /\ branch \subseteq branch' /\ (loose => loose')

LEMMA BranchGrowsIsShared ==
    ASSUME PRInv, BranchGrows
    PROVE  Shared' /\ Grows
<1>1. /\ openPull' = openPull /\ Kept' = Kept /\ hasLanded' = hasLanded /\ inRound' = inRound
      BY DEF BranchGrows, openPull, Kept, github, hasLanded, newestMerge, inRound
<1>2. LogNames'
      BY DEF PRInv, Shared, LogNames, BranchGrows, IsNewest, github
<1>3. RowStands' /\ PushedIsKept'
      BY <1>1 DEF PRInv, Shared, RowStands, PushedIsKept, BranchGrows, github
<1>4. CommitsAreKept' /\ LandsOnlyMeasured'
      BY DEF PRInv, Shared, CommitsAreKept, LandsOnlyMeasured, BranchGrows, github
<1>5. Grows
      BY <1>1 DEF PRInv, TypeOK, Grows, BranchGrows, github
<1>6. QED BY <1>2, <1>3, <1>4, <1>5 DEF Shared

LEMMA restoreWorktreeStep == ASSUME PRInv, NEW c \in Cmds, restoreWorktree(c) PROVE PRInv'
<1> USE DEF restoreWorktree, Goto, End, row, github, history, bounds
<1>1. TypeOK'
  <2>1. branch' \in Tips /\ worktree' \in BOOLEAN
        BY FrameTyped DEF PRInv, TypeOK
  <2>2. QED BY <2>1, BlankTyped, BoundsAssumption DEF PRInv, TypeOK, Steps, FixSteps, At
<1>2. LockHeld'
      BY NoOneAssumption DEF PRInv, TypeOK, LockHeld, Holding, Gating, GateSteps, At
<1>3. WindowIsSeen'
      BY DEF PRInv, TypeOK, WindowIsSeen, At
<1>4. Sound(c)'
      BY LogIsRead DEF PRInv, TypeOK, At, Sound, FixSound, LandSound, PlanSound, GateRow,
         GatePin, Gating, GateSteps
<1>5. BranchGrows /\ \A d \in Cmds \ {c} : Spares(d)
      BY NoOneAssumption DEF PRInv, TypeOK, LockHeld, Holding, BranchGrows, Spares, At
<1>6. QED BY <1>1, <1>2, <1>3, <1>4, <1>5, BranchGrowsIsShared, OneMoves

LEMMA TeardownStep == ASSUME PRInv, NEW c \in Cmds, Teardown(c) PROVE PRInv'
<1> USE DEF Teardown, Goto, row, github, history, bounds
<1>1. TypeOK'
  <2>1. branch' \in Tips /\ worktree' \in BOOLEAN
        BY DEF PRInv, TypeOK, Tips
  <2>2. QED BY <2>1, BoundsAssumption DEF PRInv, TypeOK, Steps, GateSteps, At
<1>2. LockHeld'
      BY NoOneAssumption DEF PRInv, TypeOK, LockHeld, Holding, Gating, GateSteps, At
<1>3. WindowIsSeen'
      BY DEF PRInv, TypeOK, WindowIsSeen, At
<1>4. /\ newestMerge' = newestMerge /\ hasLanded' = hasLanded /\ inRound' = inRound
      /\ Kept' = Kept /\ openPull' = openPull
      BY LogIsRead, KeptStays DEF openPull
<1>5. Sound(c)'
      BY <1>4 DEF PRInv, TypeOK, At, Sound, FixSound, LandSound, PlanSound, GateRow,
         GatePin, Gating, GateSteps, Regates
\* The pin is on the pull request, which is open and shown, or kept.
<1>6. /\ my[c].pr \in DOMAIN pulls /\ my[c].pin \subseteq pulls[my[c].pr].head
      /\ ~Regates(c) /\ pushed = my[c].pin /\ state = "merged" /\ lock = c
      BY FrameTyped DEF PRInv, TypeOK, LockHeld, Holding, Gating, GateSteps, At, Sound, GateRow, GatePin
<1>7. openPull = 0 => my[c].pin \subseteq Kept
      BY <1>6, FirstOpenIs DEF openPull, Kept, PRInv, TypeOK
<1>8. LogNames' /\ RowStands' /\ PushedIsKept'
      BY <1>4, <1>6, <1>7 DEF PRInv, Shared, LogNames, RowStands, PushedIsKept, IsNewest
<1>9. CommitsAreKept' /\ LandsOnlyMeasured'
      BY <1>6 DEF PRInv, Shared, CommitsAreKept, LandsOnlyMeasured
<1>10. Grows
      BY <1>4, <1>6 DEF Grows, PRInv, TypeOK
<1>11. \A d \in Cmds \ {c} : Spares(d)
      BY <1>6, NoOneAssumption DEF PRInv, TypeOK, LockHeld, Holding, Spares, At
<1>12. QED BY <1>1, <1>2, <1>3, <1>5, <1>8, <1>9, <1>10, <1>11, OneMoves DEF Shared

-----------------------------------------------------------------------------
(* The steps on GitHub.                                                     *)

\* A shown tip leaves a pull request that is not open as it was.
LEMMA ShowIs ==
    ASSUME TypeOK, NEW tip \in Tips, Show(tip)
    PROVE  /\ pulls' \in Seq(Pull) /\ Len(pulls') = Len(pulls) /\ DOMAIN pulls' = DOMAIN pulls
           /\ DOMAIN pulls = 1 .. Len(pulls) /\ Len(pulls) \in 1 .. MaxPulls
           /\ \A i \in DOMAIN pulls :
                 /\ pulls'[i].state = pulls[i].state /\ pulls'[i].how = pulls[i].how
                 /\ pulls[i].state # "OPEN" => pulls'[i] = pulls[i]
                 /\ pulls[i].state = "OPEN" => pulls'[i].head = tip
<1>1. /\ pulls \in Seq(Pull) /\ Len(pulls) \in Nat /\ DOMAIN pulls = 1 .. Len(pulls)
      /\ Len(pulls) \in 1 .. MaxPulls
      BY DEF TypeOK
<1>2. \A i \in DOMAIN pulls : pulls[i] \in Pull
      BY <1>1
<1>3. DOMAIN pulls' = DOMAIN pulls
      BY DEF Show
<1>4. \A i \in DOMAIN pulls :
         /\ pulls'[i] \in Pull
         /\ pulls'[i].state = pulls[i].state /\ pulls'[i].how = pulls[i].how
         /\ pulls[i].state # "OPEN" => pulls'[i] = pulls[i]
         /\ pulls[i].state = "OPEN" => pulls'[i].head = tip
      BY <1>2 DEF Show, Pull
<1>5. pulls' \in [1 .. Len(pulls) -> Pull]
      BY <1>1, <1>4 DEF Show
<1>6. pulls' \in Seq(Pull) /\ Len(pulls') = Len(pulls)
      BY <1>1, <1>5
<1>7. QED BY <1>1, <1>3, <1>4, <1>6

\* What is kept when the open pull request shows another tip.
LEMMA ShowKeeps ==
    ASSUME TypeOK, NEW tip \in Tips, Show(tip), UNCHANGED <<origin, discarded>>
    PROVE  Kept' = Kept /\ (openPull' = 0 <=> openPull = 0)
<1>1. Kept' = Kept
      BY ShowIs DEF Kept
<1>2. openPull' = 0 <=> openPull = 0
  <2>1. openPull = 0 <=> \A i \in DOMAIN pulls : pulls[i].state # "OPEN"
        BY ShowIs, FirstOpenIs DEF openPull, TypeOK
  <2>2. openPull' = 0 <=> \A i \in DOMAIN pulls' : pulls'[i].state # "OPEN"
        BY ShowIs, FirstOpenIs DEF openPull
  <2>3. QED BY <2>1, <2>2, ShowIs
<1>3. QED BY <1>1, <1>2

LEMMA PushBranchStep == ASSUME PRInv, NEW c \in Cmds, PushBranch(c) PROVE PRInv'
<1> USE DEF PushBranch, Goto, row, history, bounds
<1> DEFINE pin == my[c].pin
<1>1. /\ Sound(c) /\ pin \in Tips /\ pc[c] = "push" /\ lock = c /\ my[c].pr \in Nat
      /\ ~Regates(c) /\ pin \subseteq branch /\ pin \in measured /\ ~hasLanded
      /\ my[c].pr = 0 => pushed \subseteq pin \cup Kept
      BY FrameTyped DEF PRInv, TypeOK, LockHeld, Holding, Gating, GateSteps, At, Sound, GateRow, GatePin
<1>2. /\ Len(pulls') = Len(pulls) /\ DOMAIN pulls' = DOMAIN pulls /\ DOMAIN pulls = 1 .. Len(pulls)
      /\ Len(pulls) \in 1 .. MaxPulls /\ pulls' \in Seq(Pull)
      /\ \A i \in DOMAIN pulls :
            /\ pulls'[i].state = pulls[i].state /\ pulls'[i].how = pulls[i].how
            /\ pulls[i].state # "OPEN" => pulls'[i] = pulls[i]
            /\ pulls[i].state = "OPEN" => pulls'[i].head = pin
      BY <1>1, ShowIs DEF PRInv
<1>3. Kept' = Kept /\ (openPull' = 0 <=> openPull = 0)
      BY <1>1, ShowKeeps DEF PRInv
\* What is overwritten is in the pin, or kept.
<1>4. remote \subseteq pin \cup Kept
      BY <1>1 DEF PRInv, Shared, PushedIsKept
<1>5. TypeOK'
      BY <1>1, <1>2 DEF PRInv, TypeOK, Steps, GateSteps
<1>6. LockHeld'
      BY <1>1 DEF PRInv, TypeOK, LockHeld, Holding, Gating, GateSteps
<1>7. WindowIsSeen'
      BY <1>1 DEF PRInv, TypeOK, WindowIsSeen
<1>8. LogNames' /\ RowStands'
      BY <1>2, LogIsRead DEF PRInv, Shared, LogNames, RowStands, IsNewest
<1>9. PushedIsKept'
      BY <1>1, <1>2, <1>3 DEF PRInv, Shared, PushedIsKept
<1>10. CommitsAreKept'
  <2>1. UNION {pulls[i].head : i \in DOMAIN pulls} \subseteq Kept \cup remote
        BY DEF PRInv, Shared, PushedIsKept, Kept
  <2>2. Kept \subseteq origin \cup discarded \cup UNION {pulls'[i].head : i \in DOMAIN pulls'}
        BY <1>2 DEF Kept
  <2>3. QED BY <1>4, <2>1, <2>2 DEF PRInv, Shared, CommitsAreKept
<1>11. LandsOnlyMeasured'
      BY <1>2 DEF PRInv, Shared, LandsOnlyMeasured, LogNames
<1>12. Sound(c)'
      BY <1>1, <1>2, LogIsRead DEF PRInv, TypeOK, Sound, FixSound, LandSound, PlanSound, GateRow, GatePin,
         Gating, GateSteps, Regates
<1>13. Grows
  <2>1. /\ UNCHANGED <<log, state, measured, loose, branch>>
        /\ pushed' = pin /\ Kept' = Kept
        BY <1>3
  <2>2. pin \subseteq branch
        BY <1>1
  <2> HIDE DEF pin
  <2>3. \A i \in DOMAIN pulls : pulls[i].state = "MERGED" => pulls'[i] = pulls[i]
        BY <1>2
  <2>4. QED BY ONLY <1>2, <2>1, <2>2, <2>3 DEF Grows
<1>14. \A d \in Cmds \ {c} : Spares(d)
      BY <1>1 DEF PRInv, TypeOK, Spares
<1>15. QED BY <1>5, <1>6, <1>7, <1>8, <1>9, <1>10, <1>11, <1>12, <1>13, <1>14, OneMoves DEF Shared

\* What an appended pull request leaves of those there were.
LEMMA OpenPullRequestStep == ASSUME PRInv, NEW c \in Cmds, OpenPullRequest(c) PROVE PRInv'
<1> USE DEF OpenPullRequest, Goto, Then, row, git, history, bounds
<1>1. /\ Sound(c) /\ my[c].pin \in Tips /\ my[c].pr \in Nat /\ pc[c] = "pr" /\ lock = c
      /\ ~Regates(c) /\ pushed = my[c].pin /\ my[c].pin \in measured /\ ~hasLanded
      BY FrameTyped DEF PRInv, TypeOK, LockHeld, Holding, Gating, GateSteps, At, Sound, GateRow, GatePin
<1>2. CASE UNCHANGED pulls /\ my[c].pr > 0 /\ pc' = [pc EXCEPT ![c] = "verify"] /\ UNCHANGED my
  <2>1. TypeOK'
        BY <1>2 DEF PRInv, TypeOK, Steps, GateSteps
  <2>2. LockHeld' /\ WindowIsSeen'
        BY <1>1, <1>2 DEF PRInv, TypeOK, LockHeld, WindowIsSeen, Holding, Gating, GateSteps
  <2>3. Sound(c)'
        BY <1>1, <1>2, LogIsRead DEF PRInv, TypeOK, Sound, FixSound, LandSound, PlanSound, GateRow, GatePin,
           Gating, GateSteps, Regates
  <2>4. Quiet /\ \A d \in Cmds \ {c} : Spares(d)
        BY <1>1, <1>2 DEF PRInv, TypeOK, Quiet, Spares, github
  <2>5. QED BY <2>1, <2>2, <2>3, <2>4, QuietIsShared, OneMoves
<1>3. CASE /\ my[c].pr = 0 /\ openPull = 0 /\ Len(pulls) < MaxPulls
           /\ pulls' = Append(pulls, [state |-> "OPEN", head |-> remote,
                                      how |-> "none", reviewed |-> {}])
           /\ pc' = [pc EXCEPT ![c] = "verify"]
           /\ my' = [my EXCEPT ![c] = [my[c] EXCEPT !.pr = Len(pulls')]]
  <2> DEFINE new == [state |-> "OPEN", head |-> remote, how |-> "none", reviewed |-> {}]
             n == Len(pulls) + 1
  <2>1. new \in Pull
        BY DEF PRInv, TypeOK, Pull, Tips
  <2>2. /\ pulls' \in Seq(Pull) /\ Len(pulls') = n /\ n \in 1 .. MaxPulls /\ pulls'[n] = new
        /\ DOMAIN pulls = 1 .. Len(pulls) /\ DOMAIN pulls' = 1 .. n /\ Len(pulls) \in Nat
        /\ \A i \in DOMAIN pulls : pulls'[i] = pulls[i]
        BY <1>3, <2>1, BoundsAssumption DEF PRInv, TypeOK
  <2>3. /\ pulls'[n].state = "OPEN" /\ pulls'[n].head = remote
        BY <2>2
  <2> HIDE DEF new
  <2>4. Kept' = Kept
        BY <2>2, <2>3 DEF Kept
  <2>5. openPull' # 0
        BY <2>2, <2>3, FirstOpenIs DEF openPull
  <2>6. TypeOK'
    <3>1. Len(pulls') \in 0 .. MaxPulls
          BY <2>2, BoundsAssumption
    <3>2. [my[c] EXCEPT !.pr = Len(pulls')] \in Frame
          BY <3>1, FrameTyped, FrameExcept DEF PRInv
    <3>3. QED BY <1>3, <2>2, <3>2 DEF PRInv, TypeOK, Steps, GateSteps
  <2>7. LockHeld' /\ WindowIsSeen'
        BY <1>1, <1>3 DEF PRInv, TypeOK, LockHeld, WindowIsSeen, Holding, Gating, GateSteps
  <2>8. LogNames' /\ RowStands'
        BY <2>2, LogIsRead DEF PRInv, Shared, LogNames, RowStands, IsNewest
  <2>9. PushedIsKept'
        BY <2>2, <2>3, <2>5 DEF PRInv, Shared, PushedIsKept
  <2>10. CommitsAreKept' /\ LandsOnlyMeasured'
        BY <2>2 DEF PRInv, Shared, CommitsAreKept, LandsOnlyMeasured, LogNames
  <2>11. /\ my'[c].pr = n /\ my'[c].pin = my[c].pin /\ my'[c].from = my[c].from
        BY <1>3, <2>2, FrameTyped DEF PRInv, TypeOK, Frame
  <2>12. Sound(c)'
        BY <1>1, <1>3, <2>2, <2>11, LogIsRead DEF PRInv, TypeOK, Sound, FixSound, LandSound, PlanSound,
           GateRow, GatePin, Gating, GateSteps, Regates
  <2>13. Grows /\ \A d \in Cmds \ {c} : Spares(d)
        BY <1>1, <1>3, <2>2, <2>4 DEF PRInv, TypeOK, Grows, Spares
  <2>14. QED BY <2>6, <2>7, <2>8, <2>9, <2>10, <2>12, <2>13, OneMoves DEF Shared
<1>4. QED BY <1>2, <1>3

-----------------------------------------------------------------------------
(* The steps that write an event.                                           *)

\* What an event at the end of the log leaves of it.
LEMMA LogAfter ==
    ASSUME TypeOK, LogNames, NEW e \in Event, log' = Append(log, e)
    PROVE  /\ log' \in Seq(Event) /\ Len(log') = Len(log) + 1 /\ Len(log) \in Nat
           /\ Len(log') > Len(log)
           /\ DOMAIN log = 1 .. Len(log) /\ DOMAIN log' = 1 .. Len(log')
           /\ log'[Len(log')] = e /\ Last(log') = e
           /\ \A i \in DOMAIN log : log'[i] = log[i]
           /\ \E i \in DOMAIN log' : IsNewest(log', i)
           /\ e.type # "fix_round" => newestMerge' = e /\ ~inRound'
           /\ e.type = "fix_round" => newestMerge' = newestMerge /\ hasLanded' = hasLanded /\ inRound'
<1>1. /\ log' \in Seq(Event) /\ Len(log') = Len(log) + 1 /\ Len(log) \in Nat
      /\ Len(log') > Len(log)
      /\ DOMAIN log = 1 .. Len(log) /\ DOMAIN log' = 1 .. Len(log')
      /\ log'[Len(log')] = e /\ \A i \in DOMAIN log : log'[i] = log[i]
      BY DEF TypeOK
<1>2. Last(log') = e
      BY <1>1 DEF Last
<1>3. /\ \E i \in DOMAIN log' : IsNewest(log', i)
      /\ e.type # "fix_round" => Newest(log') = e
      /\ e.type = "fix_round" => Newest(log') = Newest(log)
      BY NewestAfter DEF TypeOK, LogNames
<1>4. QED BY <1>1, <1>2, <1>3 DEF newestMerge, hasLanded, inRound

LEMMA takeFixRoundEdgeStep == ASSUME PRInv, NEW c \in Cmds, takeFixRoundEdge(c) PROVE PRInv'
<1> USE DEF takeFixRoundEdge, Then, git, github, bounds
<1> DEFINE e == [type |-> "fix_round", base |-> rejects]
<1>1. e \in Event /\ e.type = "fix_round" /\ e.base = rejects
      BY DEF Event, PRInv, TypeOK
<1>2. /\ log' \in Seq(Event) /\ Len(log') = Len(log) + 1 /\ Len(log) \in Nat
      /\ Len(log') > Len(log)
      /\ DOMAIN log = 1 .. Len(log) /\ DOMAIN log' = 1 .. Len(log')
      /\ log'[Len(log')] = e /\ Last(log') = e
      /\ \A i \in DOMAIN log : log'[i] = log[i]
      /\ \E i \in DOMAIN log' : IsNewest(log', i)
      /\ newestMerge' = newestMerge /\ hasLanded' = hasLanded /\ inRound'
      BY <1>1, LogAfter DEF PRInv, Shared
<1> HIDE DEF e
<1>3. /\ pc[c] = "edge" /\ lock = c /\ ~hasLanded
      BY DEF PRInv, LockHeld, Holding, At, Sound, FixSound
<1>4. TypeOK'
  <2>1. [my[c] EXCEPT !.round = Len(log) + 1] \in Frame
    <3>1. Len(log) + 1 \in Nat
          BY <1>2
    <3>2. QED BY <3>1, FrameTyped, FrameExcept DEF PRInv
  <2>2. QED BY <1>2, <2>1 DEF PRInv, TypeOK, Steps, FixSteps, SessionState
<1>5. LockHeld' /\ WindowIsSeen'
      BY <1>3, NoOneAssumption DEF PRInv, TypeOK, LockHeld, WindowIsSeen, Holding, Gating, GateSteps
<1>6. Kept' = Kept /\ openPull' = openPull
      BY DEF Kept, openPull
<1>7. LogNames'
      BY <1>1, <1>2 DEF PRInv, Shared, LogNames
<1>8. RowStands'
      BY <1>1, <1>2, <1>3 DEF PRInv, TypeOK, RowStands
<1>9. PushedIsKept' /\ CommitsAreKept'
      BY <1>6 DEF PRInv, Shared, PushedIsKept, CommitsAreKept
<1>10. LandsOnlyMeasured'
      BY <1>1, <1>2 DEF PRInv, Shared, LandsOnlyMeasured
<1>11. Sound(c)'
      BY <1>3 DEF PRInv, TypeOK, Sound, FixSound, LandSound, PlanSound, GateRow, GatePin, Gating, GateSteps
<1>12. Grows
  <2>1. /\ Len(pulls) <= Len(pulls') /\ measured \subseteq measured' /\ (loose => loose')
        BY DEF PRInv, TypeOK
  <2>2. QED BY <1>2, <2>1, <1>6 DEF Grows
<1>13. \A d \in Cmds \ {c} : Spares(d)
      BY <1>3, NoOneAssumption DEF PRInv, TypeOK, Spares, LockHeld, Holding
<1>14. QED BY <1>4, <1>5, <1>7, <1>8, <1>9, <1>10, <1>11, <1>12, <1>13, OneMoves DEF Shared

LEMMA RecordMergeStep == ASSUME PRInv, NEW c \in Cmds, RecordMerge(c) PROVE PRInv'
<1> USE DEF RecordMerge, End, git, github, history, bounds
<1> DEFINE e == [type |-> "merge", pr |-> my[c].pr, pin |-> my[c].pin]
<1>1. /\ Sound(c) /\ my[c].pin \in Tips /\ my[c].pr \in 1 .. Len(pulls) /\ pc[c] = "event" /\ lock = c
      /\ my[c].pin \in measured /\ ~hasLanded /\ state = "merged"
      BY FrameTyped DEF PRInv, TypeOK, LockHeld, Holding, Gating, GateSteps, At, Sound, GateRow, GatePin
<1>2. e \in Event /\ e.type = "merge" /\ e.pr = my[c].pr /\ e.pin = my[c].pin
      BY <1>1, BoundsAssumption DEF Event, PRInv, TypeOK
<1>3. /\ log' \in Seq(Event) /\ Len(log') = Len(log) + 1 /\ Len(log) \in Nat
      /\ Len(log') > Len(log)
      /\ DOMAIN log = 1 .. Len(log) /\ DOMAIN log' = 1 .. Len(log')
      /\ log'[Len(log')] = e
      /\ \A i \in DOMAIN log : log'[i] = log[i]
      /\ \E i \in DOMAIN log' : IsNewest(log', i)
      /\ newestMerge' = e /\ ~inRound'
      BY <1>2, LogAfter DEF PRInv, Shared
<1> HIDE DEF e
<1>4. TypeOK'
      BY <1>3, BlankTyped DEF PRInv, TypeOK, Steps
<1>5. LockHeld' /\ WindowIsSeen'
      BY <1>1, NoOneAssumption DEF PRInv, TypeOK, LockHeld, WindowIsSeen, Holding, Gating, GateSteps
<1>6. Kept' = Kept /\ openPull' = openPull
      BY DEF Kept, openPull
<1>7. LogNames'
      BY <1>1, <1>2, <1>3 DEF PRInv, TypeOK, Shared, LogNames
<1>8. RowStands'
      BY <1>1, <1>2, <1>3 DEF RowStands, hasLanded
<1>9. PushedIsKept' /\ CommitsAreKept'
      BY <1>6 DEF PRInv, Shared, PushedIsKept, CommitsAreKept
<1>10. LandsOnlyMeasured'
      BY <1>2, <1>3 DEF PRInv, Shared, LandsOnlyMeasured
<1>11. Sound(c)'
      BY DEF PRInv, TypeOK, Sound, FixSound, LandSound, PlanSound, GateRow, GatePin, Gating, GateSteps
<1>12. Grows
  <2>1. /\ Len(pulls) <= Len(pulls') /\ measured \subseteq measured' /\ (loose => loose')
        BY DEF PRInv, TypeOK
  <2>2. QED BY <1>3, <2>1, <1>6 DEF Grows
<1>13. \A d \in Cmds \ {c} : Spares(d)
      BY <1>1, NoOneAssumption DEF PRInv, TypeOK, Spares, LockHeld, Holding
<1>14. QED BY <1>4, <1>5, <1>7, <1>8, <1>9, <1>10, <1>11, <1>12, <1>13, OneMoves DEF Shared

LEMMA LandStep == ASSUME PRInv, NEW c \in Cmds, Land(c) PROVE PRInv'
<1> USE DEF Land, End, github, history, bounds
<1> DEFINE e == [type |-> "landed", pr |-> my[c].pr, pin |-> my[c].pin]
<1>1. /\ Sound(c) /\ my[c].pin \in Tips /\ my[c].pr \in DOMAIN pulls /\ pc[c] = "land" /\ lock = c
      /\ my[c].pin \in measured /\ ~hasLanded /\ state = "merged"
      /\ pulls[my[c].pr].state = "MERGED" /\ pulls[my[c].pr].head = my[c].pin
      /\ pulls[my[c].pr].how # "altered"
      BY FrameTyped DEF PRInv, TypeOK, LockHeld, Holding, At, Sound, FixSound, LandSound, mergedOnto
<1>2. e \in Event /\ e.type = "landed" /\ e.pr = my[c].pr /\ e.pin = my[c].pin
      BY <1>1, BoundsAssumption DEF Event, PRInv, TypeOK
<1>3. /\ log' \in Seq(Event) /\ Len(log') = Len(log) + 1 /\ Len(log) \in Nat
      /\ Len(log') > Len(log)
      /\ DOMAIN log = 1 .. Len(log) /\ DOMAIN log' = 1 .. Len(log')
      /\ log'[Len(log')] = e
      /\ \A i \in DOMAIN log : log'[i] = log[i]
      /\ \E i \in DOMAIN log' : IsNewest(log', i)
      /\ newestMerge' = e /\ ~inRound'
      BY <1>2, LogAfter DEF PRInv, Shared
<1> HIDE DEF e
<1>4. TypeOK'
  <2>1. branch' \in Tips /\ worktree' \in BOOLEAN /\ tracking' \in Tips
        BY DEF PRInv, TypeOK, Tips
  <2>2. QED BY <1>3, <2>1, BlankTyped DEF PRInv, TypeOK, Steps
<1>5. LockHeld' /\ WindowIsSeen'
      BY <1>1, NoOneAssumption DEF PRInv, TypeOK, LockHeld, WindowIsSeen, Holding, Gating, GateSteps
<1>6. Kept' = Kept /\ openPull' = openPull
      BY DEF Kept, openPull
\* What the landing drops with the branch, the target or the pull request holds.
<1>7. branch \subseteq branch' \cup Kept
      BY <1>1 DEF Kept
<1>8. LogNames'
      BY <1>1, <1>2, <1>3 DEF PRInv, TypeOK, Shared, LogNames
<1>9. RowStands'
      BY <1>1, <1>2, <1>3 DEF RowStands
<1>10. PushedIsKept' /\ CommitsAreKept'
      BY <1>6, <1>7 DEF PRInv, Shared, PushedIsKept, CommitsAreKept, Kept
<1>11. LandsOnlyMeasured'
      BY <1>1, <1>2, <1>3 DEF PRInv, Shared, LandsOnlyMeasured
<1>12. Sound(c)'
      BY DEF PRInv, TypeOK, Sound, FixSound, LandSound, PlanSound, GateRow, GatePin, Gating, GateSteps
<1>13. Grows
  <2>1. /\ Len(pulls) <= Len(pulls') /\ measured \subseteq measured' /\ (loose => loose')
        BY DEF PRInv, TypeOK
  <2>2. QED BY <1>3, <2>1, <1>6, <1>7 DEF Grows
<1>14. \A d \in Cmds \ {c} : Spares(d)
      BY <1>1, NoOneAssumption DEF PRInv, TypeOK, Spares, LockHeld, Holding
<1>15. QED BY <1>4, <1>5, <1>8, <1>9, <1>10, <1>11, <1>12, <1>13, <1>14, OneMoves DEF Shared

-----------------------------------------------------------------------------
(* The worker, the operator, GitHub.                                        *)

\* No command moves, and what each knew is so still.
LEMMA WorldMoves ==
    ASSUME PRInv, UNCHANGED commands, TypeOK', Shared', WindowIsSeen', Grows,
           \A d \in Cmds : Spares(d)
    PROVE  PRInv'
<1>1. LockHeld'
      BY DEF commands, PRInv, LockHeld
<1>2. \A d \in Cmds : Sound(d)'
      BY <1>1, SparedIsSound DEF PRInv
<1>3. QED BY <1>1, <1>2 DEF PRInv

\* The worker, its window and the worktree: neither the log nor GitHub.
LEMMA WorkerStep ==
    ASSUME PRInv, WorkerDone \/ Unblock \/ WindowDies \/ CleansWorktree
    PROVE  PRInv'
<1> USE DEF WorkerDone, Unblock, WindowDies, CleansWorktree, commands, row, git, github, history,
        bounds
<1>1. TypeOK'
  <2>1. state' \in SessionState
        BY DEF PRInv, TypeOK, SessionState
  <2>2. /\ window' = window \/ window' = 0
        /\ worktree' = worktree \/ worktree' = FALSE
        OBVIOUS
  <2>3. window' \in Nat
        BY <2>2 DEF PRInv, TypeOK
  <2>4. worktree' \in BOOLEAN
    <3>1. worktree \in BOOLEAN
          BY DEF PRInv, TypeOK
    <3>2. QED BY <2>2, <3>1, Zenon
  <2>5. QED BY <2>1, <2>3, <2>4 DEF PRInv, TypeOK
<1>2. WindowIsSeen'
      BY DEF PRInv, WindowIsSeen, canTransition, TRANSITIONS
<1>3. RowStands' /\ Still
      BY LogIsRead DEF PRInv, Shared, RowStands, Still, canTransition, TRANSITIONS
<1>4. \A d \in Cmds : Spares(d)
      BY NoOneAssumption DEF PRInv, LockHeld, Holding, Spares
<1>5. QED BY <1>1, <1>2, <1>3, <1>4, StillIsShared, WorldMoves

LEMMA WorkerCommitsStep == ASSUME PRInv, WorkerCommits PROVE PRInv'
<1> USE DEF WorkerCommits, Commit, commands, row, git, github, history, bounds
<1>1. fresh' \in Commits /\ fresh' = fresh + 1 /\ fresh \in Nat /\ branch \in Tips
      BY BoundsAssumption DEF PRInv, TypeOK, Commits
<1>2. TypeOK'
      BY <1>1 DEF PRInv, TypeOK, Tips
<1>3. WindowIsSeen'
      BY DEF PRInv, WindowIsSeen
<1>4. openPull' = openPull /\ Kept' = Kept /\ branch \subseteq branch'
      BY DEF openPull, Kept
<1>5. LogNames' /\ RowStands' /\ PushedIsKept' /\ LandsOnlyMeasured'
      BY <1>4, LogIsRead DEF PRInv, Shared, LogNames, RowStands, PushedIsKept, IsNewest, LandsOnlyMeasured
<1>6. CommitsAreKept'
      BY <1>1 DEF PRInv, Shared, CommitsAreKept
<1>7. Grows /\ \A d \in Cmds : Spares(d)
      BY <1>4 DEF PRInv, TypeOK, Grows, Spares
<1>8. QED BY <1>2, <1>3, <1>5, <1>6, <1>7, WorldMoves DEF Shared

LEMMA ResetsBranchStep == ASSUME PRInv, ResetsBranch PROVE PRInv'
<1> USE DEF ResetsBranch, commands, row, git, github, history, bounds
<1>1. TypeOK'
      BY DEF PRInv, TypeOK, Tips
<1>2. WindowIsSeen'
      BY DEF PRInv, WindowIsSeen
\* What the branch loses the operator dropped.
<1>3. openPull' = openPull /\ Kept \subseteq Kept' /\ branch \subseteq branch' \cup Kept'
      BY DEF openPull, Kept
<1>4. LogNames' /\ RowStands' /\ PushedIsKept' /\ LandsOnlyMeasured'
      BY <1>3, LogIsRead DEF PRInv, Shared, LogNames, RowStands, PushedIsKept, IsNewest, LandsOnlyMeasured
<1>5. CommitsAreKept'
      BY DEF PRInv, Shared, CommitsAreKept
<1>6. Grows /\ \A d \in Cmds : Spares(d)
      BY <1>3, NoOneAssumption DEF PRInv, TypeOK, Grows, Spares
<1>7. QED BY <1>1, <1>2, <1>4, <1>5, <1>6, WorldMoves DEF Shared

LEMMA SomeonePushesStep == ASSUME PRInv, SomeonePushes PROVE PRInv'
<1> USE DEF SomeonePushes, Commit, commands, row, git, history, bounds
<1>1. /\ fresh' \in Commits /\ fresh' = fresh + 1 /\ fresh \in Nat
      /\ remote' = remote \cup {fresh'} /\ remote' \in Tips
      BY BoundsAssumption DEF PRInv, TypeOK, Commits, Tips
<1>2. /\ Len(pulls') = Len(pulls) /\ DOMAIN pulls' = DOMAIN pulls /\ DOMAIN pulls = 1 .. Len(pulls)
      /\ Len(pulls) \in 1 .. MaxPulls /\ pulls' \in Seq(Pull)
      /\ \A i \in DOMAIN pulls :
            /\ pulls'[i].state = pulls[i].state /\ pulls'[i].how = pulls[i].how
            /\ pulls[i].state # "OPEN" => pulls'[i] = pulls[i]
            /\ pulls[i].state = "OPEN" => pulls'[i].head = remote'
      BY <1>1, ShowIs DEF PRInv
<1>3. Kept' = Kept /\ (openPull' = 0 <=> openPull = 0)
      BY <1>1, ShowKeeps DEF PRInv
<1>4. TypeOK'
      BY <1>1, <1>2 DEF PRInv, TypeOK
<1>5. WindowIsSeen'
      BY DEF PRInv, WindowIsSeen
<1>6. LogNames' /\ RowStands'
      BY <1>2, LogIsRead DEF PRInv, Shared, LogNames, RowStands, IsNewest
<1>7. PushedIsKept'
      BY <1>1, <1>2, <1>3 DEF PRInv, Shared, PushedIsKept
<1>8. \A i \in DOMAIN pulls : pulls[i].head \subseteq pulls'[i].head
      BY <1>1, <1>2 DEF PRInv, Shared, PushedIsKept
<1>9. CommitsAreKept'
      BY <1>1, <1>2, <1>8 DEF PRInv, Shared, CommitsAreKept
<1>10. LandsOnlyMeasured'
      BY <1>2 DEF PRInv, Shared, LandsOnlyMeasured, LogNames
<1>11. Grows
  <2>1. Len(pulls) <= Len(pulls')
        BY <1>2
  <2>2. QED BY <1>2, <1>3, <2>1 DEF Grows
<1>12. \A d \in Cmds : Spares(d)
      BY <1>8 DEF Spares
<1>13. QED BY <1>4, <1>5, <1>6, <1>7, <1>9, <1>10, <1>11, <1>12, WorldMoves DEF Shared

\* A pull request keeps its head when it is reviewed, merged or closed, and GitHub
\* touches none that is not open.
LEMMA PullAnswered ==
    ASSUME PRInv, UNCHANGED <<row, window, git, remote, commands, fresh, history, bounds>>,
           openPull > 0, origin' \in Tips, origin \subseteq origin',
           pulls' \in Seq(Pull), Len(pulls') = Len(pulls),
           \A i \in DOMAIN pulls : /\ pulls'[i].head = pulls[i].head
                                   /\ pulls[i].state # "OPEN" => pulls'[i] = pulls[i]
    PROVE  PRInv'
<1> USE DEF commands, row, git, history, bounds
<1>1. /\ DOMAIN pulls = 1 .. Len(pulls) /\ DOMAIN pulls' = DOMAIN pulls /\ Len(pulls) \in 1 .. MaxPulls
      /\ openPull \in DOMAIN pulls /\ pulls[openPull].state = "OPEN"
      BY FirstOpenIs DEF openPull, PRInv, TypeOK
<1>2. Kept \subseteq Kept'
      BY <1>1 DEF Kept
<1>3. TypeOK'
      BY <1>1 DEF PRInv, TypeOK
<1>4. WindowIsSeen'
      BY DEF PRInv, WindowIsSeen
<1>5. LogNames' /\ RowStands'
      BY <1>1, LogIsRead DEF PRInv, Shared, LogNames, RowStands, IsNewest
<1>6. PushedIsKept'
  <2>1. \A i \in DOMAIN pulls' : pulls'[i].state = "OPEN" => pulls'[i].head = remote
        BY <1>1 DEF PRInv, Shared, PushedIsKept
  <2>2. openPull' = 0 => pulls'[openPull].state # "OPEN"
        BY <1>1, FirstOpenIs DEF openPull
  <2>3. openPull' = 0 => remote \subseteq Kept'
        BY <1>1, <2>2 DEF Kept, PRInv, Shared, PushedIsKept
  <2>4. QED BY <2>1, <2>3 DEF PRInv, Shared, PushedIsKept
<1>7. CommitsAreKept'
  <2>1. UNION {pulls[i].head : i \in DOMAIN pulls} \subseteq UNION {pulls'[i].head : i \in DOMAIN pulls'}
        BY <1>1
  <2>2. QED BY <2>1 DEF PRInv, Shared, CommitsAreKept
<1>8. LandsOnlyMeasured'
      BY <1>1 DEF PRInv, Shared, LandsOnlyMeasured, LogNames
<1>9. Grows
  <2>1. Len(pulls) <= Len(pulls')
        BY <1>1
  <2>2. QED BY <1>1, <1>2, <2>1 DEF Grows
<1>10. \A d \in Cmds : Spares(d)
      BY <1>1 DEF Spares
<1>11. QED BY <1>3, <1>4, <1>5, <1>6, <1>7, <1>8, <1>9, <1>10, WorldMoves DEF Shared

LEMMA GitHubStep ==
    ASSUME PRInv, Reviews \/ MergesPull \/ ClosesPull
    PROVE  PRInv'
<1>1. /\ DOMAIN pulls = 1 .. Len(pulls) /\ Len(pulls) \in Nat /\ pulls \in Seq(Pull)
      /\ openPull \in DOMAIN pulls /\ pulls[openPull].state = "OPEN" /\ openPull > 0
      BY FirstOpenIs DEF openPull, PRInv, TypeOK, Reviews, MergesPull, ClosesPull
<1>2. \A i \in DOMAIN pulls : pulls[i] \in Pull
      BY <1>1
<1>3. /\ UNCHANGED <<row, window, git, remote, commands, fresh, history, bounds>>
      /\ origin' \in Tips /\ origin \subseteq origin'
  <2>1. pulls[openPull].head \in Tips /\ origin \in Tips
        BY <1>1, <1>2 DEF Pull, PRInv, TypeOK
  <2>2. QED BY <2>1 DEF Reviews, MergesPull, ClosesPull, Tips
<1>4. PICK q \in Pull : /\ pulls' = [pulls EXCEPT ![openPull] = q]
                        /\ q.head = pulls[openPull].head
  <2> DEFINE pull == pulls[openPull]
  <2>1. pull \in Pull /\ pull.head \in Tips
        BY <1>1, <1>2 DEF Pull
  <2>2. CASE Reviews
    <3> DEFINE q == [pull EXCEPT !.reviewed = pull.head]
    <3>1. q \in Pull /\ q.head = pull.head
          BY <2>1 DEF Pull
    <3>2. pulls' = [pulls EXCEPT ![openPull] = q]
          BY <2>2 DEF Reviews
    <3>3. QED BY <3>1, <3>2
  <2>3. CASE MergesPull
    <3>1. PICK how \in {"merge", "squash", "altered"} :
             pulls' = [pulls EXCEPT ![openPull].state = "MERGED", ![openPull].how = how]
          BY <2>3 DEF MergesPull
    <3> DEFINE q == [pull EXCEPT !.state = "MERGED", !.how = how]
    <3>2. q \in Pull /\ q.head = pull.head
          BY <2>1 DEF Pull
    <3>3. pulls' = [pulls EXCEPT ![openPull] = q]
          BY <1>1, <2>1, <3>1, <3>2
    <3>4. QED BY <3>2, <3>3
  <2>4. CASE ClosesPull
    <3> DEFINE q == [pull EXCEPT !.state = "CLOSED"]
    <3>1. q \in Pull /\ q.head = pull.head
          BY <2>1 DEF Pull
    <3>2. pulls' = [pulls EXCEPT ![openPull] = q]
          BY <2>4 DEF ClosesPull
    <3>3. QED BY <3>1, <3>2
  <2>5. QED BY <2>2, <2>3, <2>4
<1>5. pulls' \in Seq(Pull) /\ Len(pulls') = Len(pulls)
      BY <1>1, <1>4
<1>6. \A i \in DOMAIN pulls : /\ pulls'[i].head = pulls[i].head
                              /\ pulls[i].state # "OPEN" => pulls'[i] = pulls[i]
      BY <1>1, <1>4
<1>7. QED BY <1>1, <1>3, <1>5, <1>6, PullAnswered

-----------------------------------------------------------------------------
(* What holds of every behaviour.                                           *)

\* The session as its first gate left it.
LEMMA PRInvInit == Init => PRInv
<1> SUFFICES ASSUME Init PROVE PRInv
    OBVIOUS
<1> DEFINE first == [type |-> "merge", pr |-> 1, pin |-> {1}]
           pull == [state |-> "OPEN", head |-> {1}, how |-> "none", reviewed |-> {}]
<1>1. /\ {1} \in Tips /\ {} \in Tips /\ 1 \in Commits /\ 1 \in 1 .. MaxPulls
      BY BoundsAssumption DEF Tips, Commits
<1>2. first \in Event /\ pull \in Pull
      BY <1>1 DEF Event, Pull
<1>3. log \in Seq(Event) /\ Len(log) = 1 /\ DOMAIN log = {1} /\ log[1] = first /\ Last(log) = first
      BY <1>2 DEF Init, Last
<1>4. pulls \in Seq(Pull) /\ Len(pulls) = 1 /\ DOMAIN pulls = {1} /\ pulls[1] = pull
      BY <1>2 DEF Init
<1>5. IsNewest(log, 1) /\ newestMerge = first /\ ~inRound /\ ~hasLanded
  <2>1. IsNewest(log, 1)
        BY <1>3 DEF IsNewest
  <2>2. newestMerge = first
        BY <1>3, <2>1, NewestIs DEF newestMerge
  <2>3. QED BY <1>3, <2>1, <2>2 DEF inRound, hasLanded
<1>6. TypeOK
  <2>1. {branch, pushed, remote, origin, tracking} \subseteq Tips
        BY <1>1 DEF Init
  <2>2. pc \in [Cmds -> Steps] /\ my \in [Cmds -> Frame]
        BY BlankTyped DEF Init, Steps
  <2>3. /\ measured \in SUBSET Tips /\ discarded \in SUBSET Commits /\ fresh \in Commits
        /\ Len(pulls) \in 1 .. MaxPulls /\ begun \in 0 .. MaxBegun /\ crashes \in 0 .. MaxCrashes
        BY <1>1, <1>4, BoundsAssumption DEF Init
  <2>4. /\ state \in SessionState /\ pane \in Nat /\ window \in Nat /\ rejects \in Nat
        /\ lock \in Cmds \cup {NoOne} /\ abandoned \in SUBSET Nat /\ failed \in Nat
        BY BoundsAssumption DEF Init, SessionState
  <2>5. worktree \in BOOLEAN /\ loose \in BOOLEAN
        BY DEF Init
  <2>6. QED BY <1>3, <1>4, <2>1, <2>2, <2>3, <2>4, <2>5 DEF TypeOK
<1>7. LockHeld /\ WindowIsSeen
      BY NoOneAssumption DEF Init, LockHeld, WindowIsSeen, Holding, Gating, GateSteps
<1>8. LogNames /\ RowStands
      BY <1>3, <1>4, <1>5 DEF Init, LogNames, RowStands
<1>9. PushedIsKept
  <2>1. pulls[1].state = "OPEN" /\ pulls[1].head = {1} /\ 1 \in DOMAIN pulls
        BY <1>4
  <2>2. openPull # 0
        BY <1>4, <2>1, FirstOpenIs DEF openPull
  <2>3. QED BY <1>4, <2>1, <2>2 DEF Init, PushedIsKept
<1>10. CommitsAreKept /\ LandsOnlyMeasured
      BY <1>3, <1>4 DEF Init, CommitsAreKept, LandsOnlyMeasured
<1>11. \A c \in Cmds : Sound(c)
      BY DEF Init, Sound, FixSound, LandSound, PlanSound, GateRow, GatePin, Gating, GateSteps
<1>12. QED BY <1>6, <1>7, <1>8, <1>9, <1>10, <1>11 DEF PRInv, Shared

\* Nothing moves.
LEMMA StutterStep == ASSUME PRInv, UNCHANGED vars PROVE PRInv'
<1> USE DEF vars, row, git, github, history, bounds
<1>1. TypeOK'
      BY DEF PRInv, TypeOK
<1>2. WindowIsSeen' /\ Quiet /\ UNCHANGED commands
      BY DEF PRInv, WindowIsSeen, Quiet, commands
<1>3. \A d \in Cmds : Spares(d)
      BY DEF Spares
<1>4. QED BY <1>1, <1>2, <1>3, QuietIsShared, WorldMoves

\* The invariant is inductive: one lemma for each step above.
LEMMA PRInvStep == PRInv /\ [Next]_vars => PRInv'
<1> SUFFICES ASSUME PRInv, [Next]_vars PROVE PRInv'
    OBVIOUS
<1>1. ASSUME NEW c \in Cmds, FixRound(c) PROVE PRInv'
      BY <1>1, FixReadsStep, FixReviewStep, FixLocksStep, restoreWorktreeStep, takeFixRoundEdgeStep,
         KillOldWindowStep, OpenWindowStep, StorePaneStep, DropWindowStep, KickoffStep, JudgeStep
         DEF FixRound
<1>2. ASSUME NEW c \in Cmds, Kill(c) PROVE PRInv'
      BY <1>2, killSessionStep, KillWindowStep, KillRowStep, SweepStep DEF Kill
<1>3. ASSUME NEW c \in Cmds, GateRun(c) PROVE PRInv'
      BY <1>3, planMergeStep, GateLocksStep, SettleStep, MeasureStep, PushBranchStep,
         OpenPullRequestStep, VerifyHeadStep, RecordMergedStep, CloseWindowStep, TeardownStep,
         RecordMergeStep, RejectStep, ParkStep, SteerReportStep, ResumeStep DEF GateRun
<1>4. ASSUME NEW c \in Cmds, Lands(c) PROVE PRInv'
      BY <1>4, LandReadsStep, LandAsksStep, LandLocksStep, LandStep DEF Lands
<1>5. CASE World
      BY <1>5, WorkerStep, WorkerCommitsStep, ResetsBranchStep, SomeonePushesStep, GitHubStep DEF World
<1>6. CASE UNCHANGED vars
      BY <1>6, StutterStep
<1>7. QED BY <1>1, <1>2, <1>3, <1>4, <1>5, <1>6, ThrowsStep, CrashStep DEF Next

(* What any number of commands know at each of their steps, on any session, *)
(* is so (module PullRequest's whole step relation).                        *)
THEOREM PRInvHolds == Spec => []PRInv
<1>1. QED BY PRInvInit, PRInvStep, PTL DEF Spec

(* The variables keep their types: the event of a merge names a pull        *)
(* request there is (recordMerge).                                          *)
THEOREM TypeCorrect == Spec => []TypeOK
<1>1. PRInv => TypeOK
      BY DEF PRInv
<1>2. QED BY <1>1, PRInvHolds, PTL

(* What pup says has landed was measured, and merged with its head at the   *)
(* pin and nothing else in it (readPullRequestLanding, mergedOnto).         *)
THEOREM LandsOnlyMeasuredHolds == Spec => []LandsOnlyMeasured
<1>1. PRInv => LandsOnlyMeasured
      BY DEF PRInv, Shared
<1>2. QED BY <1>1, PRInvHolds, PTL

(* No commit is lost by a restore, a push, a teardown or an undo: the       *)
(* branch, a pull request or the target holds it, or the operator dropped   *)
(* it (pushBranch's lease, restoreWorktree, tearDown).                      *)
THEOREM CommitsAreKeptHolds == Spec => []CommitsAreKept
<1>1. PRInv => CommitsAreKept
      BY DEF PRInv, Shared
<1>2. QED BY <1>1, PRInvHolds, PTL

(* When no command is running, a merged session has no window, but for a    *)
(* command that died or was overtaken where only it would close one         *)
(* (relaunchWorker's read of the row, killSession, gateAndMerge).           *)
THEOREM MergedIsStoppedHolds == Spec => []MergedIsStopped
<1>1. PRInv => MergedIsStopped
      BY DEF PRInv, TypeOK, WindowIsSeen, MergedIsStopped, At
<1>2. QED BY <1>1, PRInvHolds, PTL

-----------------------------------------------------------------------------
(* What no step does.                                                       *)

\* Three steps write an event, and each finds no landing before it.
LEMMA LogWrites ==
    ASSUME PRInv, [Next]_vars
    PROVE  \/ log' = log
           \/ \E c \in Cmds : takeFixRoundEdge(c) /\ pc[c] = "edge"
           \/ \E c \in Cmds : RecordMerge(c) /\ pc[c] = "event"
           \/ \E c \in Cmds : Land(c) /\ pc[c] = "land"
<1> USE DEF row, At
<1>1. ASSUME NEW c \in Cmds, FixRound(c)
      PROVE  log' = log \/ (takeFixRoundEdge(c) /\ pc[c] = "edge")
      BY <1>1 DEF FixRound, FixReads, FixReview, FixLocks, restoreWorktree, takeFixRoundEdge,
         KillOldWindow, OpenWindow, StorePane, DropWindow, Kickoff, Judge
<1>2. ASSUME NEW c \in Cmds, Kill(c) PROVE log' = log
      BY <1>2 DEF Kill, killSession, KillWindow, KillRow, Sweep
<1>3. ASSUME NEW c \in Cmds, GateRun(c)
      PROVE  log' = log \/ (RecordMerge(c) /\ pc[c] = "event")
      BY <1>3 DEF GateRun, planMerge, GateLocks, Settle, Measure, PushBranch, OpenPullRequest,
         VerifyHead, RecordMerged, CloseWindow, Teardown, RecordMerge, Reject, Park, SteerReport, Resume
<1>4. ASSUME NEW c \in Cmds, Lands(c) PROVE log' = log \/ (Land(c) /\ pc[c] = "land")
      BY <1>4 DEF Lands, LandReads, LandAsks, LandLocks, Land
<1>5. ASSUME NEW c \in Cmds, Throws(c) \/ Crash(c) PROVE log' = log
      BY <1>5 DEF Throws, Crash
<1>6. CASE World
      BY <1>6 DEF World, WorkerCommits, WorkerDone, Unblock, WindowDies, CleansWorktree,
         ResetsBranch, SomeonePushes, Reviews, MergesPull, ClosesPull
<1>7. CASE UNCHANGED vars
      BY <1>7 DEF vars
<1>8. QED BY <1>1, <1>2, <1>3, <1>4, <1>5, <1>6, <1>7 DEF Next

\* The edge is taken at the pin of the merge that stands.
LEMMA RoundStarts ==
    ASSUME PRInv, [Next]_vars
    PROVE  (Len(log') > Len(log) /\ Last(log').type = "fix_round" /\ ~loose)
               => ~hasLanded /\ worktree /\ newestMerge.pin \subseteq branch
<1>1. CASE log' = log
      BY <1>1 DEF PRInv, TypeOK
<1>2. ASSUME NEW c \in Cmds, pc[c] = "edge"
      PROVE  ~loose => ~hasLanded /\ worktree /\ newestMerge.pin \subseteq branch
      BY <1>2 DEF PRInv, Sound, FixSound
<1>3. ASSUME NEW c \in Cmds, NEW e \in {[type |-> "merge", pr |-> my[c].pr, pin |-> my[c].pin],
                                        [type |-> "landed", pr |-> my[c].pr, pin |-> my[c].pin]},
             log' = Append(log, e)
      PROVE  Last(log').type # "fix_round"
  <2>1. Len(log) \in Nat /\ log \in Seq(Event)
        BY DEF PRInv, TypeOK
  <2>2. Len(log') = Len(log) + 1 /\ log'[Len(log) + 1] = e
        BY <1>3, <2>1
  <2>3. QED BY <1>3, <2>2 DEF Last
<1>4. QED BY <1>1, <1>2, <1>3, LogWrites DEF RecordMerge, Land

\* A command leaves its rejection by that step alone, by a throw or killed.
LEMMA OnlyRejectSteers ==
    ASSUME PRInv, [Next]_vars, NEW d \in Cmds, pc[d] = "reject", pc'[d] \in {"park", "steer"}
    PROVE  Reject(d)
<1>1. pc \in [Cmds -> Steps]
      BY DEF PRInv, TypeOK
<1> USE DEF At, Goto, Begin, Then, End, Busy
<1>2. ASSUME NEW c \in Cmds, FixRound(c) PROVE FALSE
  <2>1. FixReads(c) \/ FixReview(c) \/ FixLocks(c) \/ restoreWorktree(c) => FALSE
        BY <1>1 DEF FixReads, FixReview, FixLocks, restoreWorktree
  <2>2. takeFixRoundEdge(c) \/ KillOldWindow(c) \/ OpenWindow(c) \/ StorePane(c) => FALSE
        BY <1>1 DEF takeFixRoundEdge, KillOldWindow, OpenWindow, StorePane
  <2>3. DropWindow(c) \/ Kickoff(c) \/ Judge(c) => FALSE
        BY <1>1 DEF DropWindow, Kickoff, Judge
  <2>4. QED BY <1>2, <2>1, <2>2, <2>3 DEF FixRound
<1>3. ASSUME NEW c \in Cmds, Kill(c) PROVE FALSE
      BY <1>1, <1>3 DEF Kill, killSession, KillWindow, KillRow, Sweep
<1>4. ASSUME NEW c \in Cmds, GateRun(c) PROVE Reject(d)
  <2>1. planMerge(c) => FALSE
        BY <1>1 DEF planMerge
  <2>2. GateLocks(c) => FALSE
        BY <1>1 DEF GateLocks
  <2>3. Settle(c) \/ Measure(c) \/ PushBranch(c) => FALSE
        BY <1>1 DEF Settle, Measure, PushBranch
  <2>4. OpenPullRequest(c) \/ VerifyHead(c) \/ RecordMerged(c) \/ CloseWindow(c) => FALSE
        BY <1>1 DEF OpenPullRequest, VerifyHead, RecordMerged, CloseWindow
  <2>5. Teardown(c) \/ RecordMerge(c) \/ Park(c) \/ SteerReport(c) \/ Resume(c) => FALSE
        BY <1>1 DEF Teardown, RecordMerge, Park, SteerReport, Resume
  <2>6. Reject(c) => c = d
        BY <1>1 DEF Reject
  <2>7. QED BY <1>4, <2>1, <2>2, <2>3, <2>4, <2>5, <2>6 DEF GateRun
<1>5. ASSUME NEW c \in Cmds, Lands(c) PROVE FALSE
  <2>1. LandReads(c) \/ LandAsks(c) => FALSE
        BY <1>1 DEF LandReads, LandAsks
  <2>2. LandLocks(c) => FALSE
        BY <1>1 DEF LandLocks
  <2>3. Land(c) => FALSE
        BY <1>1 DEF Land
  <2>4. QED BY <1>5, <2>1, <2>2, <2>3 DEF Lands
<1>6. ASSUME NEW c \in Cmds, Throws(c) \/ Crash(c) PROVE FALSE
      BY <1>1, <1>6 DEF Throws, Crash
<1>7. World \/ UNCHANGED vars => pc' = pc
      BY DEF World, WorkerCommits, WorkerDone, Unblock, WindowDies, CleansWorktree,
         ResetsBranch, SomeonePushes, Reviews, MergesPull, ClosesPull, commands, vars
<1>8. QED BY <1>2, <1>3, <1>4, <1>5, <1>6, <1>7 DEF Next

\* The count of a round is the rejections of its own gates.
LEMMA OwnCap ==
    ASSUME PRInv, [Next]_vars, NEW d \in Cmds, At(d, "reject")
    PROVE  /\ At(d, "park")' => failed' > MaxRejects
           /\ At(d, "steer")' => failed' <= MaxRejects
<1> SUFFICES ASSUME pc'[d] \in {"park", "steer"}
             PROVE  /\ pc'[d] = "park" => failed' > MaxRejects
                    /\ pc'[d] = "steer" => failed' <= MaxRejects
    BY DEF At
<1>1. Reject(d)
      BY OnlyRejectSteers DEF At
<1>2. /\ pc \in [Cmds -> Steps] /\ rejects \in Nat /\ failed \in Nat
      /\ rejects' = rejects + 1 /\ failed' = failed + 1
      /\ Moves("rejected")
      /\ pc'[d] = IF rejects' - rejectBase > MaxRejects THEN "park" ELSE "steer"
      BY <1>1 DEF PRInv, TypeOK, Reject, Goto, End
<1>3. inRound
      BY <1>2 DEF PRInv, Shared, RowStands, Moves, canTransition, TRANSITIONS
<1>4. rejectBase \in Nat /\ rejects - rejectBase = failed
      BY <1>3, BaseTyped DEF PRInv, Shared, RowStands
<1>5. QED BY <1>2, <1>4, BoundsAssumption

\* Out of merged leads only the edge of a round.
LEMMA MergedStays ==
    ASSUME PRInv, [Next]_vars, state = "merged", log' = log
    PROVE  state' = "merged" \/ \E c \in Cmds : takeFixRoundEdge(c)
<1> USE DEF row, Moves, canTransition, TRANSITIONS
<1>1. ASSUME NEW c \in Cmds, FixRound(c) PROVE state' = "merged" \/ takeFixRoundEdge(c)
      BY <1>1 DEF FixRound, FixReads, FixReview, FixLocks, restoreWorktree,
         KillOldWindow, OpenWindow, StorePane, DropWindow, Kickoff, Judge
<1>2. ASSUME NEW c \in Cmds, Kill(c) PROVE state' = "merged"
      BY <1>2 DEF Kill, killSession, KillWindow, KillRow, Sweep
<1>3. ASSUME NEW c \in Cmds, GateRun(c) PROVE state' = "merged"
      BY <1>3 DEF GateRun, planMerge, GateLocks, Settle, Measure, PushBranch, OpenPullRequest,
         VerifyHead, RecordMerged, CloseWindow, Teardown, RecordMerge, Reject, Park, SteerReport, Resume
<1>4. ASSUME NEW c \in Cmds, Lands(c) PROVE state' = "merged"
      BY <1>4 DEF Lands, LandReads, LandAsks, LandLocks, Land
<1>5. ASSUME NEW c \in Cmds, Throws(c) \/ Crash(c) PROVE state' = "merged"
      BY <1>5 DEF Throws, Crash
<1>6. CASE World
      BY <1>6 DEF World, WorkerCommits, WorkerDone, Unblock, WindowDies, CleansWorktree,
         ResetsBranch, SomeonePushes, Reviews, MergesPull, ClosesPull
<1>7. CASE UNCHANGED vars
      BY <1>7 DEF vars
<1>8. QED BY <1>1, <1>2, <1>3, <1>4, <1>5, <1>6, <1>7 DEF Next

\* Who would write an event, or take the edge, knows that no landing did.
LEMMA LandingIsLast ==
    ASSUME PRInv, [Next]_vars, hasLanded
    PROVE  UNCHANGED <<state, log>>
<1>1. \A c \in Cmds : pc[c] \notin {"edge", "event", "land"}
      BY DEF PRInv, Sound, FixSound, LandSound, GateRow, Gating, GateSteps
<1>2. log' = log
      BY <1>1, LogWrites
<1>3. ~\E c \in Cmds : takeFixRoundEdge(c)
      BY <1>1 DEF takeFixRoundEdge, At
<1>4. state = "merged"
      BY DEF PRInv, Shared, RowStands
<1>5. QED BY <1>2, <1>3, <1>4, MergedStays

(* A command acts on the session's record as it stands: a round starts at   *)
(* the pin of the merge that stands and never after a landing, has a reject *)
(* cap of its own, and a landing is the end (assertStillPinned,             *)
(* fixRoundRejectBase, landSession).                                        *)
THEOREM CommandsKeepToTheRecordHolds == Spec => CommandsKeepToTheRecord
<1>1. PRInv /\ [Next]_vars =>
        [ (Len(log') > Len(log) /\ Last(log').type = "fix_round" /\ ~loose)
            => ~hasLanded /\ worktree /\ newestMerge.pin \subseteq branch ]_vars
      BY RoundStarts
<1>2. PRInv /\ [Next]_vars =>
        [ \A c \in Cmds : At(c, "reject") =>
            /\ At(c, "park")' => failed' > MaxRejects
            /\ At(c, "steer")' => failed' <= MaxRejects ]_vars
  <2> SUFFICES ASSUME PRInv, [Next]_vars, NEW c \in Cmds, At(c, "reject")
               PROVE  /\ At(c, "park")' => failed' > MaxRejects
                      /\ At(c, "steer")' => failed' <= MaxRejects
      OBVIOUS
  <2>1. QED BY OwnCap
<1>3. PRInv /\ [Next]_vars => [hasLanded => UNCHANGED <<state, log>>]_vars
      BY LandingIsLast
<1>4. QED BY <1>1, <1>2, <1>3, PRInvHolds, PTL
          DEF Spec, CommandsKeepToTheRecord, RoundStartsAtThePin, RoundHasItsOwnCap, LandingStands

=============================================================================
