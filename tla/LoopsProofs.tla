----------------------------- MODULE LoopsProofs -----------------------------
(***************************************************************************)
(* What holds in every behaviour of Loops, for every value of the          *)
(* constants: of a child of the gate, of the keys, of the watchdog's loop,  *)
(* of a measurement, of the search and of a hook's clock.                   *)
(* A part's invariant holds whenever it is the subject; the subject and     *)
(* what it was given never change.                                          *)
(***************************************************************************)
EXTENDS Loops, FiniteSetTheorems, SequenceTheorems, NaturalsInduction, WellFoundedInduction, TLAPS

-----------------------------------------------------------------------------
(* The invariant of a child: it holds at first, and each step of a child,   *)
(* its group or pup keeps it.                                               *)

\* Nothing has happened to a child that is not there yet.
Unborn ==
    place = "new" => /\ ~by /\ ~overran /\ ~grace /\ ~cut
                     /\ alive = {} /\ holds = {} /\ status = "none"

\* An interrupt leaves no other end.
Marked == by => place \in {"live", "interrupted"}

\* The group is swept as its promise settles; it runs only beside its directories.
Closed ==
    /\ place # "live" => alive = {}
    /\ alive # {} => dirs
    /\ place = "live" /\ pup = "up" => dirs

\* A leader that is gone has a status, and a process that is gone holds nothing.
Exited ==
    /\ "leader" \in alive => status = "none"
    /\ place = "live" /\ status # "none" => "leader" \notin alive

\* Of a child that nothing stopped, the pipes are open; and once the lifeline is
\* let go, nobody is left to write to them.
Whole ==
    /\ grace => by \/ overran
    /\ place = "live" /\ pup = "up" /\ ~by /\ ~overran =>
          /\ pipes /\ ~cut
          /\ ~lifeline => holds = {} /\ status # "none"
    /\ place = "passed" => ~cut /\ holds = {}

Hearing == pup = "up" => (listening <=> (place = "live" \/ beside))

\* What a remembered mode says of the host, and what a spawned child does.
Confined ==
    /\ given \in Host
    /\ memo # "unset" => given.darwin /\ given.tool /\ given.probe \in {"ok", "nesting"}
    /\ place \in {"live", "passed", "interrupted"} =>
          IF given.darwin THEN given.tool /\ given.probe \in {"ok", "nesting"} ELSE given.vm

ChildInv ==
    /\ ChildTypeOK
    /\ Unborn /\ Marked /\ Closed /\ Exited /\ Whole /\ Hearing /\ Confined

\* A child not yet spawned has no process and no pipe.
LEMMA ChildInvInit == ChildInit => ChildInv
BY DEF ChildInit, ChildStart, ChildInv, ChildTypeOK, Unborn, Marked, Closed, Exited, Whole,
       Hearing, Confined, Mode, Member

\* A mode that is not "none" was probed, remembered or declared.
LEMMA ModeIsConfined ==
    ASSUME ChildInv, SandboxMode # "none"
    PROVE  /\ IF given.darwin THEN given.tool /\ given.probe \in {"ok", "nesting"} ELSE given.vm
           /\ SandboxMode \in Mode
BY DEF ChildInv, ChildTypeOK, Confined, SandboxMode, Probed, Host, Mode

\* Each step of the child, of its group, of pup and of those beside it.
LEMMA ChildInvStep ==
    ASSUME ChildInv, UNCHANGED given, [ChildNext]_childVars
    PROVE  ChildInv'
<1> USE DEF childVars, groupVars, hostVars, ChildInv, ChildTypeOK, Unborn, Marked, Closed,
            Exited, Whole, Hearing, Confined, Member
<1>1. CASE Spawn
      <2>1. dirs' = TRUE /\ memo' \in Mode \cup {"unset"} /\ place = "new" /\ pup = "up"
            BY <1>1, ModeIsConfined DEF Spawn, Invoke
      <2>2. memo' # "unset" => given.darwin /\ given.tool /\ given.probe \in {"ok", "nesting"}
            BY <1>1, ModeIsConfined DEF Spawn, Invoke
      <2>3. QED BY <1>1, <2>1, <2>2, ModeIsConfined DEF Spawn, Deaf
<1>2. CASE Refuse
      <2>1. memo' \in Mode \cup {"unset"}
            BY <1>2, ModeIsConfined DEF Refuse, Invoke
      <2>2. memo' # "unset" => given.darwin /\ given.tool /\ given.probe \in {"ok", "nesting"}
            BY <1>2, ModeIsConfined DEF Refuse, Invoke
      <2>3. QED BY <1>2, <2>1, <2>2 DEF Refuse, Invoke
<1>3. CASE Fork
      <2>1. place = "live" /\ status = "none" /\ dirs /\ "leader" \in alive
            BY <1>3 DEF Fork
      <2>2. /\ alive' \subseteq Member /\ "leader" \in alive'
            /\ holds' \subseteq {"leader", "helper", "daemon"}
            BY <1>3 DEF Fork
      <2>3. UNCHANGED <<place, status, cut, pipes, lifeline, deaf, overran, by, grace, hostVars>>
            BY <1>3 DEF Fork
      <2>4. QED BY <2>1, <2>2, <2>3
<1>4. CASE ProcessEnds
      <2>1. UNCHANGED <<place, cut, pipes, lifeline, deaf, overran, by, grace, hostVars>>
            BY <1>4 DEF ProcessEnds
      <2>2. CASE "daemon" \in holds /\ holds' = holds \ {"daemon"} /\ UNCHANGED <<alive, status>>
            BY <2>1, <2>2
      <2>3. ASSUME NEW m \in alive \cap {"leader", "helper"}, alive' = alive \ {m}, holds' = holds \ {m},
                   IF m = "leader" THEN status' \in {"zero", "other"} ELSE UNCHANGED status
            PROVE  ChildInv'
        <3>1. place = "live" /\ dirs
              BY <2>3
        <3>2. alive' \subseteq alive /\ holds' \subseteq holds /\ status' \in {"none", "zero", "other"}
              BY <2>3
        <3>3. ("leader" \in alive' => status' = "none") /\ (status' # "none" => "leader" \notin alive')
              BY <2>3
        <3>4. status # "none" => status' # "none"
              BY <2>3
        <3>5. QED BY <2>1, <3>1, <3>2, <3>3, <3>4
      <2>4. QED BY <1>4, <2>2, <2>3 DEF ProcessEnds
<1>5. CASE WatcherKills
      BY <1>5 DEF WatcherKills, Gone
<1>6. CASE Stop
      BY <1>6 DEF Stop, Pending, Gone, Stopped, closePipes
<1>7. CASE LetGo
      BY <1>7 DEF LetGo, Pending, letGo, Drained
<1>8. CASE GraceEnds
      BY <1>8 DEF GraceEnds, Pending, Gone, closePipes
<1>9. CASE Settle
      <2>1. /\ place = "live" /\ pup = "up" /\ status # "none" /\ ~lifeline
            /\ (~pipes \/ holds = {})
            BY <1>9 DEF Settle, Pending, Drained
      <2>2. alive' = {} /\ holds' = holds \ alive /\ cut' = (cut \/ alive \cap holds # {})
            BY <1>9 DEF Settle, Gone, Swept
      <2>3. place' \in {"passed", "interrupted", "failed"} /\ (by => place' = "interrupted")
            BY <1>9 DEF Settle, outcome
      <2>4. place' = "passed" => ~by /\ ~overran
            BY <1>9 DEF Settle, outcome
      <2>5. place' = "passed" => ~cut' /\ holds' = {}
            BY <2>1, <2>2, <2>4
      <2>6. status' \in {"none", "zero", "other"} /\ listening' = beside
            BY <1>9 DEF Settle, Gone, listens
      <2>7. UNCHANGED <<pipes, lifeline, deaf, overran, by, pup, beside, dirs, memo>> /\ grace' = FALSE
            BY <1>9 DEF Settle
      <2>8. cut' \in BOOLEAN
            BY <2>2
      <2>9. QED BY <2>1, <2>2, <2>3, <2>5, <2>6, <2>7, <2>8
<1>10. CASE Beside
      <2>1. /\ pup = "up" /\ beside' = ~beside /\ dirs' = (dirs \/ ~beside)
            /\ UNCHANGED <<place, alive, holds, status, cut, pipes, lifeline, deaf, overran, by,
                           grace, pup, memo>>
            BY <1>10 DEF Beside
      <2>2. listening' <=> (place = "live" \/ ~beside)
            BY <1>10 DEF Beside, listens
      <2>3. listening' \in BOOLEAN /\ beside' \in BOOLEAN /\ dirs' \in BOOLEAN
            BY <1>10, <2>1 DEF Beside, listens
      <2>4. QED BY <2>1, <2>2, <2>3
<1>11. CASE InterruptPup
      BY <1>11 DEF InterruptPup, Pending, Gone, Stopped
<1>12. CASE Exit
      BY <1>12 DEF Exit, PupGone, Gone, Killed
<1>13. CASE Die
      BY <1>13 DEF Die, PupGone
<1>14. CASE EndSandboxRun
      BY <1>14 DEF EndSandboxRun
<1>15. CASE UNCHANGED childVars
      BY <1>15
<1>16. QED BY <1>1, <1>2, <1>3, <1>4, <1>5, <1>6, <1>7, <1>8, <1>9, <1>10, <1>11, <1>12,
              <1>13, <1>14, <1>15 DEF ChildNext, PupSteps

-----------------------------------------------------------------------------
(* The invariant of the keys, for any number of rows, and the step property *)
(* that it carries.                                                         *)

\* A question is of what was wanted, and put to an operator; what is in flight is
\* what was wanted, and stands alone.
Question ==
    /\ prompt # NoOne => wanted = prompt /\ given = "operator" /\ flight = NoOne
    /\ flight # NoOne => wanted = flight /\ given = "operator" /\ prompt = NoOne
    /\ wanted.verb = "unblock" => wanted.row # 0

\* The pane and the process of a merge belong to a merge in flight.
Merging ==
    /\ mergeLog = "running" => flight.verb = "merge"
    /\ child = "up" => /\ flight.verb = "merge" /\ mergeLog = "running" /\ ~exited

\* What others have done is counted.
ControlsInv == Question /\ Merging /\ outside \in Nat

\* ControlsInit.
LEMMA ControlsInvInit == ControlsInit => ControlsInv
BY DEF ControlsInit, ControlsRests, ControlsInv, Question, Merging, NoOne

\* A merge is not an empty order.
LEMMA MergeIsAnOrder == \A order : order.verb = "merge" => order # NoOne
BY DEF NoOne

\* An order that the key of an interrupt gives changes nothing in the store.
LEMMA InterruptLeavesTheFleet == CarryOut(Ordered("interrupt")) => fleet' = fleet
BY DEF CarryOut, Ordered, Effect

\* A step of the keys, an action, a merge or somebody else keeps it.
LEMMA ControlsInvStep ==
    ASSUME ControlsInv, UNCHANGED given, [ControlsNext]_controlsVars
    PROVE  ControlsInv'
<1> USE MergeIsAnOrder DEF ControlsInv, Question, Merging, busy
<1>0. NoOne.verb = "none"
      BY DEF NoOne
<1>1. CASE Look
      BY <1>1 DEF Look
<1>2. CASE InterruptSelected
      BY <1>2 DEF InterruptSelected
<1>3. CASE Cancel
      BY <1>3, <1>0 DEF Cancel
<1>4. CASE AnswerNow
      BY <1>4, <1>0 DEF AnswerNow
<1>5. CASE AnswerLater
  <2>1. flight' = prompt /\ prompt # NoOne
        BY <1>5 DEF AnswerLater, Named, NoOne
  <2>2. QED BY <1>5, <2>1 DEF AnswerLater
<1>6. CASE AnswerMerge
      BY <1>6, <1>0 DEF AnswerMerge, Named
<1>7. CASE KeyQuit
      BY <1>7 DEF KeyQuit, Quit
<1>8. ASSUME NEW verb \in {"launch", "steer", "kill", "unblock", "merge", "start"}, Ask(verb)
      PROVE  ControlsInv'
  <2>1. prompt'.verb = "unblock" => prompt'.row # 0
        BY <1>8 DEF Ask, Asks, Ordered, WholeFleet
  <2>2. QED BY <1>8, <2>1 DEF Ask, Driven, Idle
<1>9. ASSUME NEW order \in {WholeFleet("stop"), Ordered("respawn"), Ordered("attach")},
             Begins(order)
      PROVE  ControlsInv'
  <2>1. order.verb # "unblock"
        BY DEF WholeFleet, Ordered
  <2>2. QED BY <1>9, <2>1 DEF Begins, Driven, Idle
<1>10. CASE Landed
      BY <1>10, <1>0 DEF Landed
<1>11. CASE ChildWorks
      BY <1>11 DEF ChildWorks
<1>12. CASE ChildEnds
      BY <1>12, <1>0 DEF ChildEnds, Freed
<1>13. CASE Refresh
      BY <1>13 DEF Refresh
<1>14. ASSUME NEW r \in 1 .. Rows, Elsewhere(r) PROVE ControlsInv'
      BY <1>14 DEF Elsewhere
<1>15. CASE UNCHANGED controlsVars
      BY <1>15 DEF controlsVars
<1>16. QED BY <1>1, <1>2, <1>3, <1>4, <1>5, <1>6, <1>7, <1>8, <1>9, <1>10, <1>11, <1>12,
              <1>13, <1>14, <1>15 DEF ControlsNext

\* What an order that is carried out does to the store, if it does anything: its
\* effect, on the session it was about, and for an unblock on a blocked one.
Honoured(order) ==
    fleet' # fleet =>
        /\ fleet' = Effect(order)
        /\ (order.row # 0 /\ order.verb # "launch") => fleet[1][order.row].run = order.run
        /\ (order.row # 0 /\ order.verb = "unblock") => fleet[1][order.row].state = "blocked"

\* The store is asked again before anything is done (Allowed).
LEMMA CarriedOutIsHonoured ==
    ASSUME NEW order, Allowed(order), fleet' = Effect(order)
    PROVE  Honoured(order)
<1>1. CASE order.row = 0
      BY <1>1 DEF Honoured
<1>2. CASE order.row # 0
      BY <1>2 DEF Honoured, Allowed, unblockable
<1>3. QED BY <1>1, <1>2

\* A change of the store is somebody else's, or what an operator wanted.
LEMMA StoreChanges ==
    ASSUME ControlsInv, ControlsNext, fleet' # fleet, outside' = outside
    PROVE  given = "operator" /\ wanted # NoOne /\ Honoured(wanted)
<1> USE DEF ControlsInv, Question, Merging, busy
<1>1. CASE Look
      BY <1>1 DEF Look
<1>2. CASE InterruptSelected
      BY <1>2, InterruptLeavesTheFleet DEF InterruptSelected
<1>3. CASE Cancel
      BY <1>3 DEF Cancel
<1>4. CASE AnswerNow
  <2>1. prompt # NoOne /\ CarryOut(prompt)
        BY <1>4 DEF AnswerNow, Named, NoOne
  <2>2. Allowed(wanted) /\ fleet' = Effect(wanted)
        BY <2>1 DEF CarryOut
  <2>3. QED BY <2>1, <2>2, CarriedOutIsHonoured
<1>5. CASE AnswerLater
      BY <1>5 DEF AnswerLater
<1>6. CASE AnswerMerge
      BY <1>6 DEF AnswerMerge
<1>7. CASE KeyQuit
      BY <1>7 DEF KeyQuit
<1>8. ASSUME NEW verb \in {"launch", "steer", "kill", "unblock", "merge", "start"}, Ask(verb)
      PROVE  FALSE
      BY <1>8 DEF Ask
<1>9. ASSUME NEW order, Begins(order) PROVE FALSE
      BY <1>9 DEF Begins
<1>10. CASE Landed
  <2>1. flight # NoOne /\ CarryOut(flight)
        BY <1>10 DEF Landed
  <2>2. Allowed(wanted) /\ fleet' = Effect(wanted)
        BY <2>1 DEF CarryOut
  <2>3. QED BY <2>1, <2>2, CarriedOutIsHonoured
<1>11. CASE ChildWorks
  <2>1. flight # NoOne /\ Allowed(flight) /\ fleet' = Effect(flight)
        BY <1>11, MergeIsAnOrder DEF ChildWorks
  <2>2. QED BY <2>1, CarriedOutIsHonoured
<1>12. CASE ChildEnds
      BY <1>12 DEF ChildEnds
<1>13. CASE Refresh
      BY <1>13 DEF Refresh
<1>14. ASSUME NEW r \in 1 .. Rows, Elsewhere(r) PROVE FALSE
      BY <1>14 DEF Elsewhere
<1>15. QED BY <1>1, <1>2, <1>3, <1>4, <1>5, <1>6, <1>7, <1>8, <1>9, <1>10, <1>11, <1>12,
              <1>13, <1>14 DEF ControlsNext

-----------------------------------------------------------------------------
(* The values of the keys, for any number of rows.                          *)

\* A session's number goes past the bound only by an action that was begun below
\* it, and what was launched is on the table as it is: it is not launched again.
RunsBounded ==
    \A r \in 1 .. Rows :
        \/ fleet[1][r].run <= MaxRuns
        \/ /\ view[1][r].run > MaxRuns
           /\ prompt.verb = "launch" => prompt.row # r
           /\ flight.verb = "launch" => flight.row # r

\* What changes a session names one.
OfARow == {"launch", "kill", "unblock", "merge"}
RowsNamed ==
    /\ prompt.verb \in OfARow => prompt.row # 0
    /\ flight.verb \in OfARow => flight.row # 0

ControlsTypes == ControlsTypeOK /\ RunsBounded /\ RowsNamed

\* Of two rows of the table one is above, and its line is the lesser.
LEMMA LinesAreApart ==
    /\ IsFiniteSet(Table) /\ Cardinality(Table) \in 0 .. Rows
    /\ \A r \in Table : Line(r) \in 0 .. Cardinality(Table) - 1
    /\ \A q, r \in Table : q # r => Line(q) # Line(r)
<1> DEFINE Higher(r) == {q \in Table : Above(q, r)}
<1>0. Rows \in Nat \ {0}
      BY ControlsAssumption
<1>1. IsFiniteSet(1 .. Rows) /\ Cardinality(1 .. Rows) = Rows
      BY <1>0, FS_Interval
<1>2. Table \in SUBSET (1 .. Rows)
      BY DEF Table
<1>3. IsFiniteSet(Table) /\ Cardinality(Table) <= Rows /\ Cardinality(Table) \in Nat
      BY <1>1, <1>2, FS_Subset, FS_CardinalityType
<1>4. ASSUME NEW S \in SUBSET Table, NEW T \in SUBSET S, NEW x \in S, x \notin T
      PROVE  Cardinality(T) \in Nat /\ Cardinality(T) < Cardinality(S)
  <2>1. IsFiniteSet(S) /\ Cardinality(S) \in Nat
        BY <1>3, FS_Subset, FS_CardinalityType
  <2>2. Cardinality(T) \in Nat /\ Cardinality(T) <= Cardinality(S)
        /\ (Cardinality(S) = Cardinality(T) => S = T)
        BY <2>1, FS_Subset, FS_CardinalityType
  <2>3. S # T
        BY <1>4
  <2>4. QED BY <2>1, <2>2, <2>3
<1>5. \A r \in Table : Higher(r) \in SUBSET Table /\ r \notin Higher(r)
      BY <1>2 DEF Above, Live, Planned
<1>6. \A q, r \in Table : q # r => Above(q, r) \/ Above(r, q)
      BY <1>2 DEF Above, Live, Planned, Table
<1>7. ASSUME NEW q \in Table, NEW r \in Table, Above(q, r)
      PROVE  Higher(q) \in SUBSET Higher(r) /\ q \in Higher(r)
  <2>1. \A s \in Table : Live(s) <=> ~Planned(s)
        BY DEF Table, Live, Planned
  <2>2. ASSUME NEW s \in Table, Above(s, q) PROVE Above(s, r)
    <3>1. s \in Int /\ q \in Int /\ r \in Int
          BY <1>2
    <3>2. QED BY <1>7, <2>1, <2>2, <3>1 DEF Above
  <2>3. QED BY <1>7, <2>2
<1>8. \A r \in Table : Cardinality(Higher(r)) \in Nat /\ Cardinality(Higher(r)) < Cardinality(Table)
      BY <1>4, <1>5
<1>9. \A q, r \in Table : Above(q, r) => Cardinality(Higher(q)) < Cardinality(Higher(r))
      BY <1>4, <1>5, <1>7
<1>10. \A r \in Table : Line(r) = Cardinality(Higher(r))
      BY DEF Line
<1>11. ASSUME NEW q \in Table, NEW r \in Table, q # r PROVE Line(q) # Line(r)
  <2>1. Line(q) \in Nat /\ Line(r) \in Nat
        BY <1>8, <1>10
  <2>2. Line(q) < Line(r) \/ Line(r) < Line(q)
        BY <1>6, <1>9, <1>10, <1>11
  <2>3. QED BY <2>1, <2>2
<1>12. ASSUME NEW r \in Table PROVE Line(r) \in 0 .. Cardinality(Table) - 1
  <2>1. Line(r) \in Nat /\ Line(r) < Cardinality(Table)
        BY <1>8, <1>10
  <2>2. QED BY <1>3, <2>1
<1>13. QED BY <1>0, <1>3, <1>11, <1>12

\* The cursor is on a line of the table, and there is a row on each.
LEMMA CursorIsOnARow ==
    ASSUME selected \in 0 .. Rows
    PROVE  /\ lastLine \in 0 .. Rows /\ cursor \in 0 .. lastLine
           /\ AtCursor \in 0 .. Rows /\ (AtCursor # 0 => AtCursor \in Table)
<1> DEFINE n == Cardinality(Table)
           line == [r \in Table |-> Line(r)]
<1>1. Rows \in Nat /\ Table \subseteq 1 .. Rows
      BY ControlsAssumption DEF Table
<1>2. CASE Table = {}
      BY <1>1, <1>2 DEF lastLine, cursor, AtCursor
<1>3. CASE Table # {}
  <2>1. n \in 0 .. Rows /\ n # 0
        BY <1>3, LinesAreApart, FS_EmptySet
  <2>2. lastLine = n - 1 /\ n - 1 \in 0 .. Rows
    <3>1. lastLine = n - 1
          BY <1>3 DEF lastLine
    <3>2. QED BY <1>1, <2>1, <3>1
  <2>3. cursor \in 0 .. n - 1 /\ cursor \in 0 .. lastLine
        BY <1>1, <2>1, <2>2 DEF cursor
  <2>4. IsFiniteSet(0 .. n - 1) /\ Cardinality(0 .. n - 1) = n
    <3>1. PICK m \in Nat \ {0} : m = n
          BY <2>1
    <3>2. IsFiniteSet(0 .. m - 1) /\ Cardinality(0 .. m - 1) = m
          BY FS_Interval
    <3>3. QED BY <3>1, <3>2
  <2>5. line \in Injection(Table, 0 .. n - 1)
        BY LinesAreApart DEF Injection, IsInjective
  <2>6. line \in Surjection(Table, 0 .. n - 1)
        BY <2>4, <2>5, FS_Injection
  <2>7. PICK r \in Table : line[r] = cursor
        BY <2>3, <2>6 DEF Surjection
  <2>8. \E q \in Table : Line(q) = cursor
        BY <2>7
  <2>9. AtCursor \in Table
        BY <1>3, <2>8 DEF AtCursor
  <2>10. QED BY <1>1, <2>2, <2>3, <2>9
<1>4. QED BY <1>2, <1>3

\* A fleet is a session for each row, and a conductor that runs or not.
LEMMA FleetsAre ==
    \A f : f \in Fleets <=>
        /\ f = <<f[1], f[2]>> /\ f[2] \in BOOLEAN
        /\ f[1] \in [1 .. Rows -> [state : RowStates, run : 0 .. MaxRuns + 1]]
BY DEF Fleets

LEMMA RunsAreNumbers ==
    ASSUME NEW f \in Fleets, NEW r \in 1 .. Rows
    PROVE  f[1][r].run \in Int /\ (f[1][r].run <= MaxRuns \/ f[1][r].run > MaxRuns)
<1>1. f[1][r] \in [state : RowStates, run : 0 .. MaxRuns + 1]
      BY FleetsAre
<1>2. f[1][r].run \in 0 .. MaxRuns + 1 /\ MaxRuns \in Nat
      BY <1>1, ControlsAssumption
<1>3. QED BY <1>2

LEMMA SessionsAre ==
    ASSUME fleet \in Fleets, NEW r \in 1 .. Rows
    PROVE  /\ fleet[1][r] = [state |-> fleet[1][r].state, run |-> fleet[1][r].run]
           /\ fleet[1][r].state \in RowStates /\ fleet[1][r].run \in 0 .. MaxRuns + 1
<1>1. fleet[1][r] \in [state : RowStates, run : 0 .. MaxRuns + 1]
      BY FleetsAre
<1>2. QED BY <1>1

\* One row's session is replaced.
Replaced(r, s, n) == [fleet EXCEPT ![1][r] = [state |-> s, run |-> n]]

LEMMA OneSessionMoves ==
    ASSUME fleet \in Fleets, NEW r \in 1 .. Rows,
           NEW s \in RowStates, NEW n \in 0 .. MaxRuns + 1
    PROVE  /\ Replaced(r, s, n) \in Fleets
           /\ \A q \in 1 .. Rows :
                 Replaced(r, s, n)[1][q].run = IF q = r THEN n ELSE fleet[1][q].run
<1> DEFINE moved == Replaced(r, s, n)
           rows == [fleet[1] EXCEPT ![r] = [state |-> s, run |-> n]]
<1>1. fleet = <<fleet[1], fleet[2]>> /\ fleet[2] \in BOOLEAN
      /\ fleet[1] \in [1 .. Rows -> [state : RowStates, run : 0 .. MaxRuns + 1]]
      BY FleetsAre
<1>2. moved = <<rows, fleet[2]>>
      BY <1>1 DEF Replaced
<1>3. rows \in [1 .. Rows -> [state : RowStates, run : 0 .. MaxRuns + 1]]
      BY <1>1
<1>4. moved[1] = rows /\ moved[2] = fleet[2]
      BY <1>2
<1>5. \A q \in 1 .. Rows : rows[q].run = IF q = r THEN n ELSE fleet[1][q].run
      BY <1>1
<1>6. moved \in Fleets
  <2>1. fleet[2] \in BOOLEAN
        BY <1>1
  <2>2. <<rows, fleet[2]>> \in Fleets
        BY <1>3, <2>1 DEF Fleets
  <2>3. QED BY <1>2, <2>2
<1>7. QED BY <1>4, <1>5, <1>6

\* An order that may be carried out.
Feasible(order) ==
    /\ order \in Orders
    /\ order.verb \in OfARow => order.row # 0
    /\ order.verb = "launch" => fleet[1][order.row].run <= MaxRuns

\* It leaves a fleet, and moves the run of none but the row it launches.
LEMMA EffectIs ==
    ASSUME fleet \in Fleets, NEW order, Feasible(order)
    PROVE  /\ Effect(order) \in Fleets
           /\ \A r \in 1 .. Rows :
                 \/ Effect(order)[1][r].run = fleet[1][r].run
                 \/ order.verb = "launch" /\ order.row = r
<1> DEFINE r == order.row
           here == fleet[1][r]
<1>1. order.verb \in Verbs \cup {"none"} /\ r \in 0 .. Rows /\ MaxRuns \in Nat /\ Rows \in Nat
      BY ControlsAssumption DEF Feasible, Orders
<1>2. CASE order.verb \in OfARow
  <2>0. PICK e : e = Effect(order)
        OBVIOUS
  <2>1. r \in 1 .. Rows
        BY <1>1, <1>2 DEF Feasible
  <2>2. here = [state |-> here.state, run |-> here.run] /\ here.run \in 0 .. MaxRuns + 1
        BY <2>1, SessionsAre
  <2>3. CASE order.verb = "launch"
    <3>1. here.run + 1 \in 0 .. MaxRuns + 1
          BY <1>1, <2>2, <2>3 DEF Feasible
    <3>2. e = Replaced(r, "running", here.run + 1)
          BY <1>1, <2>0, <2>1, <2>3, FleetsAre DEF Effect, Replaced
    <3>3. "running" \in RowStates
          BY DEF RowStates
    <3>4. PICK n \in 0 .. MaxRuns + 1 : n = here.run + 1
          BY <3>1
    <3>5. e = Replaced(r, "running", n)
          BY <3>2, <3>4
    <3>6. e \in Fleets /\ \A q \in 1 .. Rows : e[1][q].run = IF q = r THEN n ELSE fleet[1][q].run
          BY <2>1, <3>3, <3>5, OneSessionMoves
    <3>7. QED BY <2>0, <2>3, <3>6
  <2>4. ASSUME NEW s \in RowStates, Effect(order) = [fleet EXCEPT ![1][r].state = s]
        PROVE  /\ Effect(order) \in Fleets
               /\ \A q \in 1 .. Rows : Effect(order)[1][q].run = fleet[1][q].run
    <3>1. [here EXCEPT !.state = s] = [state |-> s, run |-> here.run]
          BY <2>2
    <3>2. e = Replaced(r, s, here.run)
          BY <2>0, <2>1, <2>4, <3>1 DEF Replaced
    <3>3. PICK n \in 0 .. MaxRuns + 1 : n = here.run
          BY <2>2
    <3>4. e = Replaced(r, s, n)
          BY <3>2, <3>3
    <3>5. e \in Fleets /\ \A q \in 1 .. Rows : e[1][q].run = IF q = r THEN n ELSE fleet[1][q].run
          BY <2>1, <3>4, OneSessionMoves
    <3>6. QED BY <2>0, <3>3, <3>5
  <2>5. QED BY <1>2, <2>3, <2>4 DEF Effect, OfARow, RowStates
<1>3. CASE order.verb \in {"start", "stop"}
  <2>1. Effect(order) = [fleet EXCEPT ![2] = (order.verb = "start")]
        BY <1>3 DEF Effect
  <2>2. fleet = <<fleet[1], fleet[2]>>
        BY FleetsAre
  <2>3. Effect(order) = <<fleet[1], order.verb = "start">>
        BY <2>1, <2>2
  <2>4. Effect(order) \in Fleets
        BY <2>3, FleetsAre DEF Fleets
  <2>5. QED BY <2>3, <2>4
<1>4. CASE order.verb \notin OfARow \cup {"start", "stop"}
      BY <1>4 DEF Effect, OfARow
<1>5. QED BY <1>2, <1>3, <1>4

\* An order the screen gives is one, of the row under the cursor if there is one.
LEMMA OrderedIs ==
    ASSUME ControlsTypes, NEW verb \in Verbs
    PROVE  Ordered(verb) \in Orders /\ WholeFleet(verb) \in Orders
<1>1. Rows \in Nat /\ MaxRuns \in Nat
      BY ControlsAssumption
<1>2. AtCursor \in 0 .. Rows
      BY CursorIsOnARow DEF ControlsTypes, ControlsTypeOK
<1>3. ASSUME AtCursor # 0 PROVE view[1][AtCursor].run \in 0 .. MaxRuns + 1
  <2>1. AtCursor \in 1 .. Rows
        BY <1>1, <1>2, <1>3
  <2>2. view[1] \in [1 .. Rows -> [state : RowStates, run : 0 .. MaxRuns + 1]]
        BY FleetsAre DEF ControlsTypes, ControlsTypeOK
  <2>3. QED BY <2>1, <2>2
<1>4. 0 \in 0 .. MaxRuns + 1 /\ 0 \in 0 .. Rows
      BY <1>1
<1>5. QED BY <1>2, <1>3, <1>4 DEF Ordered, WholeFleet, Orders

LEMMA NoOneIs == NoOne \in Orders /\ NoOne.verb = "none" /\ NoOne.verb \notin OfARow
BY ControlsAssumption DEF NoOne, Orders, OfARow

\* What is asked and what is in flight may be carried out.
LEMMA OrdersAreFeasible ==
    ASSUME ControlsTypes
    PROVE  Feasible(prompt) /\ Feasible(flight)
<1>1. ASSUME NEW order \in {prompt, flight}, order.verb = "launch"
      PROVE  fleet[1][order.row].run <= MaxRuns
  <2>1. order.row \in 0 .. Rows /\ order.row # 0
        BY <1>1 DEF ControlsTypes, ControlsTypeOK, RowsNamed, OfARow, Orders
  <2>2. order.row \in 1 .. Rows
        BY <2>1, ControlsAssumption
  <2>3. QED BY <1>1, <2>2 DEF ControlsTypes, RunsBounded
<1>2. QED BY <1>1 DEF Feasible, ControlsTypes, ControlsTypeOK, RowsNamed

\* The table is read again with no question and nothing in flight.
LEMMA ReadAgain ==
    ASSUME fleet' \in Fleets, view' = fleet', prompt' = NoOne, flight' = NoOne
    PROVE  RunsBounded' /\ RowsNamed'
<1>1. \A r \in 1 .. Rows : fleet'[1][r].run <= MaxRuns \/ fleet'[1][r].run > MaxRuns
      BY RunsAreNumbers
<1>2. QED BY <1>1, NoOneIs DEF RunsBounded, RowsNamed

\* An action is settled, and none is left.
LEMMA CarriedOutIsTyped ==
    ASSUME ControlsTypes, NEW order, Feasible(order), CarryOut(order), prompt' = NoOne, flight' = NoOne
    PROVE  {fleet', view'} \subseteq Fleets /\ RunsBounded' /\ RowsNamed'
<1>1. fleet' \in Fleets /\ view' = fleet'
      BY EffectIs DEF CarryOut, ControlsTypes, ControlsTypeOK
<1>2. QED BY <1>1, ReadAgain

LEMMA ControlsTypesInit == ControlsInit => ControlsTypes
<1> SUFFICES ASSUME ControlsInit PROVE ControlsTypes
    OBVIOUS
<1>1. MaxRuns \in Nat /\ Rows \in Nat /\ MaxOutside \in Nat
      BY ControlsAssumption
<1>2. fleet[1] \in [1 .. Rows -> [state : RowStates, run : 0 .. MaxRuns + 1]]
      BY <1>1 DEF ControlsInit, ControlsRests, RowStates
<1>3. fleet \in Fleets /\ view = fleet
      BY <1>2 DEF ControlsInit, ControlsRests, Fleets
<1>4. \A r \in 1 .. Rows : fleet[1][r].run = 0
      BY DEF ControlsInit, ControlsRests
<1>5. RunsBounded /\ RowsNamed
      BY <1>1, <1>4, NoOneIs DEF ControlsInit, ControlsRests, RunsBounded, RowsNamed
<1>6. ControlsTypeOK
  <2>1. {fleet, view} \subseteq Fleets /\ {prompt, flight, wanted} \subseteq Orders
        BY <1>3, NoOneIs DEF ControlsInit, ControlsRests
  <2>2. selected \in 0 .. Rows /\ outside \in 0 .. MaxOutside
        BY <1>1 DEF ControlsInit, ControlsRests
  <2>3. QED BY <2>1, <2>2 DEF ControlsInit, ControlsRests, ControlsTypeOK
<1>7. QED BY <1>5, <1>6 DEF ControlsTypes

\* A step of the keys, an action, a merge or somebody else keeps the values.
LEMMA ControlsTypesStep ==
    ASSUME ControlsInv, ControlsTypes, [ControlsNext]_controlsVars
    PROVE  ControlsTypes'
<1> DEFINE Plain == /\ mergeLog \in {"none", "running", "ended"} /\ child \in {"none", "up", "terminated"}
                    /\ exited \in BOOLEAN /\ outside \in 0 .. MaxOutside
<1>0. /\ Rows \in Nat /\ MaxRuns \in Nat /\ MaxOutside \in Nat
      /\ fleet \in Fleets /\ view \in Fleets /\ selected \in 0 .. Rows
      /\ prompt \in Orders /\ flight \in Orders /\ wanted \in Orders /\ Plain
      /\ RunsBounded /\ RowsNamed /\ NoOne \in Orders
      BY ControlsAssumption, NoOneIs DEF ControlsTypes, ControlsTypeOK
<1>a. SUFFICES /\ fleet' \in Fleets /\ view' \in Fleets /\ selected' \in 0 .. Rows
               /\ prompt' \in Orders /\ flight' \in Orders /\ wanted' \in Orders /\ Plain'
               /\ RunsBounded' /\ RowsNamed'
      BY DEF ControlsTypes, ControlsTypeOK
<1>1. CASE Look
  <2>1. selected' \in 0 .. Rows
        BY <1>0, <1>1, CursorIsOnARow DEF Look
  <2>2. QED BY <1>0, <1>1, <2>1 DEF Look, RunsBounded, RowsNamed
<1>2. CASE InterruptSelected
  <2>1. Feasible(Ordered("interrupt"))
        BY OrderedIs DEF Feasible, Ordered, OfARow, Verbs
  <2>2. prompt' = NoOne /\ flight' = NoOne
        BY <1>2 DEF InterruptSelected, Driven, Idle, busy
  <2>3. {fleet', view'} \subseteq Fleets /\ RunsBounded' /\ RowsNamed'
        BY <1>2, <2>1, <2>2, CarriedOutIsTyped DEF InterruptSelected
  <2>4. QED BY <1>0, <1>2, <2>3 DEF InterruptSelected
<1>3. CASE Cancel
      BY <1>0, <1>3, NoOneIs DEF Cancel, RunsBounded, RowsNamed
<1>4. CASE AnswerNow
  <2>1. prompt' = NoOne /\ flight' = NoOne /\ CarryOut(prompt)
        BY <1>4 DEF AnswerNow, busy, Named
  <2>2. {fleet', view'} \subseteq Fleets /\ RunsBounded' /\ RowsNamed'
        BY <2>1, CarriedOutIsTyped, OrdersAreFeasible
  <2>3. QED BY <1>0, <1>4, <2>1, <2>2 DEF AnswerNow
<1>5. CASE AnswerLater
  <2>1. prompt' = NoOne /\ flight' = prompt
        BY <1>5 DEF AnswerLater, Named
  <2>2. RunsBounded' /\ RowsNamed'
        BY <1>0, <1>5, <2>1, NoOneIs DEF AnswerLater, RunsBounded, RowsNamed
  <2>3. QED BY <1>0, <1>5, <2>1, <2>2 DEF AnswerLater
<1>6. CASE AnswerMerge
  <2>1. prompt' = NoOne /\ UNCHANGED <<fleet, selected, exited, outside>> /\ flight = NoOne
        BY <1>6 DEF AnswerMerge, busy
  <2>2. CASE flight' = prompt /\ mergeLog' = "running" /\ child' = "up" /\ UNCHANGED <<view, wanted>>
    <3>1. RunsBounded' /\ RowsNamed'
          BY <1>0, <1>6, <2>1, <2>2, NoOneIs DEF AnswerMerge, RunsBounded, RowsNamed
    <3>2. QED BY <1>0, <2>1, <2>2, <3>1
  <2>3. CASE mergeLog' = "none" /\ view' = fleet /\ wanted' = NoOne /\ UNCHANGED <<flight, child>>
    <3>1. RunsBounded' /\ RowsNamed'
          BY <1>0, <2>1, <2>3, ReadAgain
    <3>2. QED BY <1>0, <2>1, <2>3, <3>1
  <2>4. QED BY <1>6, <2>2, <2>3 DEF AnswerMerge, Named
<1>7. CASE KeyQuit
      BY <1>0, <1>7 DEF KeyQuit, Quit, RunsBounded, RowsNamed
<1>8. ASSUME NEW verb \in {"launch", "steer", "kill", "unblock", "merge", "start"}, Ask(verb)
      PROVE  ControlsTypes'
  <2>1. /\ prompt' \in Orders /\ wanted' = prompt' /\ prompt'.verb = verb
        /\ UNCHANGED <<fleet, view, selected, flight, mergeLog, child, exited, outside>>
        BY <1>8, OrderedIs DEF Ask, Verbs, Ordered, WholeFleet
  <2>2. RowsNamed'
        BY <1>0, <1>8, <2>1 DEF Ask, Asks, RowsNamed, OfARow, Ordered, WholeFleet
  <2>3. verb = "launch" => view[1][prompt'.row].run < MaxRuns
        BY <1>8 DEF Ask, Asks, Ordered, WholeFleet
  <2>4. ASSUME NEW r \in 1 .. Rows, view[1][r].run > MaxRuns, verb = "launch"
        PROVE  prompt'.row # r
    <3>1. view[1][r].run \in Int
          BY <1>0, RunsAreNumbers
    <3>2. ~(view[1][r].run < MaxRuns)
          BY <1>0, <2>4, <3>1
    <3>3. QED BY <2>3, <2>4, <3>2
  <2>5. RunsBounded'
        BY <1>0, <2>1, <2>4 DEF RunsBounded
  <2>6. QED BY <1>0, <2>1, <2>2, <2>5 DEF ControlsTypes, ControlsTypeOK
<1>9. ASSUME NEW order \in {WholeFleet("stop"), Ordered("respawn"), Ordered("attach")},
             Begins(order)
      PROVE  ControlsTypes'
  <2>1. order \in Orders /\ order.verb \in {"stop", "respawn", "attach"}
        BY OrderedIs DEF WholeFleet, Ordered, Verbs
  <2>2. /\ wanted' = order /\ flight' = order
        /\ UNCHANGED <<fleet, view, selected, prompt, mergeLog, child, exited, outside>>
        BY <1>9 DEF Begins
  <2>3. RunsBounded' /\ RowsNamed'
        BY <1>0, <2>1, <2>2 DEF RunsBounded, RowsNamed, OfARow
  <2>4. QED BY <1>0, <2>1, <2>2, <2>3 DEF ControlsTypes, ControlsTypeOK
<1>10. CASE Landed
  <2>1. prompt' = NoOne /\ flight' = NoOne /\ CarryOut(flight)
        BY <1>10 DEF Landed, busy, ControlsInv, Question
  <2>2. {fleet', view'} \subseteq Fleets /\ RunsBounded' /\ RowsNamed'
        BY <2>1, CarriedOutIsTyped, OrdersAreFeasible
  <2>3. QED BY <1>0, <1>10, <2>1, <2>2 DEF Landed
<1>11. CASE ChildWorks
  <2>1. flight.verb = "merge" /\ fleet' = Effect(flight)
        /\ UNCHANGED <<view, selected, prompt, flight, mergeLog, child, exited, outside, wanted>>
        BY <1>11 DEF ChildWorks, ControlsInv, Merging
  <2>2. fleet' \in Fleets /\ \A r \in 1 .. Rows : fleet'[1][r].run = fleet[1][r].run
        BY <1>0, <2>1, EffectIs, OrdersAreFeasible
  <2>3. RunsBounded' /\ RowsNamed'
        BY <1>0, <2>1, <2>2 DEF RunsBounded, RowsNamed
  <2>4. QED BY <1>0, <2>1, <2>2, <2>3
<1>12. CASE ChildEnds
  <2>1. prompt' = NoOne /\ flight' = NoOne /\ view' = fleet /\ fleet' = fleet
        BY <1>12, MergeIsAnOrder DEF ChildEnds, Freed, ControlsInv, Merging, Question
  <2>2. RunsBounded' /\ RowsNamed'
        BY <1>0, <2>1, ReadAgain
  <2>3. QED BY <1>0, <1>12, <2>1, <2>2 DEF ChildEnds, Freed
<1>13. CASE Refresh
  <2>1. view' = fleet /\ UNCHANGED <<fleet, selected, prompt, flight, mergeLog, child, exited, outside, wanted>>
        BY <1>13 DEF Refresh
  <2>2. ASSUME NEW r \in 1 .. Rows PROVE fleet[1][r].run <= MaxRuns \/ fleet[1][r].run > MaxRuns
        BY <1>0, RunsAreNumbers
  <2>3. RunsBounded' /\ RowsNamed'
        BY <1>0, <2>1, <2>2 DEF RunsBounded, RowsNamed
  <2>4. QED BY <1>0, <2>1, <2>3
<1>14. ASSUME NEW r \in 1 .. Rows, Elsewhere(r) PROVE ControlsTypes'
  <2> DEFINE n == IF fleet[1][r].state = "planned" THEN fleet[1][r].run + 1 ELSE fleet[1][r].run
  <2>1. fleet[1][r].run \in 0 .. MaxRuns + 1 /\ fleet[1][r].state \in RowStates
        BY <1>0, SessionsAre
  <2>2. PICK s \in RowStates :
           /\ fleet' = [fleet EXCEPT ![1][r] =
                         [state |-> s, run |-> IF fleet[1][r].state = "planned" THEN @.run + 1 ELSE @.run]]
           /\ fleet[1][r].state = "planned" => fleet[1][r].run < MaxRuns
        BY <1>14 DEF Elsewhere, RowStates
  <2>3. /\ outside' = outside + 1 /\ outside < MaxOutside
        /\ UNCHANGED <<view, selected, prompt, flight, mergeLog, child, exited, wanted>>
        BY <1>14 DEF Elsewhere
  <2>4. n \in 0 .. MaxRuns + 1 /\ (n <= MaxRuns \/ n = fleet[1][r].run)
        BY <1>0, <2>1, <2>2
  <2>5. PICK m \in 0 .. MaxRuns + 1 : m = n
        BY <2>4
  <2>6. fleet' = Replaced(r, s, m)
        BY <1>0, <2>2, <2>5, FleetsAre DEF Replaced
  <2>7. /\ fleet' \in Fleets
        /\ \A q \in 1 .. Rows : fleet'[1][q].run = IF q = r THEN m ELSE fleet[1][q].run
        BY <1>0, <2>6, OneSessionMoves
  <2>8. \A q \in 1 .. Rows : fleet'[1][q].run <= MaxRuns \/ fleet'[1][q].run = fleet[1][q].run
        BY <2>4, <2>5, <2>7
  <2>9. RunsBounded' /\ RowsNamed'
        BY <1>0, <2>3, <2>8 DEF RunsBounded, RowsNamed
  <2>10. outside' \in 0 .. MaxOutside
        BY <1>0, <2>3
  <2>11. QED BY <1>0, <2>3, <2>7, <2>9, <2>10 DEF ControlsTypes, ControlsTypeOK
<1>15. CASE UNCHANGED controlsVars
      BY <1>0, <1>15 DEF controlsVars, RunsBounded, RowsNamed
<1>16. QED BY <1>1, <1>2, <1>3, <1>4, <1>5, <1>6, <1>7, <1>8, <1>9, <1>10, <1>11, <1>12,
              <1>13, <1>14, <1>15 DEF ControlsNext, ControlsTypes, ControlsTypeOK
-----------------------------------------------------------------------------
(* The invariant of a measurement, for any number of nested packages.       *)

Jobs == Root \cup Nested
TheBuild == <<"build", 0>>
Unstarted(j) == job[j] \in {"none", "queued"}

JobsTyped ==
    /\ job \in [Jobs -> {"none", "queued"} \cup Running \cup Results]
    /\ slot \in {"none", "waiting", "held", "without"}
    /\ at \in {"build", "load", "measure"} \cup Outcomes
    /\ first \in [Tests -> {"nothing", "plain"}]
    /\ given.test \in BOOLEAN /\ (given.test => job[<<"test", 0>>] # "none")

\* Until the load is awaited only the build has run, and what struck it shows on it.
Alone ==
    at \in {"build", "load"} =>
        /\ slot = "none" /\ ~coverage
        /\ \A j \in Jobs \ {TheBuild} : Unstarted(j)
        /\ at = "load" => ~struck /\ job[TheBuild] = "pass"
        /\ at = "build" /\ struck => job[TheBuild] = "interrupted"

\* What struck the jobs shows on one of them, or on tests that never had their slot.
Shown ==
    \/ \E j \in Jobs : job[j] = "interrupted"
    \/ HasSuite /\ slot = "none" /\ \A j \in Tests : Unstarted(j)

Amid ==
    at = "measure" =>
        /\ slot = "none" => ~coverage /\ \A j \in Tests : job[j] \notin Running
        /\ slot = "waiting" => HasSuite /\ \A j \in Tests : Unstarted(j)
        /\ struck => Shown

AllEnded == at \in Outcomes => Settled /\ ~coverage /\ (struck => at = "interrupted")

\* A test that runs has its slot, and those before it are done with.
Chained ==
    \A j \in Tests : job[j] \in Running =>
        /\ slot \in {"held", "without"}
        /\ \A k \in Tests : Before(k, j) => job[k] \in {"none", "pass", "flaky"}

StagesInv == JobsTyped /\ Alone /\ Amid /\ AllEnded /\ Chained

\* A package has one test run, so its number names it.
LEMMA TestsByNumber ==
    /\ Tests \subseteq Jobs /\ TheBuild \in Jobs /\ TheBuild \notin Tests
    /\ <<"test", 0>> \in Tests /\ Tests \cap Measures = {}
    /\ \A j \in Tests : j[2] \in Nat
    /\ \A j, k \in Tests : j[2] = k[2] => j = k
<1>1. \A j \in Tests : j[1] = "test" /\ j[2] \in Nat /\ j = <<"test", j[2]>>
      BY PackagesAssumption DEF Tests, Root, Nested
<1>2. Tests \subseteq Jobs /\ TheBuild \in Jobs /\ <<"test", 0>> \in Tests
      BY DEF Tests, Jobs, Root, TheBuild
<1>3. TheBuild[1] = "build" /\ \A m \in Measures : m[1] # "test"
      BY DEF TheBuild, Measures
<1>4. QED BY <1>1, <1>2, <1>3

\* StagesInit.
LEMMA StagesInvInit == StagesInit => StagesInv
<1> SUFFICES ASSUME StagesInit PROVE StagesInv
    OBVIOUS
<1>1. given.test \in BOOLEAN
      BY DEF StagesInit, Branch
<1>2. given.test => <<"test", 0>> \in Declared(given)
      BY DEF Declared
<1>3. /\ \A j \in Jobs \ {TheBuild} : job[j] \in {"none", "queued"}
      /\ \A j \in Jobs : job[j] \in {"none", "queued", "runs"}
      BY DEF StagesInit, Jobs, TheBuild
<1>4. given.test => job[<<"test", 0>>] # "none"
      BY <1>2, TestsByNumber DEF StagesInit, Jobs
<1>5. job \in [Jobs -> {"none", "queued"} \cup Running \cup Results]
      BY <1>3 DEF StagesInit, Jobs, Running
<1>6. \A j \in Tests : job[j] \notin Running
      BY <1>3, TestsByNumber DEF Running
<1>7. QED BY <1>1, <1>3, <1>4, <1>5, <1>6, TestsByNumber DEF StagesInit, StagesInv, JobsTyped, Alone, Amid,
              AllEnded, Chained, Unstarted, Outcomes

\* A job that ends was running, and whatever it ends as is not idle.
LEMMA CommandEndsStep ==
    ASSUME StagesInv, UNCHANGED given, NEW c \in Jobs, CommandEnds(c)
    PROVE  StagesInv'
<1> USE TestsByNumber DEF StagesInv, JobsTyped
<1>1. /\ job[c] \in Running /\ UNCHANGED <<at, slot, coverage, struck, reported>>
      /\ job' = [job EXCEPT ![c] = job'[c]]
      /\ job'[c] \in {"reruns"} \cup (Results \ {"interrupted"})
      /\ c \notin Tests => job'[c] # "reruns" 
      BY DEF CommandEnds, Results, Running
<1>2. first' \in [Tests -> {"nothing", "plain"}]
      BY DEF CommandEnds, isRerunnable
<1>3. \A j \in Jobs : j # c => job'[j] = job[j]
      BY <1>1
<1>4. at \notin Outcomes /\ at # "load" /\ (at = "build" => c = TheBuild /\ ~struck)
      BY <1>1 DEF AllEnded, Settled, Alone, Unstarted, Running
<1>5. JobsTyped'
      BY <1>1, <1>2, <1>3 DEF Results, Running
<1>6. Alone'
      BY <1>1, <1>3, <1>4 DEF Alone, Unstarted
<1>7. Amid'
      BY <1>1, <1>3, <1>4 DEF Amid, Shown, HasSuite, Unstarted, Running, Results
<1>8. Chained'
      BY <1>1, <1>3 DEF Chained, Running, Results
<1>9. QED BY <1>1, <1>4, <1>5, <1>6, <1>7, <1>8 DEF AllEnded

\* A test starts when those before it are done with.
LEMMA RunSuiteStep ==
    ASSUME StagesInv, UNCHANGED given, NEW c \in Jobs, RunSuite(c)
    PROVE  StagesInv'
<1> USE TestsByNumber DEF StagesInv, JobsTyped
<1>1. /\ at = "measure" /\ c \in Tests /\ job[c] = "queued" /\ Due(c)
      /\ job' = [job EXCEPT ![c] = "runs"]
      /\ UNCHANGED <<at, slot, coverage, struck, first, reported>>
      BY DEF RunSuite
<1>2. /\ \A j \in Jobs : j # c => job'[j] = job[j]
      /\ job'[c] = "runs" /\ job' \in [Jobs -> {"none", "queued"} \cup Running \cup Results]
      BY <1>1 DEF Running
<1>3. Chained'
      BY <1>1, <1>2 DEF Chained, Due, Running
<1>4. Amid'
      BY <1>1, <1>2 DEF Amid, Shown, HasSuite, Unstarted, Due
<1>5. QED BY <1>1, <1>2, <1>3, <1>4 DEF Alone, AllEnded, Outcomes

\* An interrupt leaves no job running.
LEMMA InterruptStep ==
    ASSUME StagesInv, UNCHANGED given, Interrupt
    PROVE  StagesInv'
<1> USE TestsByNumber DEF StagesInv, JobsTyped
<1>1. /\ \/ at = "build" /\ job[TheBuild] \in Running
         \/ at = "measure" /\ (slot = "waiting" \/ \E j \in Jobs : job[j] \in Running)
      /\ struck' = TRUE
      /\ job' = [j \in Jobs |-> IF job[j] \in Running THEN "interrupted" ELSE job[j]]
      /\ slot' = IF slot = "waiting" THEN "none" ELSE slot
      /\ coverage' = IF slot = "waiting" THEN FALSE ELSE coverage
      /\ UNCHANGED <<at, first, reported>>
      BY DEF Interrupt, waited, TheBuild
<1>2. /\ \A j \in Jobs : job'[j] \notin Running
      /\ \A j \in Jobs : job[j] \in Running => job'[j] = "interrupted"
      /\ \A j \in Jobs : job[j] \notin Running => job'[j] = job[j]
      BY <1>1 DEF Running
<1>3. JobsTyped'
      BY <1>1, <1>2 DEF Running, Results
<1>4. Alone'
      BY <1>1, <1>2 DEF Alone, Unstarted, Running
<1>5. CASE at = "measure" /\ slot = "waiting"
  <2>1. Shown'
        BY <1>1, <1>2, <1>5 DEF Amid, Shown, HasSuite, Unstarted, Running
  <2>2. QED BY <1>1, <1>2, <1>3, <1>4, <1>5, <2>1 DEF Amid, AllEnded, Chained, Outcomes
<1>6. CASE ~(at = "measure" /\ slot = "waiting")
  <2>1. at = "measure" => Shown'
        BY <1>1, <1>2, <1>6 DEF Shown
  <2>2. QED BY <1>1, <1>2, <1>3, <1>4, <1>6, <2>1 DEF Amid, AllEnded, Chained, Outcomes, Alone
<1>7. QED BY <1>5, <1>6

\* The judge reads what struck the jobs, and waits until none of them runs.
LEMMA JudgeStep ==
    ASSUME StagesInv, UNCHANGED given, Judge
    PROVE  StagesInv'
<1> USE TestsByNumber DEF StagesInv, JobsTyped
<1>1. /\ at = "measure" /\ Settled /\ at' \in Outcomes /\ UNCHANGED <<job, slot, coverage, first, struck>>
      /\ Interrupted => at' = "interrupted"
      BY DEF Judge, End, Outcomes
<1>2. struck => Interrupted
      BY <1>1 DEF Amid, Shown, Interrupted, Unstarted
<1>3. QED BY <1>1, <1>2 DEF Alone, Amid, AllEnded, Chained, Settled, Outcomes

\* Every other step.
LEMMA StagesInvStep ==
    ASSUME StagesInv, UNCHANGED given, [StagesNext]_stagesVars
    PROVE  StagesInv'
<1> USE TestsByNumber DEF StagesInv, JobsTyped
<1>1. CASE Built
  <2>1. /\ at = "build" /\ UNCHANGED <<job, slot, coverage, struck, first>>
        /\ \/ at' = "failed" /\ job[TheBuild] = "fail"
           \/ at' = "interrupted" /\ job[TheBuild] = "interrupted"
           \/ at' = "load" /\ job[TheBuild] = "pass"
        BY <1>1 DEF Built, End, TheBuild
  <2>2. \A j \in Jobs : job[j] \notin Running
        BY <2>1 DEF Alone, Unstarted, Running
  <2>3. QED BY <2>1, <2>2 DEF Alone, Amid, AllEnded, Chained, Settled, Outcomes, Unstarted
<1>2. CASE Measure
  <2>1. /\ at = "load" /\ at' = "measure" /\ UNCHANGED <<struck, first>>
        /\ job' = [j \in Jobs |-> IF job[j] = "queued" /\ j \notin Tests THEN "runs" ELSE job[j]]
        /\ slot' = IF HasSuite THEN "waiting" ELSE "none"
        /\ coverage' = given.test
        BY <1>2 DEF Measure
  <2>2. \A j \in Tests : job'[j] = job[j] /\ job[j] \in {"none", "queued"}
        BY <2>1 DEF Alone, Unstarted
  <2>3. ~HasSuite => ~given.test
        BY DEF HasSuite
  <2>4. job' \in [Jobs -> {"none", "queued"} \cup Running \cup Results]
        BY <2>1 DEF Running
  <2>5. HasSuite' <=> HasSuite
        BY <2>2 DEF HasSuite
  <2>6. QED BY <2>1, <2>2, <2>3, <2>4, <2>5 DEF Alone, Amid, AllEnded, Chained, Outcomes, Unstarted, Running
<1>3. CASE LoadInterrupted
  <2>1. at = "load" /\ at' = "interrupted" /\ UNCHANGED <<job, slot, coverage, first>>
        BY <1>3 DEF LoadInterrupted, End
  <2>2. \A j \in Jobs : job[j] \notin Running
        BY <2>1 DEF Alone, Unstarted, Running
  <2>3. QED BY <2>1, <2>2 DEF Alone, Amid, AllEnded, Chained, Settled, Outcomes
<1>4. CASE GetSlot
      BY <1>4 DEF GetSlot, Alone, Amid, AllEnded, Chained, Settled, Shown, HasSuite, Unstarted, Outcomes
<1>5. CASE Dispose
  <2>1. coverage /\ slot # "waiting" /\ coverage' = FALSE
        /\ UNCHANGED <<at, job, slot, struck, first>>
        BY <1>5 DEF Dispose
  <2>2. QED BY <2>1 DEF Alone, Amid, AllEnded, Chained, Settled, Shown, HasSuite, Unstarted, Outcomes
<1>6. CASE SuitesDone
  <2>1. /\ slot \in {"held", "without"} /\ ~coverage /\ slot' = "none"
        /\ \A j \in Tests : job[j] \notin Running
        /\ UNCHANGED <<at, job, coverage, struck, first>>
        BY <1>6 DEF SuitesDone
  <2>2. QED BY <2>1 DEF Alone, Amid, AllEnded, Chained, Settled, Shown, HasSuite, Unstarted, Outcomes
<1>7. CASE Interrupt
      BY <1>7, InterruptStep
<1>8. CASE Judge
      BY <1>8, JudgeStep
<1>9. ASSUME NEW c \in Jobs, CommandEnds(c) \/ RunSuite(c) PROVE StagesInv'
      BY <1>9, CommandEndsStep, RunSuiteStep
<1>10. CASE UNCHANGED stagesVars
      BY <1>10 DEF stagesVars, Alone, Amid, AllEnded, Chained, Settled, Shown, HasSuite, Unstarted
<1>11. QED BY <1>1, <1>2, <1>3, <1>4, <1>5, <1>6, <1>7, <1>8, <1>9, <1>10 DEF StagesNext, Jobs

\* Of two tests that run, neither is before the other.
LEMMA OneRuns ==
    ASSUME StagesInv
    PROVE  Cardinality({j \in Tests : job[j] \in Running}) <= 1
<1> DEFINE S == {j \in Tests : job[j] \in Running}
<1>1. \A j, k \in S : j = k
      BY TestsByNumber DEF StagesInv, Chained, Before, Running
<1>2. CASE S = {}
      BY <1>2, FS_EmptySet
<1>3. CASE S # {}
  <2>1. PICK j \in S : S = {j}
        BY <1>1, <1>3
  <2>2. Cardinality(S) = 1
        BY <2>1, FS_Singleton
  <2>3. QED BY <2>2
<1>4. QED BY <1>2, <1>3

-----------------------------------------------------------------------------
(* The invariant of a hook's clock, for every timeout and any number of     *)
(* reads.                                                                   *)

Clocked ==
    /\ given.phase \in {0, 1} /\ given.closed \in BOOLEAN
    /\ given.reads \in Seq({"ends", "blocks"})
    /\ now \in Nat /\ readsAnswered \in 0 .. Len(given.reads)

\* A sleep is over before the timeout, in whichever half of a second it began;
\* the deadline is read in whole seconds, and it is a second away from it.
Timely == wakes = Never \/ (wakes \in Nat /\ wakes <= 2 * (Timeout - 2) + 1)

\* A watcher is there between its fork and its end, and sleeps only past its trap.
Watched ==
    /\ watcher \in {"gone", "born"} \cup Trapped
    /\ watcher \in {"gone", "born", "trapped"} => wakes = Never
    /\ hook \in {"next", "forked", "out"} => watcher = "gone"
    /\ hook \in {"next", "forked", "waits", "stops", "reaps", "out"}

\* A read runs only in front of a hook that waits for it, or will; what ended by
\* itself is a read that does.
Read ==
    /\ readJob \in {"none", "runs", "ended", "killed"}
    /\ hook \in {"next", "stops", "reaps", "out"} => readJob # "runs"
    /\ hook \in {"forked", "waits", "stops", "reaps"} =>
          readJob # "none" /\ readsAnswered < Len(given.reads)
    /\ hook \in {"forked", "waits", "stops", "reaps"} /\ readJob = "ended" =>
          given.reads[readsAnswered + 1] = "ends"
    /\ answer = "allow" => readsAnswered = Len(given.reads)
    /\ given.closed => \A i \in 1 .. readsAnswered : given.reads[i] = "ends"
    /\ answer \in {"none", "allow", "refuse"} /\ (answer # "none" => hook = "out")

ClockInv == Clocked /\ Timely /\ Watched /\ Read

\* HookClockInit.
LEMMA ClockInvInit == HookClockInit => ClockInv
<1> SUFFICES ASSUME HookClockInit PROVE ClockInv
    OBVIOUS
<1>1. given.reads \in Seq({"ends", "blocks"}) /\ given.phase \in {0, 1} /\ given.closed \in BOOLEAN
  <2>1. PICK n \in 1 .. MaxReads : given.reads \in [1 .. n -> {"ends", "blocks"}]
        BY DEF HookClockInit
  <2>2. given.reads \in Seq({"ends", "blocks"})
        BY <2>1, HookClockAssumption
  <2>3. QED BY <2>2 DEF HookClockInit
<1>2. Len(given.reads) \in Nat
      BY <1>1
<1>3. QED BY <1>1, <1>2 DEF HookClockInit, HookClockStart, ClockInv, Clocked, Timely, Watched, Read,
              Began, Never, Trapped

\* Whatever second it is, as many half seconds as its deadline is away end before
\* the timeout.
LEMMA SleepIsTimely ==
    ASSUME NEW t \in Nat, NEW phase \in {0, 1}
    PROVE  /\ t + 2 * (((phase \div 2) + (Timeout - 2)) - (t \div 2)) <= 2 * (Timeout - 2) + 1
           /\ t + 2 * (((phase \div 2) + (Timeout - 2)) - (t \div 2)) \in Nat
<1>1. phase \div 2 = 0
      OBVIOUS
<1>2. (t \div 2) \in Nat /\ 2 * (t \div 2) <= t /\ t <= 2 * (t \div 2) + 1
      OBVIOUS
<1>3. QED BY <1>1, <1>2, HookClockAssumption

\* A step of the hook, of a read, of its watcher or of time keeps it.
LEMMA ClockInvStep ==
    ASSUME ClockInv, UNCHANGED given, [HookClockNext]_hookClockVars
    PROVE  ClockInv'
<1> USE DEF ClockInv, Clocked, Timely, Watched, Read, Trapped
<1>0. Len(given.reads) \in Nat /\ Never \notin Nat
      BY DEF Never
<1>1. CASE ForkRead
      BY <1>1, <1>0 DEF ForkRead, readVars, watcherVars
<1>2. CASE Reap
      BY <1>2, <1>0 DEF Reap, readVars, watcherVars
<1>3. CASE StopWatcher
      BY <1>3, <1>0 DEF StopWatcher, readVars
<1>4. CASE Return
      BY <1>4, <1>0 DEF Return, watcherVars, failed
<1>5. CASE OutOfTime
      BY <1>5, <1>0 DEF OutOfTime, watcherVars
<1>6. CASE Allow
      BY <1>6, <1>0 DEF Allow, readVars, watcherVars
<1>7. CASE ReadEnds
      BY <1>7, <1>0 DEF ReadEnds, watcherVars
<1>8. CASE Watcher
  <2>1. now + 2 * (Deadline - SecondsOf(now)) \in Nat
        /\ now + 2 * (Deadline - SecondsOf(now)) <= 2 * (Timeout - 2) + 1
        BY SleepIsTimely DEF Deadline, SecondsOf, Began
  <2>2. QED BY <1>8, <2>1, <1>0 DEF Watcher, Asleep
<1>9. CASE Tick
  <2>1. now + 1 <= wakes /\ wakes # Never /\ now' = now + 1
        BY <1>9 DEF Tick, ScriptsWait, Asleep
  <2>2. now' # TimesOut
        BY <2>1, HookClockAssumption DEF TimesOut, Began
  <2>3. QED BY <1>9, <2>2, <1>0 DEF Tick, readVars, watcherVars
<1>10. CASE UNCHANGED hookClockVars
      BY <1>10 DEF hookClockVars, readVars, watcherVars
<1>11. QED BY <1>1, <1>2, <1>3, <1>4, <1>5, <1>6, <1>7, <1>8, <1>9, <1>10 DEF HookClockNext
-----------------------------------------------------------------------------
(* The search for the tests that something loads, for any number of files   *)
(* that name each other in any way.                                         *)

\* Who names a test that was asked for is known: a test by what it imports, and
\* anything else but a document by what it reaches.
IsKnown(f, u) ==
    \/ kindOf(f) = "docs"
    \/ kindOf(f) = "source" /\ u \in reached
    \/ kindOf(f) = "test" /\ f \in seen /\ u \in imports[f]

FilesTyped ==
    /\ round \subseteq seen /\ seen \subseteq TestFile /\ reached \subseteq seen
    /\ imports \in [TestFile -> SUBSET seen] /\ queue \in Seq(TestFile)
    /\ counted \in BOOLEAN /\ tests \subseteq TestFile
    /\ given.changed \subseteq seen /\ \A u \in seen : kindOf(u) = "test"

\* What is imported is named, and what is reached something loads.
Founded ==
    /\ \A t \in TestFile : \A u \in imports[t] : <<t, u>> \in given.names
    /\ \A u \in reached : \E f \in Loaders(u) : kindOf(f) = "source"
    /\ \A i \in DOMAIN queue : queue[i] \in reached

\* What was reached was followed back, or is in the queue.
FollowedBack == \A r \in reached : imports[r] \subseteq reached \/ \E i \in DOMAIN queue : queue[i] = r

SizeInv ==
    /\ FilesTyped /\ Founded
    /\ \A u \in seen \ round, f \in Importers : <<f, u>> \in given.names => IsKnown(f, u)
    /\ IF round = {} THEN FollowedBack ELSE queue = <<>>
    /\ counted => round = {} /\ queue = <<>> /\ tests = given.changed \ reached

LEMMA KindsAre ==
    /\ \A f : kindOf(f) \in {"source", "test", "docs"}
    /\ \A f \in Importers : kindOf(f) = "test" => f \in TestFile
BY DEF kindOf, Importers

\* A set has a sequence of its elements, each of them somewhere in it.
LEMMA SequenceOf ==
    ASSUME NEW S, IsFiniteSet(S)
    PROVE  /\ SetToSeq(S) \in Seq(S)
           /\ \A x \in S : \E i \in DOMAIN SetToSeq(S) : SetToSeq(S)[i] = x
<1> DEFINE n == Cardinality(S)
<1>1. n \in Nat /\ ExistsBijection(1 .. n, S)
      BY FS_CardinalityType
<1>2. PICK g \in Bijection(1 .. n, S) : TRUE
      BY <1>1 DEF ExistsBijection
<1>3. g \in [1 .. n -> S] /\ IsInjective(g)
      BY <1>2 DEF Bijection, Injection, IsInjective
<1>4. SetToSeq(S) \in [1 .. n -> S] /\ IsInjective(SetToSeq(S))
      BY <1>3 DEF SetToSeq
<1>5. SetToSeq(S) \in Injection(1 .. n, S)
      BY <1>4 DEF Injection, IsInjective
<1>6. Cardinality(1 .. n) = n /\ IsFiniteSet(1 .. n)
      BY <1>1, FS_Interval
<1>7. SetToSeq(S) \in Surjection(1 .. n, S)
      BY <1>5, <1>6, FS_Injection
<1>8. SetToSeq(S) \in Seq(S) /\ DOMAIN SetToSeq(S) = 1 .. n
      BY <1>1, <1>4
<1>9. QED BY <1>7, <1>8 DEF Surjection

LEMMA InFront ==
    ASSUME NEW s \in Seq(TestFile), s # <<>>
    PROVE  /\ Front(s) \in Seq(TestFile) /\ Last(s) \in TestFile /\ Last(s) = s[Len(s)] /\ Len(s) \in DOMAIN s
           /\ DOMAIN Front(s) = 1 .. Len(s) - 1 /\ Len(s) \in Nat \ {0} /\ DOMAIN s = 1 .. Len(s)
           /\ \A i \in 1 .. Len(s) - 1 : Front(s)[i] = s[i]
BY DEF Front, Last

\* Who loads a file that names a test loads the test.
LEMMA LoadersPass ==
    ASSUME NEW t \in TestFile, NEW r \in TestFile, <<r, t>> \in given.names, kindOf(t) = "test"
    PROVE  Loaders(r) \subseteq Loaders(t)
BY DEF Loaders, NamedWithin, Importers

LEMMA LoaderNames ==
    ASSUME NEW t \in TestFile, NEW f \in Importers, <<f, t>> \in given.names, kindOf(t) = "test"
    PROVE  f \in Loaders(t)
BY DEF Loaders, NamedWithin

\* When the search is over, a test is reached exactly if a source loads it.
LEMMA ReachedIsLoaded ==
    ASSUME SizeInv, counted, NEW t \in given.changed
    PROVE  t \in reached <=> \E f \in Loaders(t) : kindOf(f) = "source"
<1> DEFINE Left == {f \in Importers : kindOf(f) = "docs" \/ f \in seen \ reached}
<1>1. /\ round = {} /\ queue = <<>> /\ t \in seen /\ FilesTyped
      /\ \A r \in reached : imports[r] \subseteq reached
      BY DEF SizeInv, FollowedBack, FilesTyped
<1>2. ASSUME NEW u \in Left \cap TestFile, NEW f \in Importers, <<f, u>> \in given.names, kindOf(u) = "test"
      PROVE  f \in Left
  <2>1. u \in seen \ reached
        BY <1>2
  <2>2. IsKnown(f, u)
        BY <1>1, <1>2, <2>1 DEF SizeInv
  <2>3. QED BY <1>1, <2>1, <2>2 DEF IsKnown
<1>3. NamedWithin(Left)
      BY <1>2 DEF NamedWithin
<1>4. \A f \in Left : kindOf(f) # "source"
      BY <1>1 DEF FilesTyped
<1>5. t \notin reached => t \in Left
      BY <1>1 DEF Importers, FilesTyped
<1>6. t \notin reached => Loaders(t) \subseteq Left
  <2>1. Left \in SUBSET Importers
        OBVIOUS
  <2> HIDE DEF Left
  <2>2. QED BY <1>3, <1>5, <2>1 DEF Loaders
<1>7. t \in reached => \E f \in Loaders(t) : kindOf(f) = "source"
      BY DEF SizeInv, Founded
<1> HIDE DEF Left
<1>8. QED BY <1>4, <1>6, <1>7

LEMMA SizeInvInit == SizeInit => SizeInv
<1> SUFFICES ASSUME SizeInit PROVE SizeInv
    OBVIOUS
<1>1. PICK n, c, m, k :
            /\ c \in SUBSET TestFile /\ k \in SUBSET (TestFile \ c)
            /\ given = [names |-> n, changed |-> c, linked |-> k, markdownIsCode |-> m]
      BY DEF SizeInit
<1>2. /\ round = given.changed /\ seen = given.changed /\ imports = [t \in TestFile |-> {}] /\ reached = {}
      /\ queue = <<>> /\ counted = FALSE /\ tests = {}
      BY DEF SizeInit
<1>3. given.changed \subseteq TestFile /\ given.linked \cap given.changed = {}
      BY <1>1
<1>4. \A u \in given.changed : kindOf(u) = "test"
      BY <1>3, SizeAssumption DEF kindOf
<1>5. FilesTyped
  <2>1. queue \in Seq(TestFile)
    <3>1. queue = <<>>
          BY <1>2
    <3>2. QED BY <3>1
  <2>3. counted \in BOOLEAN
        BY <1>2
  <2>4. imports \in [TestFile -> SUBSET seen]
        BY <1>2
  <2>2. round \subseteq seen /\ seen \subseteq TestFile /\ reached \subseteq seen /\ tests \subseteq TestFile
        BY <1>2, <1>3
  <2>5. QED BY <1>2, <1>4, <2>1, <2>2, <2>3, <2>4 DEF FilesTyped
<1>6. Founded /\ FollowedBack
      BY <1>2 DEF Founded, FollowedBack
<1>7. QED BY <1>2, <1>5, <1>6 DEF SizeInv

\* One round of the search asks for every test that was found and not asked for.
LEMMA RoundStep ==
    ASSUME SizeInv, given' = given, Round
    PROVE  SizeInv'
<1>1. /\ ~counted /\ round # {} /\ UNCHANGED <<counted, tests>> /\ queue = <<>>
      /\ FilesTyped /\ Founded
      /\ \A u \in seen \ round, f \in Importers : <<f, u>> \in given.names => IsKnown(f, u)
      BY DEF Round, SizeInv
<1>2. PICK naming : naming = filesNaming(round)
      OBVIOUS
<1>3. PICK found : found = {f \in DOMAIN naming : kindOf(f) = "test"}
      OBVIOUS
<1>4. /\ reached' = reached \cup UNION {naming[f] : f \in DOMAIN naming \ found}
      /\ imports' = [t \in TestFile |-> imports[t] \cup (IF t \in found THEN naming[t] ELSE {})]
      /\ round' = found \ seen /\ seen' = seen \cup found
      /\ queue' = IF found \ seen = {} THEN SetToSeq(reached') ELSE queue
      BY <1>2, <1>3 DEF Round, fresh, noted
<1>5. \A f : f \in DOMAIN naming <=>
          f \in Importers /\ kindOf(f) # "docs" /\ \E t \in round : <<f, t>> \in given.names
      BY <1>2 DEF filesNaming
<1>6. \A f \in DOMAIN naming : naming[f] = {t \in round : <<f, t>> \in given.names}
      BY <1>2 DEF filesNaming
<1>7. found \subseteq TestFile /\ \A u \in found : kindOf(u) = "test"
      BY <1>3, <1>5, KindsAre
<1>8. \A f \in DOMAIN naming \ found : kindOf(f) = "source"
      BY <1>3, <1>5, KindsAre
<1>9. /\ \A u \in reached' : u \in reached \/ u \in round
      /\ \A u \in reached' \ reached : \E f \in DOMAIN naming \ found : <<f, u>> \in given.names
  <2>1. ASSUME NEW u \in reached', u \notin reached
        PROVE  u \in round /\ \E f \in DOMAIN naming \ found : <<f, u>> \in given.names
    <3>1. PICK f \in DOMAIN naming \ found : u \in naming[f]
          BY <1>4, <2>1
    <3>2. u \in round /\ <<f, u>> \in given.names
          BY <1>6, <3>1
    <3>3. QED BY <3>2
  <2>2. QED BY <2>1
<1>10. \A t \in TestFile : imports'[t] = imports[t] \cup (IF t \in found THEN naming[t] ELSE {})
      BY <1>4
<1>11. \A t \in TestFile : imports'[t] \subseteq seen' /\ \A u \in imports'[t] : <<t, u>> \in given.names
  <2>1. ASSUME NEW t \in TestFile, NEW u \in imports'[t] PROVE u \in seen' /\ <<t, u>> \in given.names
    <3>1. CASE u \in imports[t]
          BY <1>1, <1>4, <3>1 DEF FilesTyped, Founded
    <3>2. CASE u \notin imports[t]
      <4>1. t \in found /\ u \in naming[t]
            BY <1>10, <2>1, <3>2
      <4>2. u \in round /\ <<t, u>> \in given.names
            BY <1>3, <1>6, <4>1
      <4>3. QED BY <1>1, <1>4, <4>2 DEF FilesTyped
    <3>3. QED BY <3>1, <3>2
  <2>2. QED BY <2>1
<1>12. imports' \in [TestFile -> SUBSET seen']
      BY <1>4, <1>10, <1>11
<1>13. queue' \in Seq(TestFile) /\ \A i \in DOMAIN queue' : queue'[i] \in reached'
  <2>1. CASE found \ seen = {}
    <3>1. reached' \subseteq TestFile
          BY <1>1, <1>9 DEF FilesTyped
    <3>2. IsFiniteSet(reached')
          BY <3>1, SizeAssumption, FS_Subset
    <3>3. SetToSeq(reached') \in Seq(reached')
          BY <3>2, SequenceOf
    <3>4. \A i \in DOMAIN SetToSeq(reached') : SetToSeq(reached')[i] \in reached'
          BY <3>3
    <3>5. SetToSeq(reached') \in Seq(TestFile)
          BY <3>1, <3>3
    <3>6. QED BY <1>4, <2>1, <3>4, <3>5
  <2>2. CASE found \ seen # {}
    <3>1. queue' = <<>>
          BY <1>1, <1>4, <2>2
    <3>2. QED BY <3>1
  <2>3. QED BY <2>1, <2>2
<1>14. FilesTyped'
      BY <1>1, <1>4, <1>7, <1>9, <1>12, <1>13 DEF FilesTyped, kindOf
<1>15. ASSUME NEW u \in reached' PROVE \E f \in Loaders(u) : kindOf(f) = "source"
  <2>1. CASE u \in reached
        BY <1>1, <2>1 DEF Founded
  <2>2. CASE u \notin reached
    <3>1. PICK f \in DOMAIN naming \ found : <<f, u>> \in given.names
          BY <1>9, <2>2
    <3>2. u \in TestFile /\ kindOf(u) = "test" /\ f \in Importers
          BY <1>1, <1>5, <1>9, <2>2, <3>1 DEF FilesTyped
    <3>3. QED BY <1>8, <3>1, <3>2, LoaderNames
  <2>3. QED BY <2>1, <2>2
<1>16. Founded'
  <2>1. \A u : Loaders(u)' = Loaders(u)
        BY DEF Loaders, NamedWithin, kindOf
  <2>2. \A f : kindOf(f)' = kindOf(f)
        BY DEF kindOf
  <2>3. QED BY <1>11, <1>13, <1>15, <2>1, <2>2 DEF Founded
<1>17. ASSUME NEW u \in seen' \ round', NEW f \in Importers, <<f, u>> \in given.names PROVE IsKnown(f, u)'
  <2>1. u \in seen
        BY <1>4, <1>17
  <2>2. CASE u \notin round
    <3>1. IsKnown(f, u)
          BY <1>1, <1>17, <2>1, <2>2
    <3>2. QED BY <1>1, <1>4, <1>10, <3>1 DEF IsKnown, kindOf, FilesTyped
  <2>3. CASE u \in round /\ kindOf(f) # "docs"
    <3>1. f \in DOMAIN naming /\ u \in naming[f]
          BY <1>5, <1>6, <1>17, <2>3
    <3>2. CASE f \in found
          BY <1>3, <1>4, <1>7, <1>10, <3>1, <3>2 DEF IsKnown, kindOf
    <3>3. CASE f \notin found
      <4>1. u \in reached' /\ kindOf(f) = "source"
            BY <1>4, <1>8, <3>1, <3>3
      <4>2. QED BY <4>1 DEF IsKnown, kindOf
    <3>4. QED BY <3>2, <3>3
  <2>4. QED BY <2>2, <2>3 DEF IsKnown, kindOf
<1>18. IF round' = {} THEN FollowedBack' ELSE queue' = <<>>
  <2>1. CASE round' = {}
    <3>1. reached' \subseteq TestFile
          BY <1>1, <1>9 DEF FilesTyped
    <3>2. IsFiniteSet(reached') /\ queue' = SetToSeq(reached')
          BY <1>4, <2>1, <3>1, SizeAssumption, FS_Subset
    <3>3. \A x \in reached' : \E i \in DOMAIN queue' : queue'[i] = x
          BY <3>2, SequenceOf
    <3>4. QED BY <2>1, <3>3 DEF FollowedBack
  <2>2. QED BY <1>1, <1>4, <2>1
<1>19. QED BY <1>1, <1>14, <1>16, <1>17, <1>18 DEF SizeInv

\* What a reached test imports is reached, and is to be followed back in turn.
LEMMA FollowBackStep ==
    ASSUME SizeInv, given' = given, FollowBack
    PROVE  SizeInv'
<1>1. /\ ~counted /\ round = {} /\ queue # <<>> /\ UNCHANGED <<round, seen, imports, counted, tests>>
      /\ FilesTyped /\ Founded /\ FollowedBack
      /\ \A u \in seen \ round, f \in Importers : <<f, u>> \in given.names => IsKnown(f, u)
      /\ reached \subseteq seen /\ seen \subseteq TestFile
      BY DEF FollowBack, SizeInv, FilesTyped
<1>2. PICK r \in TestFile, n \in Nat \ {0}, front \in Seq(TestFile) :
        /\ r = Last(queue) /\ n = Len(queue) /\ queue[n] = r /\ front = Front(queue)
        /\ DOMAIN queue = 1 .. n /\ DOMAIN front = 1 .. n - 1 /\ \A i \in 1 .. n - 1 : front[i] = queue[i]
      BY <1>1, InFront DEF FilesTyped
<1>3. PICK more : more = imports[r] \ reached
      OBVIOUS
<1>4. reached' = reached \cup more /\ queue' = front \o SetToSeq(more)
      BY <1>2, <1>3 DEF FollowBack, Followed
<1>5. more \subseteq seen /\ more \subseteq TestFile /\ \A u \in more : <<r, u>> \in given.names
      BY <1>1, <1>2, <1>3 DEF FilesTyped, Founded
<1>6. PICK s \in Seq(more) : s = SetToSeq(more) /\ \A x \in more : \E i \in DOMAIN s : s[i] = x
  <2>1. IsFiniteSet(more)
        BY <1>5, SizeAssumption, FS_Subset
  <2>2. QED BY <2>1, SequenceOf
<1>7. PICK k \in Nat : k = Len(s) /\ DOMAIN s = 1 .. k /\ \A i \in 1 .. k : s[i] \in more
      BY <1>6
<1>8. s \in Seq(TestFile)
      BY <1>5, <1>6
<1>9. /\ queue' \in Seq(TestFile) /\ DOMAIN queue' = 1 .. n - 1 + k
      /\ \A i \in 1 .. n - 1 : queue'[i] = queue[i]
      /\ \A i \in 1 .. k : queue'[n - 1 + i] = s[i]
      /\ \A i \in n .. n - 1 + k : queue'[i] = s[i - (n - 1)] /\ i - (n - 1) \in 1 .. k
  <2>1. Len(front) = n - 1 /\ n - 1 \in Nat
        BY <1>2
  <2>2. /\ front \o s \in Seq(TestFile) /\ Len(front \o s) = n - 1 + k
        /\ \A i \in 1 .. n - 1 + k : (front \o s)[i] = IF i <= n - 1 THEN front[i] ELSE s[i - (n - 1)]
    <3>1. front \in Seq(TestFile) /\ s \in Seq(TestFile) /\ Len(s) = k
          BY <1>2, <1>7, <1>8
    <3>2. /\ front \o s \in Seq(TestFile) /\ Len(front \o s) = Len(front) + Len(s)
          /\ \A i \in 1 .. Len(front) + Len(s) :
                (front \o s)[i] = IF i <= Len(front) THEN front[i] ELSE s[i - Len(front)]
          BY <3>1, ConcatProperties
    <3>3. QED BY <2>1, <3>1, <3>2
  <2>3. DOMAIN (front \o s) = 1 .. n - 1 + k
        BY <1>7, <2>1, <2>2, LenProperties
  <2>4. \A i \in 1 .. k : n - 1 + i \in 1 .. n - 1 + k /\ ~ (n - 1 + i <= n - 1) /\ (n - 1 + i) - (n - 1) = i
        BY <1>2, <1>7
  <2>5. \A i \in n .. n - 1 + k : i \in 1 .. n - 1 + k /\ ~ (i <= n - 1) /\ i - (n - 1) \in 1 .. k
        BY <1>2, <1>7
  <2>6. \A i \in 1 .. n - 1 : i \in 1 .. n - 1 + k /\ i <= n - 1
        BY <1>2, <1>7
  <2>7. /\ \A i \in 1 .. n - 1 : queue'[i] = front[i]
        /\ \A i \in n .. n - 1 + k : queue'[i] = s[i - (n - 1)]
        BY <1>4, <1>6, <2>2, <2>5, <2>6
  <2>8. \A i \in 1 .. k : queue'[n - 1 + i] = s[i]
        BY <1>4, <1>6, <2>2, <2>4
  <2>9. QED BY <1>2, <1>4, <1>6, <2>2, <2>3, <2>5, <2>7, <2>8
<1>10. \A i \in DOMAIN queue' : queue'[i] \in reached'
  <2>1. ASSUME NEW i \in 1 .. n - 1 + k PROVE queue'[i] \in reached'
    <3>1. CASE i \in 1 .. n - 1
      <4>1. i \in 1 .. n
            BY <1>2, <3>1
      <4>2. i \in DOMAIN queue /\ queue'[i] = queue[i]
            BY <1>2, <1>9, <3>1, <4>1
      <4>3. QED BY <1>1, <1>4, <4>2 DEF Founded
    <3>2. CASE i \in n .. n - 1 + k
          BY <1>4, <1>7, <1>9, <3>2
    <3>3. QED BY <1>2, <1>7, <3>1, <3>2
  <2>2. QED BY <1>9, <2>1
<1>11. r \in reached
      BY <1>1, <1>2 DEF Founded
<1>12. ASSUME NEW u \in reached' PROVE \E f \in Loaders(u) : kindOf(f) = "source"
  <2>1. CASE u \in reached
        BY <1>1, <2>1 DEF Founded
  <2>2. CASE u \in more
    <3>1. PICK f \in Loaders(r) : kindOf(f) = "source"
          BY <1>1, <1>11 DEF Founded
    <3>2. u \in TestFile /\ kindOf(u) = "test" /\ <<r, u>> \in given.names
          BY <1>1, <1>5, <2>2 DEF FilesTyped
    <3>3. Loaders(r) \subseteq Loaders(u)
          BY <3>2, LoadersPass
    <3>4. QED BY <3>1, <3>3
  <2>3. QED BY <1>4, <2>1, <2>2
<1>13. Founded'
  <2>1. \A u : Loaders(u)' = Loaders(u)
        BY DEF Loaders, NamedWithin, kindOf
  <2>2. \A f : kindOf(f)' = kindOf(f)
        BY DEF kindOf
  <2>3. QED BY <1>1, <1>10, <1>12, <2>1, <2>2 DEF Founded
<1>14. FilesTyped'
      BY <1>1, <1>4, <1>5, <1>9 DEF FilesTyped, kindOf
<1>15. FollowedBack'
  <2>1. ASSUME NEW x \in reached' PROVE imports[x] \subseteq reached' \/ \E i \in DOMAIN queue' : queue'[i] = x
    <3>1. CASE x \in more
      <4>1. PICK i \in 1 .. k : s[i] = x
            BY <1>6, <1>7, <3>1
      <4>2. n - 1 + i \in DOMAIN queue' /\ queue'[n - 1 + i] = x
            BY <1>7, <1>9, <4>1
      <4>3. QED BY <4>2
    <3>2. CASE x = r
          BY <1>3, <1>4, <3>2
    <3>3. CASE x \in reached /\ x # r
      <4>1. CASE imports[x] \subseteq reached
            BY <1>4, <4>1
      <4>2. CASE \E i \in DOMAIN queue : queue[i] = x
        <5>1. PICK i \in 1 .. n : queue[i] = x
              BY <1>2, <4>2
        <5>2. i \in 1 .. n - 1
              BY <1>2, <3>3, <5>1
        <5>3. i \in DOMAIN queue'
              BY <1>2, <1>7, <1>9, <5>2
        <5>4. QED BY <1>9, <5>1, <5>2, <5>3
      <4>3. QED BY <1>1, <3>3, <4>1, <4>2 DEF FollowedBack
    <3>4. QED BY <1>4, <3>1, <3>2, <3>3
  <2>2. QED BY <1>1, <2>1 DEF FollowedBack
<1>16. ASSUME NEW u \in seen, NEW f \in Importers, <<f, u>> \in given.names PROVE IsKnown(f, u)'
      BY <1>1, <1>4, <1>16 DEF IsKnown, kindOf
<1>17. QED BY <1>1, <1>13, <1>14, <1>15, <1>16 DEF SizeInv

LEMMA SplitStep ==
    ASSUME SizeInv, given' = given, Split
    PROVE  SizeInv'
<1>1. /\ round = {} /\ queue = <<>> /\ counted' = TRUE /\ tests' = given.changed \ reached
      /\ UNCHANGED <<round, seen, imports, reached, queue>> /\ given.changed \subseteq TestFile
      BY DEF Split, SizeInv, FilesTyped
<1>2. QED BY <1>1 DEF SizeInv, FilesTyped, Founded, FollowedBack, IsKnown, kindOf, Loaders, NamedWithin

LEMMA SizeInvStep == ASSUME SizeInv, given' = given, [SizeNext]_sizeVars PROVE SizeInv'
<1>1. CASE UNCHANGED sizeVars
      BY <1>1 DEF sizeVars, SizeInv, FilesTyped, Founded, FollowedBack, IsKnown, kindOf, Loaders, NamedWithin
<1>2. QED BY <1>1, RoundStep, FollowBackStep, SplitStep DEF SizeNext
-----------------------------------------------------------------------------
(* What a measurement reports, for any number of nested packages.           *)

Reportable == (Jobs \cup {<<"scope-audit", 0>>, <<"diff-size", 0>>})
                  \X {"pass", "flaky", "fail", "skipped", "flagged"}

\* A job is there when the branch declares it, and ends as its kind can.
Declaring ==
    /\ given \in Branch /\ coverage \in BOOLEAN /\ struck \in BOOLEAN
    /\ \A j \in Jobs : job[j] # "none" <=> j \in Declared(given)
    /\ \A j \in Jobs : (job[j] = "threw" => j \in Measures) /\ (job[j] = "fail" => j \notin Measures)

\* All but the tests have started, and the tests are over when their slot is given back.
Going ==
    at = "measure" =>
        /\ job[TheBuild] = "pass" /\ \A j \in Jobs \ Tests : job[j] # "queued"
        /\ slot = "none" => Over \/ (HasSuite /\ \A j \in Tests : Unstarted(j))

\* A test that has started had those before it pass.
InTurn ==
    \A j \in Tests : ~Unstarted(j) =>
        \A k \in Tests : Before(k, j) => job[k] \in {"none", "pass", "flaky"}

ReportOK ==
    /\ reported \in Seq(Reportable) /\ (at \notin Outcomes => reported = <<>>)
    /\ PassIsOfEveryCommand /\ FailureIsReported

ReportInv == Declaring /\ Going /\ InTurn /\ ReportOK

LEMMA ReportInvInit == StagesInit => ReportInv
<1> SUFFICES ASSUME StagesInit PROVE ReportInv
    OBVIOUS
<1>1. /\ given \in Branch /\ at = "build" /\ coverage = FALSE /\ struck = FALSE /\ reported = <<>>
      /\ job = [j \in Jobs |-> IF j \notin Declared(given) THEN "none"
                               ELSE IF j = TheBuild THEN "runs" ELSE "queued"]
      BY DEF StagesInit, Jobs, TheBuild
<1>2. Declaring
  <2>1. coverage \in BOOLEAN /\ struck \in BOOLEAN
        BY <1>1
  <2>2. \A j \in Jobs : /\ job[j] # "none" <=> j \in Declared(given)
                        /\ job[j] # "threw" /\ job[j] # "fail"
        BY <1>1
  <2>3. QED BY <1>1, <2>1, <2>2 DEF Declaring
<1>3. TheBuild \in Jobs /\ Tests \subseteq Jobs /\ TheBuild \notin Tests
      BY TestsByNumber
<1>4. InTurn
      BY <1>1, <1>3 DEF InTurn, Unstarted
<1>5. ReportOK
  <2>1. reported \in Seq(Reportable)
        BY <1>1
  <2>2. QED BY <1>1, <2>1 DEF ReportOK, PassIsOfEveryCommand, FailureIsReported
<1>6. QED BY <1>1, <1>2, <1>4, <1>5 DEF ReportInv, Going

\* Short of the end nothing is reported, and what is declared stays so.
LEMMA ReportStays ==
    ASSUME ReportOK, UNCHANGED <<reported, given, subject>>, at' \notin {"passed", "failed"},
           at' \in Outcomes \/ at \notin Outcomes
    PROVE  ReportOK'
BY DEF ReportOK, PassIsOfEveryCommand, FailureIsReported, Measuring

LEMMA ReportCommandEnds ==
    ASSUME StagesInv, ReportInv, UNCHANGED <<given, subject>>, NEW c \in Jobs, CommandEnds(c)
    PROVE  ReportInv'
<1> USE TestsByNumber DEF StagesInv, JobsTyped
<1>1. /\ job[c] \in Running /\ UNCHANGED <<at, slot, coverage, struck, reported>>
      /\ job' = [job EXCEPT ![c] = job'[c]]
      /\ job'[c] \in {"reruns"} \cup (Results \ {"interrupted"})
      /\ job'[c] = "threw" => c \in Measures
      /\ job'[c] = "fail" => c \notin Measures
      BY DEF CommandEnds, Results, Running
<1>2. /\ \A j \in Jobs : j # c => job'[j] = job[j]
      /\ ~Unstarted(c) /\ job[c] # "none" /\ job'[c] # "none" /\ ~Unstarted(c)' /\ job[c] \notin {"none", "pass", "flaky"}
      BY <1>1 DEF Unstarted, Running, Results
<1>3. at \notin Outcomes
      BY <1>1 DEF AllEnded, Settled
<1>4. ReportOK'
      BY <1>1, <1>3, ReportStays DEF ReportInv, Outcomes
<1>5. Declaring'
      BY <1>1, <1>2 DEF ReportInv, Declaring
<1>6. InTurn'
  <2> SUFFICES ASSUME NEW j \in Tests, ~Unstarted(j)', NEW k \in Tests, Before(k, j)
               PROVE  job'[k] \in {"none", "pass", "flaky"}
      BY DEF InTurn, Before
  <2>1. ~Unstarted(j)
        BY <1>2 DEF Unstarted
  <2>2. job[k] \in {"none", "pass", "flaky"}
        BY <2>1 DEF ReportInv, InTurn
  <2>3. QED BY <1>2, <2>2
<1>7. Going'
  <2> SUFFICES ASSUME at = "measure" PROVE Going'
      BY <1>1 DEF Going
  <2>1. /\ job[TheBuild] = "pass" /\ \A j \in Jobs \ Tests : job[j] # "queued"
        /\ slot = "none" => (Over \/ (HasSuite /\ \A j \in Tests : Unstarted(j)))
        BY DEF ReportInv, Going
  <2>2. job'[TheBuild] = "pass" /\ \A j \in Jobs \ Tests : job'[j] # "queued"
        BY <1>1, <1>2, <2>1 DEF Running, Results
  <2>3. slot = "none" => \A j \in Tests : job'[j] = job[j]
        BY <1>1, <1>2 DEF Amid
  <2>4. QED BY <1>1, <2>1, <2>2, <2>3 DEF Going, Over, HasSuite, Unstarted
<1>8. QED BY <1>4, <1>5, <1>6, <1>7 DEF ReportInv

LEMMA ReportRunSuite ==
    ASSUME StagesInv, ReportInv, UNCHANGED <<given, subject>>, NEW c \in Jobs, RunSuite(c)
    PROVE  ReportInv'
<1> USE TestsByNumber DEF StagesInv, JobsTyped
<1>1. /\ at = "measure" /\ c \in Tests /\ job[c] = "queued" /\ slot \in {"held", "without"}
      /\ \A k \in Tests : Before(k, c) => job[k] \in {"none", "pass", "flaky"}
      /\ job' = [job EXCEPT ![c] = "runs"]
      /\ UNCHANGED <<at, slot, coverage, struck, first, reported>>
      BY DEF RunSuite, Due
<1>2. job'[c] = "runs" /\ \A j \in Jobs : j # c => job'[j] = job[j]
      BY <1>1
<1>3. ReportOK'
      BY <1>1, ReportStays DEF ReportInv, Outcomes
<1>4. Declaring'
      BY <1>1, <1>2 DEF ReportInv, Declaring
<1>5. InTurn'
  <2> SUFFICES ASSUME NEW j \in Tests, ~Unstarted(j)', NEW k \in Tests, Before(k, j)
               PROVE  job'[k] \in {"none", "pass", "flaky"}
      BY DEF InTurn, Before
  <2>1. job[k] \in {"none", "pass", "flaky"}
        BY <1>1, <1>2 DEF ReportInv, InTurn, Unstarted
  <2>2. QED BY <1>1, <1>2, <2>1
<1>6. Going'
      BY <1>1, <1>2 DEF ReportInv, Going
<1>7. QED BY <1>3, <1>4, <1>5, <1>6 DEF ReportInv

LEMMA ReportInterrupt ==
    ASSUME StagesInv, ReportInv, UNCHANGED <<given, subject>>, Interrupt
    PROVE  ReportInv'
<1> USE TestsByNumber DEF StagesInv, JobsTyped
<1>1. /\ at \in {"build", "measure"} /\ struck' = TRUE
      /\ job' = [j \in Jobs |-> IF job[j] \in Running THEN "interrupted" ELSE job[j]]
      /\ slot' = IF slot = "waiting" THEN "none" ELSE slot
      /\ coverage' = IF slot = "waiting" THEN FALSE ELSE coverage
      /\ UNCHANGED <<at, first, reported>>
      BY DEF Interrupt, waited
<1>2. /\ \A j \in Jobs : job[j] \in Running => job'[j] = "interrupted"
      /\ \A j \in Jobs : job[j] \notin Running => job'[j] = job[j]
      BY <1>1
<1>3. ReportOK'
      BY <1>1, ReportStays DEF ReportInv, Outcomes
<1>4. Declaring'
  <2>1. coverage' \in BOOLEAN /\ struck' \in BOOLEAN
        BY <1>1 DEF ReportInv, Declaring
  <2>2. QED BY <1>1, <1>2, <2>1 DEF ReportInv, Declaring, Running
<1>5. InTurn'
  <2> SUFFICES ASSUME NEW j \in Tests, ~Unstarted(j)', NEW k \in Tests, Before(k, j)
               PROVE  job'[k] \in {"none", "pass", "flaky"}
      BY DEF InTurn, Before
  <2>1. ~Unstarted(j)
        BY <1>2 DEF Unstarted, Running
  <2>2. QED BY <1>2, <2>1 DEF ReportInv, InTurn, Running
<1>6. Going'
  <2> SUFFICES ASSUME at = "measure" PROVE Going'
      BY <1>1 DEF Going
  <2>1. /\ job[TheBuild] = "pass" /\ \A j \in Jobs \ Tests : job[j] # "queued"
        /\ slot = "none" => (Over \/ (HasSuite /\ \A j \in Tests : Unstarted(j)))
        BY DEF ReportInv, Going
  <2>2. job'[TheBuild] = "pass" /\ \A j \in Jobs \ Tests : job'[j] # "queued"
        BY <1>2, <2>1 DEF Running
  <2>3. slot \in {"none", "waiting"} => \A j \in Tests : job'[j] = job[j]
        BY <1>2 DEF Amid, Unstarted, Running
  <2>4. slot = "waiting" => HasSuite /\ \A j \in Tests : Unstarted(j)
        BY DEF Amid
  <2>5. QED BY <1>1, <2>1, <2>2, <2>3, <2>4 DEF Going, Over, HasSuite, Unstarted
<1>7. QED BY <1>3, <1>4, <1>5, <1>6 DEF ReportInv

\* A set of numbers that is not empty has a least one.
LEMMA LeastExists ==
    ASSUME NEW S \in SUBSET Nat, S # {}
    PROVE  \E m \in S : \A d \in S : m <= d
<1>1. PICK x \in S : \A y \in S : ~ <<y, x>> \in OpToRel(<, Nat)
      BY NatLessThanWellFounded, WFMin, Zenon
<1>2. \A y \in S : ~ (y < x)
      BY <1>1 DEF OpToRel
<1>3. QED BY <1>2

Entry == (Jobs \cup {<<"scope-audit", 0>>})
             \X ({"none", "queued", "skipped", "flagged"} \cup Running \cup Results)

\* What is pushed ends at the first failure, or there is none.
LEMMA UpToTheFirst ==
    ASSUME NEW results \in Seq(Entry), NEW upTo, upTo = UpToFailure(results), Len(results) > 0
    PROVE  /\ upTo \in Seq(Entry) /\ Len(upTo) \in 1 .. Len(results)
           /\ \A i \in 1 .. Len(upTo) : upTo[i] = results[i]
           /\ \A i \in 1 .. Len(upTo) - 1 : results[i][2] # "fail"
           /\ upTo[Len(upTo)][2] = "fail" \/ (Len(upTo) = Len(results) /\ \A i \in DOMAIN results : results[i][2] # "fail")
<1> DEFINE Failing == {i \in DOMAIN results : results[i][2] = "fail"}
<1>1. PICK n \in Nat \ {0} : n = Len(results) /\ DOMAIN results = 1 .. n
      OBVIOUS
<1>2. CASE Failing = {}
  <2>1. upTo = results
        BY <1>2 DEF UpToFailure
  <2>2. \A i \in 1 .. n : results[i][2] # "fail"
        BY <1>1, <1>2
  <2>3. QED BY <1>1, <2>1, <2>2
<1>3. CASE Failing # {}
  <2>1. PICK m \in Failing : \A d \in Failing : m <= d
    <3>1. Failing \in SUBSET Nat
          BY <1>1
    <3> HIDE DEF Failing
    <3>2. QED BY <1>3, <3>1, LeastExists
  <2>2. \A k \in 1 .. (m - 1) : results[k][2] # "fail"
        BY <1>1, <2>1
  <2>3. \A i \in DOMAIN results :
            results[i][2] = "fail" /\ (\A k \in 1 .. (i - 1) : results[k][2] # "fail") => i = m
    <3> SUFFICES ASSUME NEW i \in 1 .. n, results[i][2] = "fail", \A k \in 1 .. (i - 1) : results[k][2] # "fail"
                 PROVE  i = m
        BY <1>1
    <3>1. m <= i /\ m \in 1 .. n
          BY <1>1, <2>1
    <3>2. ~ (m \in 1 .. (i - 1))
          BY <2>1
    <3>3. QED BY <3>1, <3>2
  <2>4. upTo = SubSeq(results, 1, m)
        BY <1>3, <2>1, <2>2, <2>3 DEF UpToFailure
  <2>5. m \in 1 .. n
        BY <1>1, <2>1
  <2>6. upTo \in Seq(Entry) /\ Len(upTo) = m /\ \A i \in 1 .. m : upTo[i] = results[i]
        BY <1>1, <2>4, <2>5
  <2>7. QED BY <1>1, <2>1, <2>2, <2>5, <2>6
<1>4. QED BY <1>2, <1>3

\* The place of a job among the results, the build's being the first
PlaceOf(j) == CASE j = <<"test", 0>> -> 2
                [] j = <<"lint", 0>> -> 3
                [] OTHER -> IF j[1] = "typecheck" THEN 2 * j[2] + 2 ELSE 2 * j[2] + 3

\* The jobs that are read in order: the root's, and those of the nested packages.
ReadInOrder(b) == {<<"test", 0>>, <<"lint", 0>>} \cup {j \in Nested : j[2] <= b.nested}

LEMMA OrderIs ==
    ASSUME NEW b, b.nested \in 0 .. Packages
    PROVE  /\ DOMAIN Order(b) = 1 .. 2 + 2 * b.nested
           /\ \A i \in 1 .. 2 + 2 * b.nested : Order(b)[i] \in ReadInOrder(b) /\ PlaceOf(Order(b)[i]) = i + 1
           /\ \A j \in ReadInOrder(b) : /\ PlaceOf(j) - 1 \in 1 .. 2 + 2 * b.nested
                                     /\ Order(b)[PlaceOf(j) - 1] = j
<1>1. b.nested \in Nat /\ Packages \in Nat /\ b.nested <= Packages
      BY PackagesAssumption
<1>2. DOMAIN Order(b) = 1 .. 2 + 2 * b.nested
      BY DEF Order
<1>3. Order(b)[1] = <<"test", 0>> /\ Order(b)[2] = <<"lint", 0>>
      BY <1>1 DEF Order
<1>4. ASSUME NEW p \in 1 .. b.nested
      PROVE  /\ 2 * p + 1 \in 1 .. 2 + 2 * b.nested /\ 2 * p + 2 \in 1 .. 2 + 2 * b.nested
             /\ Order(b)[2 * p + 1] = <<"typecheck", p>> /\ Order(b)[2 * p + 2] = <<"test", p>>
  <2>1. 2 * p + 1 \in 1 .. 2 + 2 * b.nested /\ 2 * p + 2 \in 1 .. 2 + 2 * b.nested
        BY <1>1
  <2>2. (2 * p + 1) % 2 = 1 /\ ((2 * p + 1) - 1) \div 2 = p /\ (2 * p + 2) % 2 = 0 /\ ((2 * p + 2) - 1) \div 2 = p
        BY <1>1
  <2>3. 2 * p + 1 # 1 /\ 2 * p + 1 # 2 /\ 2 * p + 2 # 1 /\ 2 * p + 2 # 2
        BY <1>1
  <2>4. QED BY <2>1, <2>2, <2>3 DEF Order
<1>5. \A p \in 1 .. b.nested : p \in 1 .. Packages /\ p # 0
      BY <1>1
<1>6. \A p \in 1 .. b.nested : PlaceOf(<<"typecheck", p>>) = 2 * p + 2 /\ PlaceOf(<<"test", p>>) = 2 * p + 3
      BY <1>5 DEF PlaceOf
<1>7. PlaceOf(<<"test", 0>>) = 2 /\ PlaceOf(<<"lint", 0>>) = 3
      BY DEF PlaceOf
<1>8. \A j \in ReadInOrder(b) : \/ j = <<"test", 0>> \/ j = <<"lint", 0>>
                             \/ \E p \in 1 .. b.nested : j = <<"typecheck", p>> \/ j = <<"test", p>>
  <2>1. ASSUME NEW j \in Nested, j[2] <= b.nested PROVE \E p \in 1 .. b.nested : j = <<"typecheck", p>> \/ j = <<"test", p>>
    <3>1. PICK s \in {"test", "typecheck"}, p \in 1 .. Packages : j = <<s, p>>
          BY DEF Nested
    <3>2. p \in 1 .. b.nested
          BY <1>1, <2>1, <3>1
    <3>3. QED BY <3>1, <3>2
  <2>2. QED BY <2>1 DEF ReadInOrder
<1>9. \A p \in 1 .. b.nested : <<"typecheck", p>> \in ReadInOrder(b) /\ <<"test", p>> \in ReadInOrder(b)
  <2>1. ASSUME NEW p \in 1 .. b.nested, NEW s \in {"test", "typecheck"} PROVE <<s, p>> \in ReadInOrder(b)
    <3>1. <<s, p>> \in Nested /\ <<s, p>>[2] = p /\ p <= b.nested
          BY <1>1, <1>5 DEF Nested
    <3>2. QED BY <3>1 DEF ReadInOrder
  <2>2. QED BY <2>1
<1>10. ASSUME NEW j \in ReadInOrder(b)
       PROVE  PlaceOf(j) - 1 \in 1 .. 2 + 2 * b.nested /\ Order(b)[PlaceOf(j) - 1] = j
  <2>1. CASE j = <<"test", 0>> \/ j = <<"lint", 0>>
    <3>1. 1 \in 1 .. 2 + 2 * b.nested /\ 2 \in 1 .. 2 + 2 * b.nested
          BY <1>1
    <3>2. QED BY <1>3, <1>7, <2>1, <3>1
  <2>2. ASSUME NEW p \in 1 .. b.nested, j = <<"typecheck", p>>
        PROVE  PlaceOf(j) - 1 \in 1 .. 2 + 2 * b.nested /\ Order(b)[PlaceOf(j) - 1] = j
    <3>1. PlaceOf(j) = 2 * p + 2
          BY <1>6, <2>2
    <3>2. PlaceOf(j) - 1 = 2 * p + 1
          BY <1>1, <3>1
    <3>3. QED BY <1>4, <2>2, <3>2
  <2>3. ASSUME NEW p \in 1 .. b.nested, j = <<"test", p>>
        PROVE  PlaceOf(j) - 1 \in 1 .. 2 + 2 * b.nested /\ Order(b)[PlaceOf(j) - 1] = j
    <3>1. PlaceOf(j) = 2 * p + 3
          BY <1>6, <2>3
    <3>2. PlaceOf(j) - 1 = 2 * p + 2
          BY <1>1, <3>1
    <3>3. QED BY <1>4, <2>3, <3>2
  <2>4. QED BY <1>8, <2>1, <2>2, <2>3
<1>11. ASSUME NEW i \in 1 .. 2 + 2 * b.nested PROVE Order(b)[i] \in ReadInOrder(b) /\ PlaceOf(Order(b)[i]) = i + 1
  <2>1. CASE i = 1 \/ i = 2
        BY <1>3, <1>7, <2>1 DEF ReadInOrder
  <2>2. CASE i # 1 /\ i # 2
    <3>1. \E p \in 1 .. b.nested : i = 2 * p + 1 \/ i = 2 * p + 2
      <4>1. (i - 1) \div 2 \in 1 .. b.nested /\ (i = 2 * ((i - 1) \div 2) + 1 \/ i = 2 * ((i - 1) \div 2) + 2)
            BY <1>1, <2>2
      <4>2. QED BY <4>1
    <3>2. PICK p \in 1 .. b.nested : i = 2 * p + 1 \/ i = 2 * p + 2
          BY <3>1
    <3>3. CASE i = 2 * p + 1
      <4>1. Order(b)[i] = <<"typecheck", p>> /\ PlaceOf(<<"typecheck", p>>) = 2 * p + 2 /\ i + 1 = 2 * p + 2
            BY <1>1, <1>4, <1>6, <3>3
      <4>2. QED BY <1>9, <4>1
    <3>4. CASE i = 2 * p + 2
      <4>1. Order(b)[i] = <<"test", p>> /\ PlaceOf(<<"test", p>>) = 2 * p + 3 /\ i + 1 = 2 * p + 3
            BY <1>1, <1>4, <1>6, <3>4
      <4>2. QED BY <1>9, <4>1
    <3>5. QED BY <3>2, <3>3, <3>4
  <2>3. QED BY <2>1, <2>2
<1>12. QED BY <1>2, <1>10, <1>11

\* The results, before they are cut at the first failure
AllResults ==
    <<<<<<"build", 0>>, "pass">>>> \o
        [i \in DOMAIN Order(given) |-> Result(Order(given)[i])] \o
        <<<<<<"scope-audit", 0>>, IF given.scope THEN "pass" ELSE "fail">>>>

LEMMA BranchIs ==
    ASSUME given \in Branch
    PROVE  given.nested \in 0 .. Packages /\ given.nested \in Nat /\ given.nested <= Packages /\ given.scope \in BOOLEAN
<1>1. given.nested \in {0, Packages}
      BY DEF Branch
<1>2. given.scope \in BOOLEAN
      BY DEF Branch
<1>3. QED BY <1>1, <1>2, PackagesAssumption

LEMMA AllResultsAre ==
    ASSUME StagesInv, given \in Branch
    PROVE  /\ AllResults \in Seq(Entry) /\ Len(AllResults) = 4 + 2 * given.nested
           /\ AllResults[1] = <<TheBuild, "pass">>
           /\ \A j \in ReadInOrder(given) : /\ PlaceOf(j) \in 2 .. 3 + 2 * given.nested
                                            /\ AllResults[PlaceOf(j)] = Result(j)
           /\ \A i \in 2 .. 3 + 2 * given.nested : \E j \in ReadInOrder(given) : PlaceOf(j) = i
           /\ AllResults[4 + 2 * given.nested][2] \in {"pass", "fail"}
<1> DEFINE order == Order(given)
           m == 2 + 2 * given.nested
           amid == [i \in DOMAIN order |-> Result(order[i])]
           build == <<<<<<"build", 0>>, "pass">>>>
           scope == <<<<<<"scope-audit", 0>>, IF given.scope THEN "pass" ELSE "fail">>>>
<1>1. given.nested \in 0 .. Packages /\ given.nested \in Nat
      BY BranchIs
<1>2. /\ DOMAIN order = 1 .. m /\ m \in Nat
      /\ \A i \in 1 .. m : order[i] \in ReadInOrder(given) /\ PlaceOf(order[i]) = i + 1
      /\ \A j \in ReadInOrder(given) : PlaceOf(j) - 1 \in 1 .. m /\ order[PlaceOf(j) - 1] = j
      BY <1>1, OrderIs
<1>3. ReadInOrder(given) \subseteq Jobs
      BY DEF ReadInOrder, Jobs, Root
<1>4. ASSUME NEW j \in Jobs PROVE Result(j) \in Entry
  <2>1. job[j] \in {"none", "queued"} \cup Running \cup Results
        BY DEF StagesInv, JobsTyped
  <2>2. QED BY <2>1 DEF Result, Entry
<1>5. amid \in Seq(Entry) /\ Len(amid) = m /\ \A i \in 1 .. m : amid[i] = Result(order[i])
  <2>1. amid \in [1 .. m -> Entry]
        BY <1>2, <1>3, <1>4
  <2>2. QED BY <1>2, <2>1
<1>6. build \in Seq(Entry) /\ Len(build) = 1 /\ build[1] = <<TheBuild, "pass">>
  <2>1. <<TheBuild, "pass">> \in Entry
        BY TestsByNumber DEF Entry, Results
  <2>2. QED BY <2>1 DEF TheBuild
<1>7. scope \in Seq(Entry) /\ Len(scope) = 1 /\ scope[1][2] \in {"pass", "fail"}
  <2>1. <<<<"scope-audit", 0>>, IF given.scope THEN "pass" ELSE "fail">> \in Entry
        BY DEF Entry, Results
  <2>2. QED BY <2>1
<1> HIDE DEF order, m, amid, build, scope
<1>8. /\ build \o amid \in Seq(Entry) /\ Len(build \o amid) = 1 + m
      /\ \A i \in 1 .. 1 + m : (build \o amid)[i] = IF i <= 1 THEN build[i] ELSE amid[i - 1]
  <2>1. /\ build \o amid \in Seq(Entry) /\ Len(build \o amid) = Len(build) + Len(amid)
        /\ \A i \in 1 .. Len(build) + Len(amid) :
              (build \o amid)[i] = IF i <= Len(build) THEN build[i] ELSE amid[i - Len(build)]
        BY <1>5, <1>6, ConcatProperties
  <2>2. QED BY <1>5, <1>6, <2>1
<1>9. AllResults = (build \o amid) \o scope
      BY DEF AllResults, build, amid, scope, order
<1>10. /\ AllResults \in Seq(Entry) /\ Len(AllResults) = 2 + m
       /\ \A i \in 1 .. 2 + m : AllResults[i] = IF i <= 1 + m THEN (build \o amid)[i] ELSE scope[i - (1 + m)]
  <2>1. /\ (build \o amid) \o scope \in Seq(Entry) /\ Len((build \o amid) \o scope) = Len(build \o amid) + Len(scope)
        /\ \A i \in 1 .. Len(build \o amid) + Len(scope) :
              ((build \o amid) \o scope)[i] =
                  IF i <= Len(build \o amid) THEN (build \o amid)[i] ELSE scope[i - Len(build \o amid)]
    <3>1. PICK front \in Seq(Entry) : front = build \o amid
          BY <1>8
    <3>2. PICK back \in Seq(Entry) : back = scope
          BY <1>7
    <3>3. /\ front \o back \in Seq(Entry) /\ Len(front \o back) = Len(front) + Len(back)
          /\ \A i \in 1 .. Len(front) + Len(back) :
                (front \o back)[i] = IF i <= Len(front) THEN front[i] ELSE back[i - Len(front)]
          BY ConcatProperties
    <3>4. QED BY <3>1, <3>2, <3>3
  <2>2. (1 + m) + 1 = 2 + m
        BY <1>2
  <2>3. QED BY <1>7, <1>8, <1>9, <2>1, <2>2
<1>11. AllResults[1] = <<TheBuild, "pass">>
  <2>1. 1 \in 1 .. 2 + m /\ 1 <= 1 + m /\ 1 \in 1 .. 1 + m
        BY <1>2
  <2>2. QED BY <1>6, <1>8, <1>10, <2>1
<1>12. ASSUME NEW i \in 1 .. m PROVE AllResults[i + 1] = Result(order[i])
  <2>1. i + 1 \in 1 .. 2 + m /\ i + 1 <= 1 + m /\ i + 1 \in 1 .. 1 + m /\ ~ (i + 1 <= 1) /\ (i + 1) - 1 = i
        BY <1>2
  <2>2. QED BY <1>5, <1>8, <1>10, <2>1
<1>13. m = 2 + 2 * given.nested
      BY DEF m
<1>14. ASSUME NEW j \in ReadInOrder(given)
       PROVE  PlaceOf(j) \in 2 .. 3 + 2 * given.nested /\ AllResults[PlaceOf(j)] = Result(j)
  <2>1. PICK i \in 1 .. m : i = PlaceOf(j) - 1 /\ order[i] = j
        BY <1>2
  <2>2. PlaceOf(j) = i + 1
        BY <1>2, <2>1
  <2>3. i + 1 \in 2 .. 3 + 2 * given.nested
        BY <1>1, <1>13
  <2>4. QED BY <1>12, <2>1, <2>2, <2>3
<1>15. ASSUME NEW i \in 2 .. 3 + 2 * given.nested PROVE \E j \in ReadInOrder(given) : PlaceOf(j) = i
  <2>1. i - 1 \in 1 .. m /\ (i - 1) + 1 = i
        BY <1>1, <1>13
  <2>2. order[i - 1] \in ReadInOrder(given) /\ PlaceOf(order[i - 1]) = (i - 1) + 1
        BY <1>2, <2>1
  <2>3. QED BY <2>1, <2>2
<1>16. AllResults[4 + 2 * given.nested][2] \in {"pass", "fail"} /\ Len(AllResults) = 4 + 2 * given.nested
  <2>1. 4 + 2 * given.nested = 2 + m /\ 2 + m \in 1 .. 2 + m /\ ~ (2 + m <= 1 + m) /\ (2 + m) - (1 + m) = 1
        BY <1>1, <1>2, <1>13
  <2>2. QED BY <1>7, <1>10, <2>1
<1>17. QED BY <1>10, <1>11, <1>14, <1>15, <1>16

\* The places of the tests are in the order of their numbers.
LEMMA PlacesInTurn ==
    ASSUME NEW j \in Tests, NEW k \in Tests, Before(k, j)
    PROVE  PlaceOf(k) < PlaceOf(j)
<1>1. j[2] \in Nat /\ k[2] \in Nat /\ k[2] < j[2] /\ j[1] = "test" /\ k[1] = "test" /\ j[2] # 0
      BY TestsByNumber DEF Before, Tests
<1>2. j # <<"test", 0>> /\ j # <<"lint", 0>> /\ k # <<"lint", 0>>
      BY <1>1
<1>3. PlaceOf(j) = 2 * j[2] + 3
      BY <1>1, <1>2 DEF PlaceOf
<1>4. PlaceOf(k) = 2 \/ PlaceOf(k) = 2 * k[2] + 3
      BY <1>1, <1>2 DEF PlaceOf
<1>5. QED BY <1>1, <1>3, <1>4

\* What the judge reads: nothing that was interrupted, and nothing that never
\* ran but behind a failure.
LEMMA JudgedAre ==
    ASSUME StagesInv, ReportInv, at = "measure", Settled, ~Interrupted
    PROVE  /\ \A j \in Jobs : job[j] \in {"none", "queued", "pass", "flaky", "fail", "threw"}
           /\ \A j \in Jobs : job[j] = "queued" =>
                 j \in Tests /\ \E k \in Tests : job[k] = "fail" /\ Before(k, j)
           /\ \A j \in Declared(given) : j \in Jobs /\ job[j] # "none"
           /\ \A j \in Jobs : job[j] \in {"fail", "queued"} => j = TheBuild \/ j \in ReadInOrder(given) \/ j \in Measures
<1> USE TestsByNumber DEF StagesInv, JobsTyped, ReportInv
<1>1. /\ slot = "none" /\ \A j \in Jobs : job[j] \notin Running /\ job[j] # "interrupted"
      /\ ~ (HasSuite /\ \A j \in Tests : Unstarted(j))
      BY DEF Settled, Interrupted, Unstarted
<1>2. \A j \in Jobs : job[j] \in {"none", "queued", "pass", "flaky", "fail", "threw"}
      BY <1>1 DEF Results, Running
<1>3. Over /\ \A j \in Jobs \ Tests : job[j] # "queued"
      BY <1>1 DEF Going
<1>4. ASSUME NEW j \in Jobs, job[j] = "queued" PROVE j \in Tests /\ \E k \in Tests : job[k] = "fail" /\ Before(k, j)
  <2>1. j \in Tests
        BY <1>3, <1>4
  <2>2. PICK k \in Tests : job[k] = "fail"
        BY <1>1, <1>3, <1>4, <2>1 DEF Over
  <2>3. ~Unstarted(k) /\ k # j
        BY <1>4, <2>2 DEF Unstarted
  <2>4. ~Before(j, k)
        BY <1>4, <2>1, <2>3 DEF InTurn
  <2>5. Before(k, j)
        BY <2>1, <2>2, <2>3, <2>4 DEF Before
  <2>6. QED BY <2>1, <2>2, <2>5
<1>5. Declared(given) \subseteq Jobs
      BY DEF Declared, Jobs, Root, Measures
<1>6. \A j \in Declared(given) : j = TheBuild \/ j \in ReadInOrder(given) \/ j \in Measures
      BY DEF Declared, ReadInOrder, TheBuild
<1>7. QED BY <1>2, <1>4, <1>5, <1>6 DEF Declaring

\* What is read of a job, when the judge reads it.
LEMMA ResultsAre ==
    ASSUME StagesInv, ReportInv, at = "measure", Settled, ~Interrupted, NEW i \in DOMAIN AllResults
    PROVE  /\ AllResults[i] \in Entry
           /\ AllResults[i][2] \in {"pass", "flaky", "fail", "skipped", "flagged", "queued"}
           /\ AllResults[i][2] = "queued" => \E h \in 1 .. i - 1 : AllResults[h][2] = "fail"
<1>1. given \in Branch
      BY DEF ReportInv, Declaring
<1>2. PICK n \in Nat : n = given.nested
      BY <1>1, BranchIs
<1>3. /\ AllResults \in Seq(Entry) /\ Len(AllResults) = 4 + 2 * n /\ AllResults[1] = <<TheBuild, "pass">>
      /\ \A j \in ReadInOrder(given) : PlaceOf(j) \in 2 .. 3 + 2 * n /\ AllResults[PlaceOf(j)] = Result(j)
      /\ \A k \in 2 .. 3 + 2 * n : \E j \in ReadInOrder(given) : PlaceOf(j) = k
      /\ AllResults[4 + 2 * n][2] \in {"pass", "fail"}
      BY <1>1, <1>2, AllResultsAre
<1>4. i \in 1 .. 4 + 2 * n /\ AllResults[i] \in Entry
      BY <1>3, ElementOfSeq
<1>5. CASE i = 1
      BY <1>3, <1>4, <1>5
<1>6. CASE i = 4 + 2 * n
      BY <1>3, <1>4, <1>6
<1>7. CASE i \in 2 .. 3 + 2 * n
  <2>1. PICK j \in ReadInOrder(given) : PlaceOf(j) = i /\ AllResults[i] = Result(j)
        BY <1>3, <1>7
  <2>2. j \in Jobs /\ j \notin Measures
        BY DEF ReadInOrder, Jobs, Root, Measures, Nested
  <2>3. job[j] \in {"none", "queued", "pass", "flaky", "fail"}
        BY <2>2, JudgedAre DEF ReportInv, Declaring
  <2>4. AllResults[i][2] = IF job[j] # "none" THEN job[j] ELSE IF j[2] = 0 THEN "skipped" ELSE "flagged"
        BY <2>1 DEF Result
  <2>5. ASSUME AllResults[i][2] = "queued" PROVE \E h \in 1 .. i - 1 : AllResults[h][2] = "fail"
    <3>1. job[j] = "queued"
          BY <2>3, <2>4, <2>5
    <3>2. PICK k \in Tests : job[k] = "fail" /\ Before(k, j) /\ j \in Tests
          BY <2>2, <3>1, JudgedAre
    <3>3. k \in Jobs /\ k # TheBuild /\ k \notin Measures
          BY TestsByNumber
    <3>4. k \in ReadInOrder(given)
          BY <3>2, <3>3, JudgedAre
    <3>5. PlaceOf(k) < i /\ PlaceOf(k) \in 2 .. 3 + 2 * n
          BY <1>3, <2>1, <3>2, <3>4, PlacesInTurn
    <3>6. AllResults[PlaceOf(k)][2] = "fail"
          BY <1>3, <3>2, <3>4 DEF Result
    <3>7. PlaceOf(k) \in 1 .. i - 1
          BY <1>7, <3>5
    <3>8. QED BY <3>6, <3>7
  <2>6. QED BY <1>4, <2>3, <2>4, <2>5
<1>8. QED BY <1>4, <1>5, <1>6, <1>7

LEMMA ReportJudge ==
    ASSUME StagesInv, ReportInv, UNCHANGED <<given, subject>>, Judge
    PROVE  ReportInv'
<1>1. /\ at = "measure" /\ Settled /\ UNCHANGED <<job, slot, coverage, first, struck>> /\ at' \in Outcomes
      BY DEF Judge, End, Outcomes
<1>2. Declaring' /\ InTurn' /\ Going'
      BY <1>1 DEF ReportInv, Declaring, InTurn, Going, Unstarted, Outcomes
<1>3. reported \in Seq(Reportable) /\ given \in Branch
      BY DEF ReportInv, ReportOK, Declaring
<1>4. CASE Interrupted
  <2>1. at' = "interrupted" /\ reported' = reported
        BY <1>4 DEF Judge, End
  <2>2. ReportOK'
        BY <1>3, <2>1 DEF ReportOK, PassIsOfEveryCommand, FailureIsReported, Outcomes
  <2>3. QED BY <1>2, <2>2 DEF ReportInv
<1>5. CASE ~Interrupted
  <2>1. PICK upTo : upTo = UpToFailure(AllResults)
        OBVIOUS
  <2>2. PICK size \in {"pass", "flagged"} :
          LET fails == upTo[Len(upTo)][2] = "fail"
              throws == \E j \in Measures : job[j] = "threw"
          IN  /\ reported' = IF fails THEN upTo ELSE Append(upTo, <<<<"diff-size", 0>>, size>>)
              /\ at' = IF fails THEN "failed" ELSE IF throws THEN "threw" ELSE "passed"
        BY <1>5, <2>1 DEF Judge, Said, End, AllResults
  <2>3. PICK n \in Nat : n = given.nested /\ n <= Packages
        BY <1>3, BranchIs
  <2>4. AllResults \in Seq(Entry) /\ Len(AllResults) = 4 + 2 * n
        BY <1>3, <2>3, AllResultsAre
  <2>5. /\ upTo \in Seq(Entry) /\ Len(upTo) \in 1 .. Len(AllResults)
        /\ \A i \in 1 .. Len(upTo) : upTo[i] = AllResults[i]
        /\ \A i \in 1 .. Len(upTo) - 1 : AllResults[i][2] # "fail"
        /\ \/ upTo[Len(upTo)][2] = "fail"
           \/ Len(upTo) = Len(AllResults) /\ \A i \in DOMAIN AllResults : AllResults[i][2] # "fail"
        BY <2>1, <2>3, <2>4, UpToTheFirst
  <2>6. PICK len \in Nat \ {0} : len = Len(upTo) /\ len <= 4 + 2 * n /\ DOMAIN upTo = 1 .. len
        BY <2>3, <2>4, <2>5
  <2>7. ASSUME NEW i \in 1 .. len
        PROVE  /\ upTo[i] \in Reportable /\ upTo[i][2] \in {"pass", "flaky", "fail", "skipped", "flagged"}
               /\ i < len => upTo[i][2] # "fail"
    <3>1. i \in DOMAIN AllResults /\ upTo[i] = AllResults[i]
          BY <2>4, <2>5, <2>6
    <3>2. i < len => AllResults[i][2] # "fail"
          BY <2>5, <2>6
    <3>3. AllResults[i][2] # "queued"
      <4>1. \A h \in 1 .. i - 1 : AllResults[h][2] # "fail"
            BY <2>5, <2>6
      <4>2. QED BY <1>1, <1>5, <3>1, <4>1, ResultsAre
    <3>4. AllResults[i] \in Entry /\ AllResults[i][2] \in {"pass", "flaky", "fail", "skipped", "flagged"}
          BY <1>1, <1>5, <3>1, <3>3, ResultsAre
    <3>5. AllResults[i] \in Reportable
          BY <3>4 DEF Entry, Reportable
    <3>6. QED BY <3>1, <3>2, <3>4, <3>5
  <2>8. upTo \in Seq(Reportable)
        BY <2>5, <2>6, <2>7
  <2>9. CASE upTo[len][2] = "fail"
    <3>1. at' = "failed" /\ reported' = upTo
          BY <2>2, <2>6, <2>9
    <3>2. reported' # <<>> /\ DOMAIN reported' = 1 .. len /\ Len(reported') = len
          BY <2>6, <3>1
    <3>3. FailureIsReported'
          BY <2>7, <2>9, <3>1, <3>2 DEF FailureIsReported
    <3>4. ReportOK'
          BY <2>8, <3>1, <3>3 DEF ReportOK, PassIsOfEveryCommand, Outcomes
    <3>5. QED BY <1>2, <3>4 DEF ReportInv
  <2>10. CASE upTo[len][2] # "fail"
    <3>1. /\ len = 4 + 2 * n /\ \A i \in 1 .. len : upTo[i] = AllResults[i] /\ AllResults[i][2] # "fail"
          BY <2>4, <2>5, <2>6, <2>10
    <3>2. PICK e \in Reportable : e = <<<<"diff-size", 0>>, size>> /\ reported' = Append(upTo, e)
      <4>1. <<<<"diff-size", 0>>, size>> \in Reportable
            BY DEF Reportable
      <4>2. QED BY <2>2, <2>6, <2>10, <4>1
    <3>3. reported' \in Seq(Reportable) /\ DOMAIN reported' = 1 .. len + 1 /\ \A i \in 1 .. len : reported'[i] = upTo[i]
          BY <2>6, <2>8, <3>2
    <3>4. at' \in {"passed", "threw"} /\ (at' = "passed" => \A j \in Measures : job[j] # "threw")
          BY <2>2, <2>6, <2>10
    <3>5. FailureIsReported' /\ (at' \notin Outcomes => reported' = <<>>)
          BY <1>1, <3>4 DEF FailureIsReported
    <3>6. \A j \in ReadInOrder(given) : Result(j)[2] # "fail" /\ PlaceOf(j) \in 1 .. len /\ AllResults[PlaceOf(j)] = Result(j)
      <4>1. \A j \in ReadInOrder(given) : PlaceOf(j) \in 2 .. 3 + 2 * n /\ AllResults[PlaceOf(j)] = Result(j)
            BY <1>3, <2>3, AllResultsAre
      <4>2. QED BY <2>3, <3>1, <4>1
    <3>7. \A j \in Jobs : job[j] # "queued"
      <4>1. ASSUME NEW j \in Jobs, job[j] = "queued" PROVE FALSE
        <5>1. PICK k \in Tests : job[k] = "fail"
              BY <1>1, <1>5, <4>1, JudgedAre
        <5>2. k \in Jobs /\ k # TheBuild /\ k \notin Measures
              BY TestsByNumber
        <5>3. k \in ReadInOrder(given)
              BY <1>1, <1>5, <5>1, <5>2, JudgedAre
        <5>4. Result(k)[2] = "fail"
              BY <5>1 DEF Result
        <5>5. QED BY <3>6, <5>3, <5>4
      <4>2. QED BY <4>1
    <3>8. ASSUME at' = "passed", NEW j \in Declared(given) PROVE job[j] \in {"pass", "flaky"}
      <4>1. j \in Jobs /\ job[j] \in {"pass", "flaky", "fail", "threw"}
            BY <1>1, <1>5, <3>7, JudgedAre
      <4>2. job[j] # "threw"
            BY <3>4, <3>8, <4>1 DEF ReportInv, Declaring
      <4>3. ASSUME job[j] = "fail" PROVE FALSE
        <5>1. j # TheBuild /\ j \notin Measures
              BY <1>1, <4>1, <4>3 DEF ReportInv, Going, Declaring
        <5>2. j \in ReadInOrder(given)
              BY <1>1, <1>5, <4>1, <4>3, <5>1, JudgedAre
        <5>3. Result(j)[2] = "fail"
              BY <4>3 DEF Result
        <5>4. QED BY <3>6, <5>2, <5>3
      <4>4. QED BY <4>1, <4>2, <4>3
    <3>9. ASSUME NEW p \in 1 .. given.nested, NEW s \in {"test", "typecheck"}
          PROVE  \E i \in DOMAIN reported' : reported'[i] \in {<<<<s, p>>, "pass">>, <<<<s, p>>, "flaky">>,
                                                               <<<<s, p>>, "flagged">>}
      <4>1. p \in 1 .. Packages /\ p # 0 /\ p <= given.nested
            BY <2>3, PackagesAssumption
      <4>2. PICK j : j = <<s, p>>
            OBVIOUS
      <4>3. j \in Nested
            BY <4>1, <4>2 DEF Nested
      <4>4. j \in ReadInOrder(given) /\ j \in Jobs /\ j \notin Measures
            BY <4>1, <4>2, <4>3 DEF ReadInOrder, Jobs, Measures
      <4>5. job[j] \in {"none", "pass", "flaky", "fail"}
            BY <1>1, <1>5, <3>7, <4>4, JudgedAre DEF ReportInv, Declaring
      <4>6. Result(j) \in {<<j, "pass">>, <<j, "flaky">>, <<j, "fail">>, <<j, "flagged">>}
            BY <4>1, <4>2, <4>5 DEF Result
      <4>7. Result(j) \in {<<j, "pass">>, <<j, "flaky">>, <<j, "flagged">>}
            BY <3>6, <4>4, <4>6
      <4>8. PlaceOf(j) \in 1 .. len /\ reported'[PlaceOf(j)] = Result(j)
            BY <3>1, <3>3, <3>6, <4>4
      <4>9. PlaceOf(j) \in DOMAIN reported'
            BY <3>3, <4>8
      <4>10. QED BY <4>2, <4>7, <4>8, <4>9
    <3>10. PassIsOfEveryCommand'
          BY <1>1, <3>8, <3>9 DEF PassIsOfEveryCommand, Declared
    <3>11. QED BY <1>2, <3>3, <3>5, <3>10 DEF ReportInv, ReportOK
  <2>11. QED BY <2>9, <2>10
<1>6. QED BY <1>4, <1>5

\* Every other step.
LEMMA ReportInvStep ==
    ASSUME StagesInv, ReportInv, UNCHANGED <<given, subject>>, [StagesNext]_stagesVars
    PROVE  ReportInv'
<1> USE TestsByNumber DEF StagesInv, JobsTyped
<1>1. CASE Built
  <2>1. /\ at = "build" /\ UNCHANGED <<job, slot, coverage, struck, first>>
        /\ \/ at' = "failed" /\ reported' = <<<<TheBuild, "fail">>>>
           \/ at' = "interrupted" /\ reported' = reported
           \/ at' = "load" /\ reported' = reported
        BY <1>1 DEF Built, End, Said, TheBuild
  <2>2. Declaring' /\ InTurn' /\ Going'
        BY <2>1 DEF ReportInv, Declaring, InTurn, Going, Unstarted
  <2>3. CASE at' = "failed"
    <3>1. <<TheBuild, "fail">> \in Reportable
          BY DEF Reportable
    <3>2. /\ reported' = <<<<TheBuild, "fail">>>> /\ reported' \in Seq(Reportable) /\ reported' # <<>>
          /\ DOMAIN reported' = 1 .. 1 /\ Len(reported') = 1 /\ reported'[1] = <<TheBuild, "fail">>
      <4>1. reported' = <<<<TheBuild, "fail">>>>
            BY <2>1, <2>3
      <4>2. PICK e \in Reportable : e = <<TheBuild, "fail">>
            BY <3>1
      <4>3. reported' = <<e>>
            BY <4>1, <4>2
      <4>4. QED BY <4>1, <4>2, <4>3
    <3>3. FailureIsReported'
          BY <3>2 DEF FailureIsReported
    <3>4. QED BY <2>2, <2>3, <3>2, <3>3 DEF ReportInv, ReportOK, PassIsOfEveryCommand, Outcomes
  <2>4. CASE at' # "failed"
        BY <2>1, <2>2, <2>4, ReportStays DEF ReportInv, Outcomes
  <2>5. QED BY <2>3, <2>4
<1>2. CASE Measure
  <2>1. /\ at = "load" /\ at' = "measure" /\ UNCHANGED <<struck, first, reported>>
        /\ job' = [j \in Jobs |-> IF job[j] = "queued" /\ j \notin Tests THEN "runs" ELSE job[j]]
        /\ slot' = IF HasSuite THEN "waiting" ELSE "none"
        /\ coverage' = given.test
        BY <1>2 DEF Measure
  <2>2. /\ \A j \in Tests : job'[j] = job[j]
        /\ \A j \in Jobs : job[j] # "queued" \/ j \in Tests => job'[j] = job[j]
        /\ \A j \in Jobs : job[j] = "queued" /\ j \notin Tests => job'[j] = "runs"
        BY <2>1
  <2>3. coverage' \in BOOLEAN /\ struck' \in BOOLEAN
        BY <2>1 DEF ReportInv, Declaring
  <2>4. Declaring'
        BY <2>2, <2>3 DEF ReportInv, Declaring
  <2>5. InTurn'
        BY <2>2 DEF ReportInv, InTurn, Unstarted, Before
  <2>6. Going'
    <3>1. job'[TheBuild] = "pass" /\ \A j \in Jobs \ Tests : job'[j] # "queued"
          BY <2>1, <2>2 DEF Alone
    <3>2. slot' = "none" => \A j \in Tests : job'[j] # "queued"
          BY <2>1, <2>2 DEF HasSuite
    <3>3. QED BY <3>1, <3>2 DEF Going, Over
  <2>7. QED BY <2>1, <2>4, <2>5, <2>6, ReportStays DEF ReportInv, Outcomes
<1>3. CASE LoadInterrupted
  <2>1. /\ at = "load" /\ at' = "interrupted" /\ UNCHANGED <<job, slot, coverage, first, reported>> /\ struck' = TRUE
        BY <1>3 DEF LoadInterrupted, End
  <2>2. coverage' \in BOOLEAN /\ struck' \in BOOLEAN
        BY <2>1 DEF ReportInv, Declaring
  <2>3. QED BY <2>1, <2>2, ReportStays DEF ReportInv, Declaring, InTurn, Going, Unstarted, Outcomes
<1>4. CASE GetSlot
  <2>1. slot = "waiting" /\ slot' \in {"held", "without"} /\ UNCHANGED <<at, job, coverage, struck, first, reported>>
        BY <1>4 DEF GetSlot
  <2>2. at \notin Outcomes
        BY <2>1 DEF AllEnded, Settled
  <2>3. QED BY <2>1, <2>2, ReportStays DEF ReportInv, Declaring, InTurn, Going, Unstarted, Outcomes
<1>5. CASE Dispose
  <2>1. coverage /\ coverage' = FALSE /\ UNCHANGED <<at, job, slot, struck, first, reported>>
        BY <1>5 DEF Dispose
  <2>2. at \notin Outcomes
        BY <2>1 DEF AllEnded
  <2>3. coverage' \in BOOLEAN /\ struck' \in BOOLEAN
        BY <2>1 DEF ReportInv, Declaring
  <2>4. Declaring' /\ InTurn' /\ Going'
        BY <2>1, <2>3 DEF ReportInv, Declaring, InTurn, Going, Unstarted, Over, HasSuite
  <2>5. QED BY <2>1, <2>2, <2>4, ReportStays DEF ReportInv, Outcomes
<1>6. CASE SuitesDone
  <2>1. slot \in {"held", "without"} /\ slot' = "none" /\ Over /\ UNCHANGED <<at, job, coverage, struck, first, reported>>
        BY <1>6 DEF SuitesDone
  <2>2. at \notin Outcomes
        BY <2>1 DEF AllEnded, Settled
  <2>3. Declaring' /\ InTurn' /\ Going'
        BY <2>1 DEF ReportInv, Declaring, InTurn, Going, Unstarted, Over, HasSuite
  <2>4. QED BY <2>1, <2>2, <2>3, ReportStays DEF ReportInv, Outcomes
<1>7. CASE Interrupt
      BY <1>7, ReportInterrupt
<1>8. CASE Judge
      BY <1>8, ReportJudge
<1>9. ASSUME NEW c \in Jobs, CommandEnds(c) \/ RunSuite(c) PROVE ReportInv'
      BY <1>9, ReportCommandEnds, ReportRunSuite
<1>10. CASE UNCHANGED stagesVars
      BY <1>10 DEF stagesVars, ReportInv, Declaring, InTurn, Going, ReportOK, Unstarted, Over, HasSuite,
         PassIsOfEveryCommand, FailureIsReported, Measuring
<1>11. QED BY <1>1, <1>2, <1>3, <1>4, <1>5, <1>6, <1>7, <1>8, <1>9, <1>10 DEF StagesNext, Jobs
-----------------------------------------------------------------------------
(* The values of the watchdog's loop and of a hook's clock.                 *)

\* WatchInit.
LEMMA WatchTypeInit == WatchInit => WatchTypeOK
<1> SUFFICES ASSUME WatchInit PROVE WatchTypeOK
    OBVIOUS
<1>1. Fleet \in Nat /\ MaxFaults \in Nat
      BY WatchAssumption
<1>2. turn \in [0 .. Fleet -> {"working", "died", "gone"}]
      BY DEF WatchInit, WatchStart
<1>3. beat \in BOOLEAN /\ branch \in BOOLEAN /\ dormant \in BOOLEAN
      BY DEF WatchInit, WatchStart
<1>4. faults \in 0 .. MaxFaults
      BY <1>1 DEF WatchInit, WatchStart
<1>5. QED BY <1>2, <1>3, <1>4 DEF WatchInit, WatchStart, WatchTypeOK

\* A step of the loop, of a pane or of time keeps the values.
LEMMA WatchTypeStep == ASSUME WatchTypeOK, [WatchNext]_watchVars PROVE WatchTypeOK'
<1> USE WatchAssumption DEF WatchTypeOK
<1>0. Fleet \in Nat /\ MaxFaults \in Nat
      BY WatchAssumption
<1>1. CASE Scan
  <2>1. beat' \in BOOLEAN /\ radar' = "sweep"
        BY <1>1 DEF Scan
  <2>2. listed' \subseteq 0 .. Fleet
    <3>1. 0 \in 0 .. Fleet /\ \A s \in 1 .. Fleet : s \in 0 .. Fleet
          BY <1>0
    <3>2. listed' \subseteq aged \cup {0} /\ aged \subseteq 1 .. Fleet
          BY <1>1 DEF Scan
    <3>3. QED BY <3>1, <3>2
  <2>3. UNCHANGED <<branch, dormant, turn, aged, dialog, answered, faults>>
        BY <1>1 DEF Scan
  <2>4. QED BY <2>1, <2>2, <2>3
<1>2. CASE SweepEnds \/ Report \/ Wake \/ StartRadar \/ BeatAges
      BY <1>2 DEF SweepEnds, Report, Wake, StartRadar, BeatAges
<1>3. ASSUME NEW p \in 0 .. Fleet, Answer(p) PROVE WatchTypeOK'
  <2>1. turn' \in [0 .. Fleet -> {"working", "died", "gone"}] /\ aged' \subseteq 1 .. Fleet
        BY <1>3 DEF Answer
  <2>2. answered' \subseteq 0 .. Fleet /\ listed' \subseteq 0 .. Fleet
        BY <1>3 DEF Answer, Passed
  <2>3. UNCHANGED <<radar, beat, branch, dormant, dialog, faults>>
        BY <1>3 DEF Answer
  <2>4. QED BY <2>1, <2>2, <2>3
<1>4. ASSUME NEW p \in 0 .. Fleet, PassOver(p) PROVE WatchTypeOK'
      BY <1>4 DEF PassOver
<1>5. ASSUME NEW s \in 1 .. Fleet, Ages(s) PROVE WatchTypeOK'
      BY <1>5 DEF Ages
<1>6. ASSUME NEW p \in 0 .. Fleet, AnswerAges(p) PROVE WatchTypeOK'
      BY <1>6 DEF AnswerAges
<1>7. Fault => faults' \in 0 .. MaxFaults
      BY <1>0 DEF Fault
<1>8. CASE SweepThrows \/ LoopThrows
      BY <1>7, <1>8 DEF SweepThrows, LoopThrows, Survives
<1>9. ASSUME NEW p \in 0 .. Fleet, TurnDies(p) PROVE WatchTypeOK'
  <2>1. turn' \in [0 .. Fleet -> {"working", "died", "gone"}]
        BY <1>9 DEF TurnDies
  <2>2. QED BY <1>7, <1>9, <2>1 DEF TurnDies
<1>10. ASSUME NEW p \in 0 .. Fleet, Upset(p) PROVE WatchTypeOK'
  <2>1. turn' \in [0 .. Fleet -> {"working", "died", "gone"}]
        BY <1>10 DEF Upset
  <2>2. dialog' \subseteq 0 .. Fleet
        BY <1>10 DEF Upset
  <2>3. branch' \in BOOLEAN /\ dormant' \in BOOLEAN
        BY <1>10 DEF Upset
  <2>4. UNCHANGED <<radar, listed, beat, aged, answered>> /\ Fault
        BY <1>10 DEF Upset
  <2>5. QED BY <1>7, <2>1, <2>2, <2>3, <2>4
<1>11. ASSUME NEW p \in 0 .. Fleet, DialogCloses(p) PROVE WatchTypeOK'
      BY <1>11 DEF DialogCloses
<1>12. CASE UNCHANGED watchVars
      BY <1>12 DEF watchVars
<1>13. QED BY <1>1, <1>2, <1>3, <1>4, <1>5, <1>6, <1>8, <1>9, <1>10, <1>11, <1>12
              DEF WatchNext, Loop, Clock

\* HookClockInit, and a step of the hook, of a read, of its watcher or of time.
LEMMA ClockTypeInit == HookClockInit => HookClockTypeOK
<1> SUFFICES ASSUME HookClockInit PROVE HookClockTypeOK
    OBVIOUS
<1>1. ClockInv
      BY ClockInvInit
<1>2. now \in 0 .. TimesOut
      BY HookClockAssumption DEF HookClockInit, TimesOut, Began
<1>3. QED BY <1>1, <1>2 DEF HookClockInit, HookClockStart, HookClockTypeOK, ClockInv, Clocked

LEMMA ClockTypeStep ==
    ASSUME ClockInv, HookClockTypeOK, UNCHANGED given, [HookClockNext]_hookClockVars
    PROVE  HookClockTypeOK'
<1> DEFINE Steps == \/ ForkRead \/ Reap \/ StopWatcher \/ Return \/ OutOfTime \/ Allow
                    \/ ReadEnds \/ Watcher
<1>1. ClockInv' /\ Timeout \in Nat /\ Timeout > 2 /\ given' = given /\ given.phase \in {0, 1}
      BY ClockInvStep, HookClockAssumption DEF ClockInv, Clocked
<1>2. now' \in 0 .. TimesOut
  <2>1. CASE Tick
    <3>1. now' = now + 1 /\ now + 1 <= wakes /\ wakes <= 2 * (Timeout - 2) + 1
          /\ now \in Nat /\ wakes \in Nat
          BY <2>1 DEF Tick, ScriptsWait, Asleep, ClockInv, Timely, Clocked
    <3>2. QED BY <1>1, <3>1 DEF TimesOut, Began
  <2>2. CASE ~Tick
    <3>1. now' = now
          BY <2>2 DEF HookClockNext, ForkRead, Reap, StopWatcher, Return, OutOfTime, Allow,
                      ReadEnds, Watcher, hookClockVars
    <3>2. QED BY <3>1 DEF HookClockTypeOK
  <2>3. QED BY <2>1, <2>2
<1>3. wakes' \in {Never} \cup 0 .. TimesOut
      BY <1>1 DEF ClockInv, Timely, TimesOut, Began
<1>4. stop' \in BOOLEAN
      BY DEF HookClockNext, ForkRead, Reap, StopWatcher, Return, OutOfTime, Allow, ReadEnds,
             Watcher, Tick, hookClockVars, readVars, watcherVars, HookClockTypeOK
<1>5. TimesOut' = TimesOut
      BY <1>1 DEF TimesOut, Began
<1>6. QED BY <1>1, <1>2, <1>3, <1>4, <1>5 DEF HookClockTypeOK, ClockInv, Clocked, Watched, Read, Trapped
-----------------------------------------------------------------------------
(* The values of a measurement and of the search.                           *)

LEMMA StagesAreTyped == StagesInv /\ ReportInv => StagesTypeOK
BY DEF StagesInv, ReportInv, JobsTyped, Declaring, ReportOK, Reportable, Jobs, StagesTypeOK

LEMMA SizeIsTyped == SizeInv => SizeTypeOK
BY DEF SizeInv, FilesTyped, SizeTypeOK
-----------------------------------------------------------------------------
(* The invariant of the parts.                                              *)

LoopsInv ==
    /\ subject \in {"controls", "watch", "gatechild", "stages", "diffsize", "hookclock"}
    /\ subject = "gatechild" => ChildInv
    /\ subject = "hookclock" => ClockInv /\ HookClockTypeOK
    /\ subject = "controls" => ControlsInv /\ ControlsTypes
    /\ subject = "watch" => WatchTypeOK
    /\ subject = "stages" => StagesInv /\ ReportInv
    /\ subject = "diffsize" => SizeInv

\* Each part begins within its invariant, or rests.
LEMMA LoopsInvInit == Init => LoopsInv
BY ChildInvInit, ClockInvInit, ClockTypeInit, ControlsInvInit, ControlsTypesInit, WatchTypeInit,
   StagesInvInit, ReportInvInit, SizeInvInit DEF Init, LoopsInv

\* The part that is the subject takes its own steps.
LEMMA LoopsInvStep == LoopsInv /\ [Next]_<<subject, given, partVars>> => LoopsInv'
<1> SUFFICES ASSUME LoopsInv, [Next]_<<subject, given, partVars>> PROVE LoopsInv'
    OBVIOUS
<1>1. UNCHANGED <<subject, given>>
      BY DEF Next
<1>2. CASE subject = "gatechild"
  <2>1. [ChildNext]_childVars
        BY <1>2 DEF Next, partVars
  <2>2. ChildInv'
        BY <1>1, <1>2, <2>1, ChildInvStep DEF LoopsInv
  <2>3. QED BY <1>1, <1>2, <2>2 DEF LoopsInv
<1>3. CASE subject = "hookclock"
  <2>1. [HookClockNext]_hookClockVars
        BY <1>3 DEF Next, partVars
  <2>2. ClockInv'
        BY <1>1, <1>3, <2>1, ClockInvStep DEF LoopsInv
  <2>3. HookClockTypeOK'
        BY <1>1, <1>3, <2>1, ClockTypeStep DEF LoopsInv
  <2>4. QED BY <1>1, <1>3, <2>2, <2>3 DEF LoopsInv
<1>4. CASE subject = "controls"
  <2>1. [ControlsNext]_controlsVars
        BY <1>4 DEF Next, partVars
  <2>2. ControlsInv'
        BY <1>1, <1>4, <2>1, ControlsInvStep DEF LoopsInv
  <2>3. ControlsTypes'
        BY <1>1, <1>4, <2>1, ControlsTypesStep DEF LoopsInv
  <2>4. QED BY <1>1, <1>4, <2>2, <2>3 DEF LoopsInv
<1>5. CASE subject = "watch"
  <2>1. [WatchNext]_watchVars
        BY <1>5 DEF Next, partVars
  <2>2. WatchTypeOK'
        BY <1>1, <1>5, <2>1, WatchTypeStep DEF LoopsInv
  <2>3. QED BY <1>1, <1>5, <2>2 DEF LoopsInv
<1>6. CASE subject = "stages"
  <2>1. [StagesNext]_stagesVars
        BY <1>6 DEF Next, partVars
  <2>2. StagesInv'
        BY <1>1, <1>6, <2>1, StagesInvStep DEF LoopsInv
  <2>3. ReportInv'
        BY <1>1, <1>6, <2>1, ReportInvStep DEF LoopsInv
  <2>4. QED BY <1>1, <1>6, <2>2, <2>3 DEF LoopsInv
<1>7. CASE subject = "diffsize"
  <2>1. [SizeNext]_sizeVars
        BY <1>7 DEF Next, partVars
  <2>2. SizeInv'
        BY <1>1, <1>7, <2>1, SizeInvStep DEF LoopsInv
  <2>3. QED BY <1>1, <1>7, <2>2 DEF LoopsInv
<1>8. QED BY <1>1, <1>2, <1>3, <1>4, <1>5, <1>6, <1>7 DEF LoopsInv

\* The invariant of the parts, in every state.
THEOREM LoopsInvHolds == Spec => []LoopsInv
<1> QED BY LoopsInvInit, LoopsInvStep, PTL DEF Spec
-----------------------------------------------------------------------------
(* A child of the gate.                                                     *)

\* What an interrupt reached is no verdict (runGateChild's close).
THEOREM InterruptedIsNoVerdictHolds == Spec => []InterruptedIsNoVerdict
<1>1. LoopsInv => InterruptedIsNoVerdict
      BY DEF LoopsInv, ChildInv, Marked, InterruptedIsNoVerdict, Spawning
<1> QED BY <1>1, LoopsInvHolds, PTL

\* A child that passed wrote all it had to (letGo, settle).
THEOREM PassIsWholeHolds == Spec => []PassIsWhole
<1>1. LoopsInv => PassIsWhole
      BY DEF LoopsInv, ChildInv, Whole, PassIsWhole, Spawning
<1> QED BY <1>1, LoopsInvHolds, PTL

\* Nothing of a group outlives the promise its caller waits on, nor writes in
\* directories that are gone (settle, endSandboxRun).
THEOREM NothingOutlivesItsStageHolds == Spec => []NothingOutlivesItsStage
<1>1. LoopsInv => NothingOutlivesItsStage
      BY DEF LoopsInv, ChildInv, Closed, NothingOutlivesItsStage, Spawning
<1> QED BY <1>1, LoopsInvHolds, PTL

\* pup handles the stop signals while a child runs, and only then (track, untrack).
THEOREM HearsWhileAChildRunsHolds == Spec => []HearsWhileAChildRuns
<1>1. LoopsInv => HearsWhileAChildRuns
      BY DEF LoopsInv, ChildInv, Hearing, HearsWhileAChildRuns, Spawning
<1> QED BY <1>1, LoopsInvHolds, PTL

\* No child runs unconfined: in a sandbox that was applied, one pup is itself
\* inside of, or a VM the operator declared (sandboxMode).
THEOREM NeverUnconfinedHolds == Spec => []NeverUnconfined
<1>1. LoopsInv => NeverUnconfined
      BY DEF LoopsInv, ChildInv, Confined, NeverUnconfined, Spawning
<1> QED BY <1>1, LoopsInvHolds, PTL
-----------------------------------------------------------------------------
(* A hook's clock.                                                          *)

\* A hook answers before the timeout that would let its call pass, for every
\* timeout and however many of its reads block (HOOK_READ_DEADLINE_SECONDS).
THEOREM AnswersInTimeHolds == Spec => []AnswersInTime
<1>1. LoopsInv => AnswersInTime
      BY DEF LoopsInv, ClockInv, Read, AnswersInTime, Hooks
<1> QED BY <1>1, LoopsInvHolds, PTL

\* A hook that fails closed allows nothing unless each read ended by itself
\* (bounded).
THEOREM PassIsAnsweredHolds == Spec => []PassIsAnswered
<1>1. ASSUME LoopsInv PROVE PassIsAnswered
  <2>1. SUFFICES ASSUME ClockInv, answer = "allow", given.closed
                 PROVE  \A i \in DOMAIN given.reads : given.reads[i] = "ends"
        BY <1>1 DEF LoopsInv, PassIsAnswered, Hooks
  <2>2. DOMAIN given.reads = 1 .. readsAnswered
        BY <2>1 DEF ClockInv, Clocked, Read
  <2>3. QED BY <2>1, <2>2 DEF ClockInv, Read
<1> QED BY <1>1, LoopsInvHolds, PTL

\* A hook that has answered has left no read, watcher or sleep behind (bounded).
THEOREM NothingIsLeftHolds == Spec => []NothingIsLeft
<1>1. LoopsInv => NothingIsLeft
      BY DEF LoopsInv, ClockInv, Watched, Read, NothingIsLeft, Hooks, Asleep
<1> QED BY <1>1, LoopsInvHolds, PTL
-----------------------------------------------------------------------------
(* The keys of the dashboard.                                               *)

\* One action owns the screen (useInput's guard).
THEOREM OneActionAtATimeHolds == Spec => []OneActionAtATime
<1>1. LoopsInv => OneActionAtATime
      BY DEF LoopsInv, ControlsInv, Question, Merging, OneActionAtATime, Screen, busy
<1> QED BY <1>1, LoopsInvHolds, PTL

\* A dashboard that is left leaves no merge running that holds the lock (q).
THEOREM NoMergeOutlivesTheScreenHolds == Spec => []NoMergeOutlivesTheScreen
<1>1. LoopsInv => NoMergeOutlivesTheScreen
      BY DEF LoopsInv, ControlsInv, Merging, NoMergeOutlivesTheScreen, Screen
<1> QED BY <1>1, LoopsInvHolds, PTL

\* What the screen carries out is what it named when it was asked, of the same
\* session of the same task (answerPrompt, runAfterFrame, startMerge).
THEOREM ActsOnWhatItNamedHolds == Spec => ActsOnWhatItNamed
<1>1. ASSUME LoopsInv, [Next]_<<subject, given, partVars>>, TheScreenActs
      PROVE  /\ given = "operator" /\ wanted # NoOne /\ fleet' = Effect(wanted)
             /\ (wanted.row # 0 /\ wanted.verb # "launch") =>
                    fleet[1][wanted.row].run = wanted.run
  <2>1. subject = "controls" /\ fleet' # fleet /\ outside' = outside
        BY <1>1 DEF TheScreenActs, Screen
  <2>2. ControlsNext
        BY <1>1, <2>1 DEF Next, partVars, controlsVars
  <2>3. ControlsInv
        BY <1>1, <2>1 DEF LoopsInv
  <2>4. given = "operator" /\ wanted # NoOne /\ Honoured(wanted)
        BY <2>1, <2>2, <2>3, StoreChanges
  <2>5. QED BY <2>1, <2>4 DEF Honoured
<1> QED BY <1>1, LoopsInvHolds, PTL DEF Spec, ActsOnWhatItNamed

\* A yes reopens only a session that is blocked as it is given (unblockSelected).
THEOREM UnblocksOnlyTheBlockedHolds == Spec => UnblocksOnlyTheBlocked
<1>1. ASSUME LoopsInv, [Next]_<<subject, given, partVars>>, TheScreenActs, wanted.verb = "unblock"
      PROVE  fleet[1][wanted.row].state = "blocked"
  <2>1. subject = "controls" /\ fleet' # fleet /\ outside' = outside
        BY <1>1 DEF TheScreenActs, Screen
  <2>2. ControlsNext
        BY <1>1, <2>1 DEF Next, partVars, controlsVars
  <2>3. ControlsInv
        BY <1>1, <2>1 DEF LoopsInv
  <2>4. Honoured(wanted)
        BY <2>1, <2>2, <2>3, StoreChanges
  <2>5. QED BY <1>1, <2>1, <2>3, <2>4 DEF Honoured, ControlsInv, Question
<1> QED BY <1>1, LoopsInvHolds, PTL DEF Spec, UnblocksOnlyTheBlocked
-----------------------------------------------------------------------------
(* A measurement.                                                           *)

\* An interrupt is never read as a verdict, whatever else failed beside what it
\* stopped (the find over the settled outcomes).
THEOREM InterruptIsNoVerdictHolds == Spec => []InterruptIsNoVerdict
<1>1. LoopsInv => InterruptIsNoVerdict
      BY DEF LoopsInv, StagesInv, AllEnded, InterruptIsNoVerdict, Measuring, Outcomes
<1> QED BY <1>1, LoopsInvHolds, PTL

\* A measurement that is over leaves no command running, no slot held and no
\* coverage directory (allSettled, the two disposes).
THEOREM NothingIsLeftRunningHolds == Spec => []NothingIsLeftRunning
<1>1. LoopsInv => NothingIsLeftRunning
      BY DEF LoopsInv, StagesInv, AllEnded, NothingIsLeftRunning, Measuring, Settled
<1> QED BY <1>1, LoopsInvHolds, PTL

\* Two test suites of a gate never run beside each other, nor one without a slot
\* it had or waited out, however many packages there are (runSuites).
THEOREM OneSuiteAtATimeHolds == Spec => []OneSuiteAtATime
<1>1. LoopsInv => OneSuiteAtATime
      BY OneRuns DEF LoopsInv, StagesInv, Chained, OneSuiteAtATime, Measuring
<1> QED BY <1>1, LoopsInvHolds, PTL

\* Only a failure the runner itself reported is run again (isRerunnable).
THEOREM OnlyItsOwnFailureIsRetriedHolds == Spec => []OnlyItsOwnFailureIsRetried
<1>1. LoopsInv => OnlyItsOwnFailureIsRetried
      BY DEF LoopsInv, StagesInv, JobsTyped, OnlyItsOwnFailureIsRetried, Measuring
<1> QED BY <1>1, LoopsInvHolds, PTL

-----------------------------------------------------------------------------
(* The parts together.                                                      *)

\* The values each part's variables take, while it is the subject.
THEOREM TypeCorrect == Spec => []LoopsTypeOK
<1>1. ASSUME LoopsInv PROVE LoopsTypeOK
  <2>1. /\ subject = "gatechild" => ChildTypeOK
        /\ subject = "controls" => ControlsTypeOK
        BY <1>1 DEF LoopsInv, ChildInv, ControlsTypes
  <2>2. /\ subject = "stages" => StagesTypeOK
        /\ subject = "diffsize" => SizeTypeOK
        BY <1>1, StagesAreTyped, SizeIsTyped DEF LoopsInv
  <2>3. QED BY <1>1, <2>1, <2>2 DEF LoopsInv, LoopsTypeOK
<1> QED BY <1>1, LoopsInvHolds, PTL

\* Only what ran to its own end is a verdict, of a child, a measurement or a hook
\* (runGateChild, measureBranch, bounded).
THEOREM VerdictsAreMeasuredHolds == Spec => []VerdictsAreMeasured
<1>1. /\ InterruptedIsNoVerdict /\ PassIsWhole /\ InterruptIsNoVerdict
      /\ OnlyItsOwnFailureIsRetried /\ AnswersInTime /\ PassIsAnswered
      => VerdictsAreMeasured
      BY DEF VerdictsAreMeasured
<1> QED BY <1>1, InterruptedIsNoVerdictHolds, PassIsWholeHolds, InterruptIsNoVerdictHolds,
           OnlyItsOwnFailureIsRetriedHolds, AnswersInTimeHolds, PassIsAnsweredHolds, PTL

\* What runs is held by what started it (settle, runSuites, bounded, startMerge).
THEOREM RunsAreHeldHolds == Spec => []RunsAreHeld
<1>1. /\ NothingOutlivesItsStage /\ HearsWhileAChildRuns /\ NeverUnconfined
      /\ NothingIsLeftRunning /\ OneSuiteAtATime /\ NothingIsLeft
      /\ OneActionAtATime /\ NoMergeOutlivesTheScreen
      => RunsAreHeld
      BY DEF RunsAreHeld
<1> QED BY <1>1, NothingOutlivesItsStageHolds, HearsWhileAChildRunsHolds, NeverUnconfinedHolds,
           NothingIsLeftRunningHolds, OneSuiteAtATimeHolds, NothingIsLeftHolds,
           OneActionAtATimeHolds, NoMergeOutlivesTheScreenHolds, PTL

\* What a measurement reports is so: a pass is of every command that is declared,
\* a failure is the branch's, and a test is nobody's source (measureBranch,
\* countChangedLines).
THEOREM ReportIsTrueHolds == Spec => []ReportIsTrue
<1>1. LoopsInv => PassIsOfEveryCommand /\ FailureIsReported
      BY DEF LoopsInv, ReportInv, ReportOK, PassIsOfEveryCommand, FailureIsReported, Measuring
<1>2. ASSUME LoopsInv PROVE OnlyUnloadedTestsAreTests
  <2>1. SUFFICES ASSUME SizeInv, counted
                 PROVE  tests = {t \in given.changed : \A f \in Loaders(t) : kindOf(f) # "source"}
        BY <1>2 DEF LoopsInv, OnlyUnloadedTestsAreTests, Sizing
  <2>2. tests = given.changed \ reached
        BY <2>1 DEF SizeInv
  <2>3. QED BY <2>1, <2>2, ReachedIsLoaded
<1>3. LoopsInv => ReportIsTrue
      BY <1>1, <1>2 DEF ReportIsTrue
<1> QED BY <1>3, LoopsInvHolds, PTL

\* The dashboard does what it was asked, to what it named (answerPrompt).
THEOREM ScreenActsAsAskedHolds == Spec => ScreenActsAsAsked
BY ActsOnWhatItNamedHolds, UnblocksOnlyTheBlockedHolds, PTL DEF ScreenActsAsAsked
=============================================================================
