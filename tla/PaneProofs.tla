---------------------------- MODULE PaneProofs ----------------------------
(***************************************************************************)
(* What holds in every behaviour of Pane, for any number of clients,        *)
(* commands, dead turns and upsets.                                         *)
(***************************************************************************)
EXTENDS Pane, SequenceTheorems, TLAPS

\* Where a process types nothing, where it may type next without having sent its
\* message, and where it has sent it.
Over == {"idle", "listed", "read"}
Looking == {"look", "clear", "clearing", "paste"}
Sent == {"await", "drop", "dropping", "enter", "verify", "record"}

\* How many presses each step has behind it.
CountedAt(step, n, c) ==
    /\ step \in Over \cup {"look", "paste", "await", "record"} => n = 0
    /\ step \in {"clear", "drop"} => n < ClearLimit
    /\ step \in {"clearing", "dropping"} => n \in 1 .. ClearLimit
    /\ step \in {"enter", "verify"} => n \in 0 .. RetryLimit
    /\ step = "verify" /\ c # "tell" => n < RetryLimit
Counted == \A p \in Procs : CountedAt(pc[p], tries[p], cmd[p])

\* A command in the middle of it has no answer yet, and a tell clears no box first.
AnswerAt(step, c, answered) ==
    /\ c = "none" => step = "idle" /\ answered = "none"
    /\ step \notin Over => (answered = "none" <=> step # "record")
    /\ c = "tell" => step \notin {"clear", "clearing"}
Kinds ==
    /\ \A p \in Clients : /\ cmd[p] \in {"none", "steer", "interrupt", "tell"}
                          /\ pc[p] \notin {"listed", "read"}
    /\ cmd[Watcher] \in {"none", IF target = "session" THEN "resume" ELSE "nudge"}
    /\ \A p \in Procs : AnswerAt(pc[p], cmd[p], outcome[p])

\* A pane that is gone took with it what it was sent.
Gone == window = "gone" => box = <<>> /\ pending = <<>> /\ keys = <<>>

\* Who has looked at the dialog that is open is about to end.
FacedEnds == \A p \in faced : pc[p] = "record" /\ screen = "dialog"

\* A draft in the box the watcher found empty was typed since, and none is ever on
\* its way from a process.
DraftIsLate ==
    /\ \A i \in DOMAIN pending : pending[i].part # "draft"
    /\ pc[Watcher] \in {"read"} \cup Looking /\ Drafts(box) => late[Watcher]

\* The watcher goes on only about a stall that has no young answer, and what it
\* typed at one is answered, or about to be.
StallIsOpen ==
    /\ pc[Watcher] \in {"read"} \cup Looking /\ listed => typed # "fresh" /\ answer # "fresh"
    /\ typed = "fresh" => answer = "fresh" \/ (pc[Watcher] \in Sent /\ listed)

SeenInv == FacedEnds /\ DraftIsLate /\ StallIsOpen

\* A message in its pieces, and where no word of a process is.
Words(p) == <<[by |-> p, part |-> "head"], [by |-> p, part |-> "tail"]>>
Pressed(p, key) == <<[by |-> p, key |-> key]>>
Clean(p) == /\ \A i \in DOMAIN box : box[i].by # p
            /\ \A i \in DOMAIN pending : pending[i].by # p
Lost == "lost" \in upset

\* What the pane holds while a process is alone with it: nothing of its own until
\* it pastes, then its message, in the box or on its way there.
LookPhase(p) ==
    /\ pc[p] = "look" => /\ Clean(p) /\ pending = <<>>
                         /\ keys = <<>> \/ (cmd[p] = "interrupt" /\ keys = Pressed(p, "Escape"))
    /\ pc[p] \in {"clear", "clearing"} => Clean(p) /\ pending = <<>>
    /\ pc[p] = "clear" => keys = <<>>
    /\ pc[p] = "clearing" => keys \in {<<>>, Pressed(p, "C-u")}
    /\ pc[p] = "paste" => box = <<>> /\ pending = <<>> /\ keys = <<>>
    /\ pc[p] = "await" =>
          /\ keys = <<>>
          /\ \/ box = <<>> /\ pending = Words(p)
             \/ box = <<Words(p)[1]>> /\ pending = <<Words(p)[2]>>
             \/ box = Words(p) /\ pending = <<>>

\* A message given up is two pieces, of which each Ctrl-U but the first takes one,
\* unless the interface swallows it.
DropPhase(p) ==
    /\ pc[p] = "drop" =>
          /\ keys = <<>>
          /\ tries[p] = 0 => Len(box) + Len(pending) <= 2
          /\ tries[p] > 0 => pending = <<>> /\ (Lost \/ Len(box) \in 1 .. 3 - tries[p])
    /\ pc[p] = "dropping" =>
          /\ keys \in {<<>>, Pressed(p, "C-u")}
          /\ keys = <<>> => Lost \/ Len(box) + Len(pending) <= 3 - tries[p]
          /\ keys # <<>> => \/ Lost
                            \/ tries[p] = 1 /\ Len(box) + Len(pending) <= 2
                            \/ tries[p] > 1 /\ pending = <<>> /\ Len(box) \in 1 .. 4 - tries[p]

\* A message that landed is whole in the box until an Enter submits it, and another
\* Enter is pressed only where the interface swallowed those before.
EnterPhase(p) ==
    /\ pc[p] \in {"enter", "verify"} => pending = <<>>
    /\ pc[p] = "enter" => box = Words(p) /\ keys = <<>> /\ eaten[p] = tries[p]
    /\ pc[p] = "verify" =>
          \/ keys = Pressed(p, "Enter") /\ box = Words(p) /\ fate[p] = {} /\ eaten[p] = tries[p]
          \/ keys = <<>> /\ box = <<>> /\ fate[p] = {"whole"}
          \/ keys = <<>> /\ box = Words(p) /\ fate[p] = {} /\ Lost /\ eaten[p] = tries[p] + 1

Phase(p) == /\ screen = "box"
            /\ window = "gone" => pc[p] = "look"
            /\ pc[p] # "verify" => fate[p] = {}
            /\ pc[p] \notin {"enter", "verify"} => eaten[p] = 0
            /\ LookPhase(p) /\ DropPhase(p) /\ EnterPhase(p)

\* A steer's last Enter, which it does not wait for, on its way to the message.
InFlight(p) ==
    /\ keys = Pressed(p, "Enter") /\ box = Words(p) /\ pending = <<>> /\ screen = "box"
    /\ fate[p] = {} /\ cmd[p] # "tell" /\ eaten[p] = RetryLimit

\* How a command ends that was alone with its pane, and what it puts on record.
Ended(p) ==
    /\ outcome[p] = "delivered" => (fate[p] = {"whole"} /\ Clean(p)) \/ InFlight(p) \/ AllSwallowed(p)
    /\ outcome[p] = "refused" => Lost \/ (fate[p] = {} /\ Clean(p))
OnIt(p) ==
    /\ outcome[p] = "delivered" => cmd[p] \in {"tell", "nudge"} \/ "steer" \in onRecord[p]
    /\ outcome[p] = "refused" => "steer" \notin onRecord[p]

Ending == Over \cup {"record"}
Message(p) ==
    /\ alone[p] /\ pc[p] \notin Ending => Phase(p)
    /\ alone[p] /\ pc[p] \in Ending => Ended(p)
    /\ pc[p] \in Over => OnIt(p)
MessageInv == \A p \in Procs : Message(p)

Typed == TypeOK /\ Counted /\ Kinds /\ Gone

-----------------------------------------------------------------------------
(* The types.                                                               *)

\* Who is alone, and who saw a draft late, is a matter of true or false.
LEMMA DisturbTyped ==
    ASSUME FlagsTyped, NEW p, Disturb(p) PROVE alone' \in [Procs -> BOOLEAN]
BY Zenon DEF FlagsTyped, Disturb

LEMMA QuietTyped ==
    ASSUME FlagsTyped, NEW p \in Procs
    PROVE  [alone EXCEPT ![p] = Quiet(p)] \in [Procs -> BOOLEAN]
<1>1. Quiet(p) \in BOOLEAN
      BY Zenon DEF Quiet
<1>2. QED BY <1>1 DEF FlagsTyped

LEMMA TypedInit == Init => Typed
<1> SUFFICES ASSUME Init PROVE Typed
    OBVIOUS
<1>1. PaneTyped /\ CmdsTyped
      BY LimitAssumption DEF Init, PaneTyped, CmdsTyped, Step, Age, RetryLimit
<1>2. FlagsTyped
      BY DEF Init, FlagsTyped
<1>3. UsedTyped
      BY BoundsAssumption DEF Init, UsedTyped
<1>4. Counted /\ Kinds /\ Gone
      BY ProcsAssumption DEF Init, Counted, CountedAt, Kinds, AnswerAt, Gone, Over, Procs
<1>5. QED BY <1>1, <1>2, <1>3, <1>4 DEF Typed, TypeOK

\* A key a process presses is one, and lengthens what the interface was sent.
LEMMA PressTyped ==
    ASSUME PaneTyped, NEW p \in Procs, NEW key \in {"Enter", "C-u", "Escape"}
    PROVE  Append(keys, [by |-> p, key |-> key]) \in Seq(Key)
<1>1. [by |-> p, key |-> key] \in Key
      BY DEF Key
<1>2. QED BY <1>1 DEF PaneTyped

LEMMA ClientTyped == ASSUME Typed, NEW p \in Procs, Client(p) PROVE Typed'
<1> USE DEF Client, SteerSession, InterruptSession, TellConductor, Send, Begin, pane
<1>1. PaneTyped /\ CmdsTyped /\ FlagsTyped /\ UsedTyped /\ Counted /\ Kinds /\ Gone
      BY DEF Typed, TypeOK
<1>2. PaneTyped'
      BY <1>1, PressTyped DEF PaneTyped
<1>3. CmdsTyped'
  <2>1. 0 \in 0 .. ClearLimit + RetryLimit
        BY LimitAssumption DEF RetryLimit
  <2>2. tries' = [tries EXCEPT ![p] = 0] /\ fate' = [fate EXCEPT ![p] = {}]
        /\ onRecord' = [onRecord EXCEPT ![p] = {}] /\ outcome' = [outcome EXCEPT ![p] = "none"]
        /\ pc' = [pc EXCEPT ![p] = "look"]
        /\ \E c \in {"steer", "interrupt", "tell"} : cmd' = [cmd EXCEPT ![p] = c]
        OBVIOUS
  <2>3. QED BY <1>1, <2>1, <2>2 DEF CmdsTyped, Step
<1>4. FlagsTyped'
  <2>1. alone' \in [Procs -> BOOLEAN]
    <3>1. CASE InterruptSession(p)
          BY <1>1, <3>1, Zenon DEF FlagsTyped, Quiet
    <3>2. CASE SteerSession(p) \/ TellConductor(p)
          BY <1>1, <3>2, QuietTyped
    <3>3. QED BY <3>1, <3>2
  <2>2. QED BY <1>1, <2>1 DEF FlagsTyped
<1>5. UsedTyped'
  <2>1. eaten' = [eaten EXCEPT ![p] = 0]
        OBVIOUS
  <2>2. QED BY <1>1, <2>1, BoundsAssumption DEF UsedTyped
<1>6. Counted'
      BY <1>1 DEF CmdsTyped, Counted, CountedAt, Over
<1>7. Kinds'
      BY <1>1, ProcsAssumption, SMTT(30) DEF CmdsTyped, Kinds, AnswerAt, Over, Procs
<1>8. Gone'
      BY <1>1 DEF Gone
<1>9. QED BY <1>2, <1>3, <1>4, <1>5, <1>6, <1>7, <1>8 DEF Typed, TypeOK

\* A process that has a step of its own leaves the others where they are.
Spares(p) == \A q \in Procs \ {p} :
    pc'[q] = pc[q] /\ cmd'[q] = cmd[q] /\ tries'[q] = tries[q] /\ outcome'[q] = outcome[q]

\* What a step of one process has to show of itself.
Steps(p) == /\ CmdsTyped' /\ Spares(p)
            /\ cmd' = cmd /\ target' = target
            /\ CountedAt(pc'[p], tries'[p], cmd[p])
            /\ AnswerAt(pc'[p], cmd[p], outcome'[p])
            /\ pc'[p] \notin {"listed", "read"}

LEMMA StepsTyped ==
    ASSUME Typed, NEW p \in Procs, Steps(p), PaneTyped', FlagsTyped', UsedTyped', Gone'
    PROVE  Typed'
<1>1. Counted'
      BY DEF Typed, Counted, Steps, Spares
<1>2. Kinds'
      BY DEF Typed, Kinds, Steps, Spares, Procs
<1>3. QED BY <1>1, <1>2 DEF Typed, TypeOK, Steps

\* The steps of a command, from its look at the pane to its answer.
LEMMA TypesSteps == ASSUME Typed, NEW p \in Procs, Types(p) PROVE Steps(p)
<1> USE DEF Goto, Answer
<1>1. /\ CmdsTyped /\ CountedAt(pc[p], tries[p], cmd[p]) /\ AnswerAt(pc[p], cmd[p], outcome[p])
      /\ pc \in [Procs -> Step] /\ tries \in [Procs -> 0 .. ClearLimit + RetryLimit]
      /\ outcome \in [Procs -> {"none", "delivered", "refused"}]
      /\ ClearLimit \in Nat \ {0}
      BY LimitAssumption DEF Typed, TypeOK, CmdsTyped, Counted, Kinds
<1> USE DEF store, pane, history, used
<1>2. CASE PaneMissing(p)
  <2>1. CmdsTyped'
        BY <1>1, <1>2, LimitAssumption DEF PaneMissing, CmdsTyped, Step, RetryLimit
  <2>2. QED BY <1>1, <1>2, <2>1 DEF PaneMissing, Steps, Spares, CountedAt, AnswerAt, Over
<1>3. CASE Look(p)
  <2>1. CmdsTyped'
        BY <1>1, <1>3, LimitAssumption DEF Look, CmdsTyped, Step, RetryLimit
  <2>2. QED BY <1>1, <1>3, <2>1 DEF Look, Steps, Spares, CountedAt, AnswerAt, Over
<1>4. CASE Clear(p)
  <2>1. CmdsTyped'
        BY <1>1, <1>4, LimitAssumption DEF Clear, Press, CmdsTyped, CountedAt, Step, RetryLimit
  <2>2. QED BY <1>1, <1>4, <2>1 DEF Clear, Press, Steps, Spares, CountedAt, AnswerAt, Over
<1>5. CASE Cleared(p)
  <2>1. CmdsTyped'
        BY <1>1, <1>5, LimitAssumption DEF Cleared, CmdsTyped, Step, RetryLimit
  <2>2. QED BY <1>1, <1>5, <2>1 DEF Cleared, Steps, Spares, CountedAt, AnswerAt, Over
<1>6. CASE PasteText(p)
  <2>1. CmdsTyped'
        BY <1>1, <1>6, LimitAssumption DEF PasteText, CmdsTyped, Step, RetryLimit
  <2>2. QED BY <1>1, <1>6, <2>1 DEF PasteText, Steps, Spares, CountedAt, AnswerAt, Over
<1>7. CASE PasteLanded(p)
  <2>1. CmdsTyped'
        BY <1>1, <1>7, LimitAssumption DEF PasteLanded, CmdsTyped, Step, RetryLimit
  <2>2. QED BY <1>1, <1>7, <2>1 DEF PasteLanded, Steps, Spares, CountedAt, AnswerAt, Over, RetryLimit
<1>8. CASE GiveUp(p)
  <2>1. CmdsTyped'
        BY <1>1, <1>8, LimitAssumption DEF GiveUp, CmdsTyped, Step, RetryLimit
  <2>2. QED BY <1>1, <1>8, <2>1 DEF GiveUp, Steps, Spares, CountedAt, AnswerAt, Over
<1>9. CASE PressEnter(p)
  <2>1. CmdsTyped'
    <3>1. CASE cmd[p] # "tell" /\ tries[p] = RetryLimit
          BY <1>1, <1>9, <3>1, LimitAssumption DEF PressEnter, CmdsTyped, Step, RetryLimit
    <3>2. CASE ~(cmd[p] # "tell" /\ tries[p] = RetryLimit)
          BY <1>1, <1>9, <3>2 DEF PressEnter, CmdsTyped, Step
    <3>3. QED BY <3>1, <3>2
  <2>2. QED BY <1>1, <1>9, <2>1 DEF PressEnter, Press, Steps, Spares, CountedAt, AnswerAt, Over, RetryLimit
<1>10. CASE Verify(p)
  <2>1. CmdsTyped'
        BY <1>1, <1>10, LimitAssumption DEF Verify, CmdsTyped, CountedAt, Step, RetryLimit
  <2>2. QED BY <1>1, <1>10, <2>1 DEF Verify, Steps, Spares, CountedAt, AnswerAt, Over, RetryLimit
<1>11. CASE Record(p)
  <2>1. CmdsTyped'
        BY <1>1, <1>11, LimitAssumption DEF Record, Records, Finish, CmdsTyped, Step, RetryLimit
  <2>2. QED BY <1>1, <1>11, <2>1 DEF Record, Finish, Steps, Spares, CountedAt, AnswerAt, Over
<1>12. QED BY <1>2, <1>3, <1>4, <1>5, <1>6, <1>7, <1>8, <1>9, <1>10, <1>11 DEF Types

\* What they do to the pane, to what is true of the commands and to the counts.
LEMMA TypesTyped == ASSUME Typed, NEW p \in Procs, Types(p) PROVE Typed'
<1> USE DEF Goto, Answer, store, pane, history, used
<1>1. PaneTyped /\ CmdsTyped /\ FlagsTyped /\ UsedTyped /\ Gone
      BY DEF Typed, TypeOK
<1>2. CASE Clear(p) \/ PressEnter(p)
  <2>1. /\ PaneTyped' /\ Gone'
        BY <1>1, <1>2, PressTyped DEF Clear, PressEnter, Press, PaneTyped, Gone
  <2>2. FlagsTyped'
    <3>1. alone' \in [Procs -> BOOLEAN]
          BY <1>1, <1>2, DisturbTyped DEF Clear, PressEnter, Press
    <3>2. UNCHANGED <<listed, late>>
          BY <1>2 DEF Clear, PressEnter
    <3>3. QED BY <1>1, <3>1, <3>2 DEF FlagsTyped
  <2>3. UsedTyped'
        BY <1>1, <1>2 DEF Clear, PressEnter, UsedTyped
  <2>4. QED BY <2>1, <2>2, <2>3, TypesSteps, StepsTyped
<1>3. CASE PasteText(p)
  <2>1. <<[by |-> p, part |-> "head"], [by |-> p, part |-> "tail"]>> \in Seq(Chunk)
        BY DEF Chunk, Part
  <2>2. pending' \in Seq(Chunk)
        BY <1>1, <1>3, <2>1 DEF PasteText, PaneTyped
  <2>3. PaneTyped' /\ Gone'
        BY <1>1, <1>3, <2>2 DEF PasteText, PaneTyped, Gone, Age
  <2>4. FlagsTyped'
    <3>1. alone' \in [Procs -> BOOLEAN]
          BY <1>1, <1>3, DisturbTyped DEF PasteText
    <3>2. UNCHANGED <<listed, late>>
          BY <1>3 DEF PasteText
    <3>3. QED BY <1>1, <3>1, <3>2 DEF FlagsTyped
  <2>5. UsedTyped'
        BY <1>1, <1>3 DEF PasteText, UsedTyped
  <2>6. QED BY <2>3, <2>4, <2>5, TypesSteps, StepsTyped
<1>4. CASE Look(p) \/ Cleared(p) \/ GiveUp(p) \/ Verify(p)
  <2>1. PaneTyped' /\ Gone'
        BY <1>1, <1>4 DEF Look, Cleared, GiveUp, Verify, PaneTyped, Gone
  <2>2. FlagsTyped'
    <3>1. UNCHANGED <<listed, alone>>
          BY <1>4 DEF Look, Cleared, GiveUp, Verify
    <3>2. late' \in [Procs -> BOOLEAN]
      <4>1. CASE Look(p)
            BY <1>1, <4>1, Zenon DEF Look, FlagsTyped
      <4>2. CASE Cleared(p) \/ GiveUp(p) \/ Verify(p)
            BY <1>1, <4>2 DEF Cleared, GiveUp, Verify, FlagsTyped
      <4>3. QED BY <1>4, <4>1, <4>2
    <3>3. QED BY <1>1, <3>1, <3>2 DEF FlagsTyped
  <2>3. UsedTyped'
        BY <1>1, <1>4 DEF Look, Cleared, GiveUp, Verify, Seen, UsedTyped
  <2>4. QED BY <2>1, <2>2, <2>3, TypesSteps, StepsTyped
<1>5. CASE PaneMissing(p) \/ PasteLanded(p)
  <2>1. PaneTyped' /\ FlagsTyped' /\ UsedTyped' /\ Gone'
        BY <1>1, <1>5 DEF PaneMissing, PasteLanded, PaneTyped, FlagsTyped, UsedTyped, Gone
  <2>2. QED BY <2>1, TypesSteps, StepsTyped
<1>6. CASE Record(p)
  <2>1. PaneTyped' /\ Gone'
        BY <1>1, <1>6 DEF Record, PaneTyped, Gone, Age
  <2>2. FlagsTyped'
        BY <1>1, <1>6, Zenon DEF Record, Finish, FlagsTyped
  <2>3. UsedTyped'
        BY <1>1, <1>6 DEF Record, Finish, UsedTyped
  <2>4. QED BY <2>1, <2>2, <2>3, TypesSteps, StepsTyped
<1>7. QED BY <1>2, <1>3, <1>4, <1>5, <1>6 DEF Types

-----------------------------------------------------------------------------
\* The watchdog's sweep, and its restart.
LEMMA WatchTyped == ASSUME Typed, Watch \/ Restart PROVE Typed'
<1> USE DEF store, pane, history, used, Finish, BeginResume
<1>1. /\ PaneTyped /\ CmdsTyped /\ FlagsTyped /\ UsedTyped /\ Gone
      /\ CountedAt(pc[Watcher], tries[Watcher], cmd[Watcher])
      /\ AnswerAt(pc[Watcher], cmd[Watcher], outcome[Watcher])
      /\ Watcher \in Procs /\ Watcher \notin Clients
      BY ProcsAssumption DEF Typed, TypeOK, Counted, Kinds, Procs
<1>2. PaneTyped' /\ UNCHANGED <<window, box, pending, keys, target>>
      BY <1>1 DEF Watch, Sweep, ReadDeadTurn, Resume, Nudge, Restart, Spend, PaneTyped, Age
<1>3. Gone'
      BY <1>1, <1>2 DEF Gone
<1>4. CmdsTyped'
      BY <1>1, LimitAssumption DEF Watch, Sweep, ReadDeadTurn, Resume, Nudge, Restart, Spend,
         CmdsTyped, Step, RetryLimit
<1>5. UsedTyped'
  <2>1. eaten' \in {eaten, [eaten EXCEPT ![Watcher] = 0]}
        BY DEF Watch, Sweep, ReadDeadTurn, Resume, Nudge, Restart, Spend
  <2>2. eaten' \in [Procs -> Nat]
        BY <1>1, <2>1 DEF UsedTyped
  <2>3. QED BY <1>1, <2>2 DEF Watch, Sweep, ReadDeadTurn, Resume, Nudge, Restart, Spend, UsedTyped, Upset
<1>6. FlagsTyped'
  <2>1. alone' \in [Procs -> BOOLEAN]
        BY <1>1, QuietTyped DEF Watch, Sweep, ReadDeadTurn, Resume, Nudge, Restart, Spend, FlagsTyped
  <2>2. late' \in [Procs -> BOOLEAN]
        BY <1>1 DEF Watch, Sweep, ReadDeadTurn, Resume, Nudge, Restart, Spend, FlagsTyped
  <2>3. listed' \in BOOLEAN
        BY <1>1, Zenon DEF Watch, Sweep, ReadDeadTurn, Resume, Nudge, Restart, Spend, FlagsTyped
  <2>4. QED BY <2>1, <2>2, <2>3 DEF FlagsTyped
<1>7. Spares(Watcher)
      BY <1>1 DEF Watch, Sweep, ReadDeadTurn, Resume, Nudge, Restart, Spend, CmdsTyped, Spares
<1>8. CountedAt(pc'[Watcher], tries'[Watcher], cmd'[Watcher])
      BY <1>1 DEF Watch, Sweep, ReadDeadTurn, Resume, Nudge, Restart, Spend, CmdsTyped, CountedAt, Over
<1>9. /\ AnswerAt(pc'[Watcher], cmd'[Watcher], outcome'[Watcher])
      /\ cmd'[Watcher] \in {"none", IF target = "session" THEN "resume" ELSE "nudge"}
      BY <1>1 DEF Watch, Sweep, ReadDeadTurn, Resume, Nudge, Restart, Spend, CmdsTyped, AnswerAt, Over,
         Typed, Kinds
<1>10. Counted' /\ Kinds'
      BY <1>1, <1>2, <1>7, <1>8, <1>9 DEF Typed, Counted, Kinds, Spares, Procs
<1>11. QED BY <1>2, <1>3, <1>4, <1>5, <1>6, <1>10 DEF Typed, TypeOK

\* Whom nobody moves.
LEMMA StillTyped ==
    ASSUME Typed, UNCHANGED <<target, pc, cmd, tries, outcome, onRecord>>,
           fate' \in [Procs -> SUBSET {"whole", "mixed"}],
           PaneTyped', FlagsTyped', UsedTyped', Gone'
    PROVE  Typed'
<1>1. CmdsTyped' /\ Counted' /\ Kinds'
      BY DEF Typed, TypeOK, CmdsTyped, Counted, Kinds
<1>2. QED BY <1>1 DEF Typed, TypeOK

\* An Enter submits the box, or answers a dialog.
LEMMA EnterTyped ==
    ASSUME PaneTyped, CmdsTyped, Enter
    PROVE  /\ screen' = "box" /\ faced' = {} /\ box' \in Seq(Chunk)
           /\ turn' \in {"working", "idle", "dead"}
           /\ fate' \in [Procs -> SUBSET {"whole", "mixed"}]
           /\ box' = box \/ box' = <<>>
<1>1. \A p : Submitted(p) \in SUBSET {"whole", "mixed"}
      BY DEF Submitted
<1>2. fate' \in [Procs -> SUBSET {"whole", "mixed"}]
  <2>1. \A p \in Procs : fate[p] \cup Submitted(p) \in SUBSET {"whole", "mixed"}
        BY <1>1 DEF CmdsTyped
  <2>2. fate' = fate \/ fate' = [p \in Procs |-> fate[p] \cup Submitted(p)]
        BY DEF Enter
  <2>3. QED BY <2>1, <2>2 DEF CmdsTyped
<1>3. <<>> \in Seq(Chunk)
      OBVIOUS
<1>4. QED BY <1>2, <1>3 DEF Enter, PaneTyped

\* A Ctrl-U takes the last piece of the box.
LEMMA Shortened ==
    ASSUME NEW text \in Seq(Chunk), text # <<>>
    PROVE  /\ SubSeq(text, 1, Len(text) - 1) \in Seq(Chunk)
           /\ Len(SubSeq(text, 1, Len(text) - 1)) = Len(text) - 1
           /\ \A i \in DOMAIN SubSeq(text, 1, Len(text) - 1) :
                 i \in DOMAIN text /\ SubSeq(text, 1, Len(text) - 1)[i] = text[i]
<1>1. Len(text) \in Nat /\ Len(text) > 0 /\ DOMAIN text = 1 .. Len(text)
      OBVIOUS
<1> DEFINE rest == SubSeq(text, 1, Len(text) - 1)
<1>2. rest \in Seq(Chunk) /\ Len(rest) = Len(text) - 1
      BY <1>1
<1>3. \A i \in 1 .. Len(text) - 1 : rest[i] = text[i]
      BY <1>1
<1>4. DOMAIN rest = 1 .. Len(text) - 1
      BY <1>1, <1>2
<1>5. QED BY <1>1, <1>2, <1>3, <1>4

\* A key is one of three.
LEMMA KeyActedOn ==
    ASSUME Typed, Act
    PROVE  Head(keys) \in Key /\ Head(keys).key \in {"Enter", "C-u", "Escape"}
<1>1. Head(keys) \in Key
      BY DEF Act, Typed, TypeOK, PaneTyped
<1>2. QED BY <1>1 DEF Key

\* What a Ctrl-U leaves of the box.
LEMMA ClearKeyTakes ==
    ASSUME Typed, Act, Head(keys).key = "C-u"
    PROVE  /\ box' \in Seq(Chunk)
           /\ \A i \in DOMAIN box' : i \in DOMAIN box /\ box'[i] = box[i]
           /\ screen = "box" /\ box # <<>> => Len(box') = Len(box) - 1
           /\ box = <<>> => box' = <<>>
           /\ UNCHANGED <<screen, turn, fate, faced>>
<1>1. box \in Seq(Chunk)
      BY DEF Typed, TypeOK, PaneTyped
<1>2. CASE screen = "box" /\ box # <<>>
  <2>1. box' = SubSeq(box, 1, Len(box) - 1)
        BY <1>2 DEF Act
  <2>2. QED BY <1>1, <1>2, <2>1, Shortened DEF Act
<1>3. CASE ~(screen = "box" /\ box # <<>>)
  <2>1. box' = box /\ UNCHANGED <<screen, turn, fate, faced>>
        BY <1>3 DEF Act
  <2>2. QED BY <1>1, <1>3, <2>1
<1>4. QED BY <1>2, <1>3

\* The interface shows what it was sent and acts on it, or swallows a key.
LEMMA InterfaceTyped == ASSUME Typed, Interface \/ Swallow PROVE Typed'
<1> USE DEF store, pane, procs, history, used, Spend
<1>1. PaneTyped /\ CmdsTyped /\ FlagsTyped /\ UsedTyped /\ Gone
      BY DEF Typed, TypeOK
<1>2. CASE Show
  <2>1. pending' \in Seq(Chunk) /\ box' \in Seq(Chunk)
        BY <1>1, <1>2 DEF Show, PaneTyped
  <2>2. PaneTyped' /\ Gone'
        BY <1>1, <1>2, <2>1 DEF Show, PaneTyped, Gone
  <2>3. FlagsTyped' /\ UsedTyped' /\ fate' \in [Procs -> SUBSET {"whole", "mixed"}]
        BY <1>1, <1>2 DEF Show, FlagsTyped, UsedTyped, CmdsTyped
  <2>4. QED BY <1>2, <2>2, <2>3, StillTyped DEF Show
<1>3. CASE Swallow
  <2>1. PaneTyped' /\ Gone'
        BY <1>1, <1>3 DEF Swallow, PaneTyped, Gone
  <2>2. eaten' \in [Procs -> Nat]
    <3>1. \/ eaten' = eaten
          \/ eaten' = [eaten EXCEPT ![Head(keys).by] = eaten[Head(keys).by] + 1]
          BY <1>3 DEF Swallow
    <3>2. Head(keys).by \in Procs
      <4>1. Head(keys) \in Key
            BY <1>1, <1>3 DEF Swallow, PaneTyped
      <4>2. QED BY <4>1 DEF Key
    <3>3. QED BY <1>1, <3>1, <3>2 DEF UsedTyped
  <2>3. FlagsTyped' /\ UsedTyped' /\ fate' \in [Procs -> SUBSET {"whole", "mixed"}]
        BY <1>1, <1>3, <2>2 DEF Swallow, FlagsTyped, UsedTyped, CmdsTyped, Upset
  <2>4. QED BY <1>3, <2>1, <2>3, StillTyped DEF Swallow
<1>4. CASE Act
  <2>1. keys' \in Seq(Key)
        BY <1>1, <1>4 DEF Act, PaneTyped
  <2>2. /\ box' \in Seq(Chunk) /\ screen' \in {"box", "dialog"}
        /\ turn' \in {"working", "idle", "dead"} /\ faced' \in SUBSET Procs
        /\ fate' \in [Procs -> SUBSET {"whole", "mixed"}]
    <3>1. CASE Head(keys).key = "Enter"
          BY <1>1, <1>4, <3>1, EnterTyped DEF Act
    <3>2. CASE Head(keys).key = "C-u"
          BY <1>1, <1>4, <3>2, ClearKeyTakes DEF PaneTyped, CmdsTyped, UsedTyped
    <3>3. CASE Head(keys).key = "Escape"
          BY <1>1, <1>4, <3>3 DEF Act, PaneTyped, CmdsTyped, UsedTyped
    <3>4. QED BY <1>4, <3>1, <3>2, <3>3, KeyActedOn
  <2>3. PaneTyped' /\ Gone'
        BY <1>1, <1>4, <2>1, <2>2 DEF Act, PaneTyped, Gone
  <2>4. FlagsTyped' /\ UsedTyped'
        BY <1>1, <1>4, <2>2 DEF Act, FlagsTyped, UsedTyped
  <2>5. QED BY <1>4, <2>2, <2>3, <2>4, StillTyped DEF Act
<1>5. QED BY <1>2, <1>3, <1>4 DEF Interface

\* The agent, the person attached and the time.
LEMMA WorldTyped ==
    ASSUME Typed,
           \/ OpenDialog \/ TypeDraft \/ HumanEnter \/ ToolCall \/ TurnEnds \/ TurnDies
           \/ StampAges \/ AnswerAges \/ KillWindow \/ KillRow
    PROVE  Typed'
<1> USE DEF store, pane, procs, history, used, Spend
<1>1. PaneTyped /\ CmdsTyped /\ FlagsTyped /\ UsedTyped /\ Gone
      BY DEF Typed, TypeOK
<1>2. CASE OpenDialog \/ KillWindow
  <2>1. PaneTyped' /\ Gone'
    <3>1. CASE OpenDialog
          BY <1>1, <3>1 DEF OpenDialog, PaneTyped, Gone
    <3>2. CASE KillWindow
          BY <1>1, <3>2 DEF KillWindow, PaneTyped, Gone
    <3>3. QED BY <1>2, <3>1, <3>2
  <2>2. alone' \in [Procs -> BOOLEAN]
        BY <1>1, <1>2, Zenon DEF OpenDialog, KillWindow, FlagsTyped
  <2>3. FlagsTyped' /\ UsedTyped' /\ fate' \in [Procs -> SUBSET {"whole", "mixed"}]
        BY <1>1, <1>2, <2>2 DEF OpenDialog, KillWindow, FlagsTyped, UsedTyped, CmdsTyped, Upset
  <2>4. QED BY <1>2, <2>1, <2>3, StillTyped DEF OpenDialog, KillWindow
<1>3. CASE TypeDraft
  <2>1. [by |-> Human, part |-> "draft"] \in Chunk
        BY DEF Chunk, Part
  <2>2. box' \in Seq(Chunk)
        BY <1>1, <1>3, <2>1 DEF TypeDraft, PaneTyped
  <2>3. PaneTyped' /\ Gone'
        BY <1>1, <1>3, <2>2 DEF TypeDraft, PaneTyped, Gone
  <2>4. alone' \in [Procs -> BOOLEAN] /\ late' \in [Procs -> BOOLEAN]
        BY <1>1, <1>3, DisturbTyped DEF TypeDraft
  <2>5. FlagsTyped' /\ UsedTyped' /\ fate' \in [Procs -> SUBSET {"whole", "mixed"}]
        BY <1>1, <1>3, <2>4 DEF TypeDraft, FlagsTyped, UsedTyped, CmdsTyped, Upset
  <2>6. QED BY <1>3, <2>3, <2>5, StillTyped DEF TypeDraft
<1>4. CASE HumanEnter
  <2>1. PaneTyped' /\ Gone'
        BY <1>1, <1>4, EnterTyped DEF HumanEnter, PaneTyped, Gone
  <2>2. alone' \in [Procs -> BOOLEAN]
        BY <1>1, <1>4, DisturbTyped DEF HumanEnter
  <2>3. FlagsTyped' /\ UsedTyped'
        BY <1>1, <1>4, <2>2, EnterTyped DEF HumanEnter, FlagsTyped, UsedTyped
  <2>4. QED BY <1>1, <1>4, <2>1, <2>3, EnterTyped, StillTyped DEF HumanEnter
<1>5. CASE ToolCall \/ TurnEnds
  <2>1. PaneTyped' /\ Gone'
        BY <1>1, <1>5 DEF ToolCall, TurnEnds, Hook, PaneTyped, Gone, Age
  <2>2. FlagsTyped' /\ UsedTyped' /\ fate' \in [Procs -> SUBSET {"whole", "mixed"}]
        BY <1>1, <1>5 DEF ToolCall, TurnEnds, Hook, FlagsTyped, UsedTyped, CmdsTyped
  <2>3. QED BY <1>5, <2>1, <2>2, StillTyped DEF ToolCall, TurnEnds
<1>6. CASE TurnDies \/ StampAges \/ AnswerAges \/ KillRow
  <2>1. PaneTyped' /\ Gone'
        BY <1>1, <1>6 DEF TurnDies, StampAges, AnswerAges, KillRow, PaneTyped, Gone, Age
  <2>2. FlagsTyped' /\ UsedTyped' /\ fate' \in [Procs -> SUBSET {"whole", "mixed"}]
        BY <1>1, <1>6, BoundsAssumption DEF TurnDies, StampAges, AnswerAges, KillRow, FlagsTyped, UsedTyped,
           CmdsTyped
  <2>3. QED BY <1>6, <2>1, <2>2, StillTyped DEF TurnDies, StampAges, AnswerAges, KillRow
<1>7. QED BY <1>2, <1>3, <1>4, <1>5, <1>6

LEMMA TypedStep == Typed /\ [Next]_vars => Typed'
<1> SUFFICES ASSUME Typed, [Next]_vars PROVE Typed'
    OBVIOUS
<1>1. CASE UNCHANGED vars
  <2> USE <1>1 DEF vars, store, pane, procs, history, used
  <2>1. PaneTyped' /\ FlagsTyped' /\ UsedTyped' /\ Gone' /\ fate' \in [Procs -> SUBSET {"whole", "mixed"}]
        BY DEF Typed, TypeOK, PaneTyped, CmdsTyped, FlagsTyped, UsedTyped, Gone
  <2>2. QED BY <2>1, StillTyped
<1>2. QED BY <1>1, ClientTyped, TypesTyped, WatchTyped, InterfaceTyped, WorldTyped DEF Next

THEOREM TypedHolds == Spec => []Typed
<1>1. QED BY TypedInit, TypedStep, PTL DEF Spec

(* The variables keep their types, the presses of a process among them: none *)
(* clears a box more often than CLEAR_KEY_LIMIT (clearInputBox, pressEnter). *)
THEOREM TypeCorrect == Spec => []TypeOK
<1>1. Typed => TypeOK
      BY DEF Typed
<1>2. QED BY <1>1, TypedHolds, PTL

-----------------------------------------------------------------------------
(* What has been seen.                                                      *)

LEMMA SeenInit == Init => SeenInv
BY DEF Init, SeenInv, FacedEnds, DraftIsLate, Drafts, StallIsOpen, Looking, Sent

\* A look that meets a dialog ends the command; an answered dialog is forgotten.
LEMMA FacedStep == ASSUME Typed, FacedEnds, [Next]_vars PROVE FacedEnds'
<1> USE DEF FacedEnds, store, pane, procs, history, used
<1>1. /\ pc \in [Procs -> Step] /\ faced \in SUBSET Procs /\ screen \in {"box", "dialog"}
      /\ Watcher \in Procs
      BY DEF Typed, TypeOK, CmdsTyped, UsedTyped, PaneTyped, Procs
<1>2. ASSUME NEW p \in Procs, Client(p) PROVE FacedEnds'
      BY <1>1, <1>2 DEF Client, SteerSession, InterruptSession, TellConductor, Begin
<1>3. ASSUME NEW p \in Procs, Types(p) PROVE FacedEnds'
  <2>1. CASE Look(p) \/ Cleared(p) \/ GiveUp(p) \/ Verify(p)
        BY <1>1, <2>1 DEF Look, Cleared, GiveUp, Verify, Seen, Goto, Answer, inputBoxState
  <2>2. CASE PaneMissing(p) \/ Clear(p) \/ PasteText(p) \/ PasteLanded(p) \/ PressEnter(p)
        BY <1>1, <2>2 DEF PaneMissing, Clear, PasteText, PasteLanded, PressEnter, Press, Goto, Answer
  <2>3. CASE Record(p)
        BY <1>1, <2>3 DEF Record, Finish
  <2>4. QED BY <1>3, <2>1, <2>2, <2>3 DEF Types
<1>4. CASE Watch \/ Restart
      BY <1>1, <1>4 DEF Watch, Sweep, ReadDeadTurn, Resume, Nudge, Restart, Finish, BeginResume
<1>5. CASE Interface \/ Swallow
  <2>1. CASE Act
        BY <1>1, <2>1, KeyActedOn DEF Act, Enter
  <2>2. CASE Show \/ Swallow
        BY <2>2 DEF Show, Swallow
  <2>3. QED BY <1>5, <2>1, <2>2 DEF Interface
<1>6. CASE OpenDialog \/ TypeDraft \/ HumanEnter \/ KillWindow
      BY <1>1, <1>6 DEF OpenDialog, TypeDraft, HumanEnter, Enter, KillWindow
<1>7. CASE ToolCall \/ TurnEnds \/ TurnDies \/ StampAges \/ AnswerAges \/ KillRow
      BY <1>7 DEF ToolCall, TurnEnds, TurnDies, StampAges, AnswerAges, KillRow
<1>8. CASE UNCHANGED vars
      BY <1>8 DEF vars
<1>9. QED BY <1>2, <1>3, <1>4, <1>5, <1>6, <1>7, <1>8 DEF Next

\* Only the person types drafts.
LEMMA DraftStep == ASSUME Typed, DraftIsLate, [Next]_vars PROVE DraftIsLate'
<1> USE DEF store, pane, procs, history, used
<1>1. /\ pc \in [Procs -> Step] /\ late \in [Procs -> BOOLEAN]
      /\ box \in Seq(Chunk) /\ pending \in Seq(Chunk)
      /\ Watcher \in Procs /\ Watcher \notin Clients
      BY ProcsAssumption DEF Typed, TypeOK, CmdsTyped, FlagsTyped, PaneTyped, Procs
<1>2. ASSUME UNCHANGED <<box, pending>>, pc'[Watcher] \in {"read"} \cup Looking =>
                (pc[Watcher] \in {"read"} \cup Looking /\ late'[Watcher] = late[Watcher]) \/ box = <<>>
      PROVE  DraftIsLate'
      BY <1>2 DEF DraftIsLate, Drafts
<1>3. ASSUME NEW p \in Procs, Client(p) PROVE DraftIsLate'
  <2>1. UNCHANGED <<box, pending>> /\ pc'[Watcher] = pc[Watcher] /\ late'[Watcher] = late[Watcher]
        BY <1>1, <1>3 DEF Client, SteerSession, InterruptSession, TellConductor, Begin
  <2>2. QED BY <1>2, <2>1
<1>4. ASSUME NEW p \in Procs, Types(p) PROVE DraftIsLate'
  <2>1. CASE PasteText(p)
    <3>1. /\ pending' = pending \o <<[by |-> p, part |-> "head"], [by |-> p, part |-> "tail"]>>
          /\ UNCHANGED <<box, late>>
          /\ pc'[Watcher] \in {"read"} \cup Looking => pc'[Watcher] = pc[Watcher]
          BY <1>1, <2>1 DEF PasteText, Goto, Looking
    <3>2. \A i \in DOMAIN pending' : pending'[i].part # "draft"
          BY <1>1, <3>1 DEF DraftIsLate
    <3>3. QED BY <3>1, <3>2 DEF DraftIsLate
  <2>2. CASE Look(p)
        BY <1>1, <1>2, <2>2 DEF Look, Goto, Answer, Looking
  <2>3. CASE Cleared(p)
        BY <1>1, <1>2, <2>3 DEF Cleared, Goto, Answer, Looking
  <2>4. CASE Clear(p)
        BY <1>1, <1>2, <2>4 DEF Clear, Press, Looking
  <2>5. CASE PaneMissing(p) \/ PasteLanded(p) \/ GiveUp(p) \/ PressEnter(p) \/ Verify(p)
        BY <1>1, <1>2, <2>5 DEF PaneMissing, PasteLanded, GiveUp, PressEnter, Verify, Press, Goto, Answer, Looking
  <2>6. CASE Record(p)
        BY <1>1, <1>2, <2>6 DEF Record, Finish, Looking
  <2>7. QED BY <1>4, <2>1, <2>2, <2>3, <2>4, <2>5, <2>6 DEF Types
<1>5. CASE Watch \/ Restart
  <2>1. UNCHANGED <<box, pending>>
        BY <1>5 DEF Watch, Sweep, ReadDeadTurn, Resume, Nudge, Restart, BeginResume
  <2>2. deadTurnError => box = <<>>
        BY DEF deadTurnError, inputBoxState
  <2>3. pc'[Watcher] \in {"read"} \cup Looking =>
             (pc[Watcher] \in {"read"} \cup Looking /\ late'[Watcher] = late[Watcher]) \/ box = <<>>
        BY <1>1, <1>5, <2>2 DEF Watch, Sweep, ReadDeadTurn, Resume, Nudge, Restart, BeginResume, Finish, Looking
  <2>4. QED BY <1>2, <2>1, <2>3
<1>6. ASSUME UNCHANGED <<pc, late>>, \A i \in DOMAIN pending' : pending'[i].part # "draft",
             Drafts(box') => Drafts(box)
      PROVE  DraftIsLate'
      BY <1>6 DEF DraftIsLate
<1>7. Enter => (Drafts(box') => Drafts(box))
      BY DEF Enter, Drafts
<1>8. CASE Show
  <2>1. \A i \in DOMAIN pending' : pending'[i].part # "draft"
        BY <1>1, <1>8 DEF Show, DraftIsLate
  <2>2. Head(pending).part # "draft"
        BY <1>1, <1>8 DEF Show, DraftIsLate
  <2>3. Drafts(box') => Drafts(box)
        BY <1>1, <1>8, <2>2 DEF Show, Drafts
  <2>4. QED BY <1>6, <1>8, <2>1, <2>3 DEF Show
<1>9. CASE Act
  <2>1. Drafts(box') => Drafts(box)
    <3>1. CASE Head(keys).key = "Enter"
          BY <1>7, <1>9, <3>1 DEF Act
    <3>2. CASE Head(keys).key = "C-u"
          BY <1>1, <1>9, <3>2, ClearKeyTakes DEF Drafts
    <3>3. CASE Head(keys).key = "Escape"
          BY <1>9, <3>3 DEF Act
    <3>4. QED BY <1>9, <3>1, <3>2, <3>3, KeyActedOn
  <2>2. QED BY <1>6, <1>9, <2>1 DEF Act, DraftIsLate
<1>10. CASE TypeDraft
  <2>1. late'[Watcher] <=> pc[Watcher] # "idle"
        BY <1>1, <1>10 DEF TypeDraft
  <2>2. QED BY <1>10, <2>1 DEF TypeDraft, DraftIsLate, Looking
<1>11. CASE HumanEnter \/ KillWindow
      BY <1>6, <1>7, <1>11 DEF HumanEnter, KillWindow, Drafts, DraftIsLate
<1>12. CASE Swallow \/ OpenDialog \/ ToolCall \/ TurnEnds \/ TurnDies \/ StampAges \/ AnswerAges \/ KillRow
      BY <1>6, <1>12 DEF Swallow, OpenDialog, ToolCall, TurnEnds, TurnDies, StampAges, AnswerAges, KillRow,
         Hook, DraftIsLate
<1>13. CASE UNCHANGED vars
      BY <1>6, <1>13 DEF vars, DraftIsLate
<1>14. QED BY <1>3, <1>4, <1>5, <1>8, <1>9, <1>10, <1>11, <1>12, <1>13 DEF Next, Interface

\* One stall, one try: the watcher types at a stall only while nothing answers it.
LEMMA StallStep == ASSUME Typed, StallIsOpen, [Next]_vars PROVE StallIsOpen'
<1> USE DEF store, pane, procs, history, used
<1>1. /\ pc \in [Procs -> Step] /\ Watcher \in Procs /\ Watcher \notin Clients
      /\ cmd \in [Procs -> {"none", "steer", "interrupt", "tell", "resume", "nudge"}]
      /\ pc[Watcher] = "record" => cmd[Watcher] \in {"resume", "nudge"}
      BY ProcsAssumption DEF Typed, TypeOK, CmdsTyped, Kinds, AnswerAt, Procs
<1>2. ASSUME NEW p \in Procs, Client(p) PROVE StallIsOpen'
  <2>1. UNCHANGED <<typed, answer, listed>> /\ pc'[Watcher] = pc[Watcher]
        BY <1>1, <1>2 DEF Client, SteerSession, InterruptSession, TellConductor, Begin
  <2>2. QED BY <2>1 DEF StallIsOpen
<1>3. ASSUME NEW p \in Procs, Types(p) PROVE StallIsOpen'
  <2>1. CASE PaneMissing(p)
        BY <1>1, <2>1 DEF PaneMissing, Answer, StallIsOpen, Looking, Sent
  <2>2. CASE Look(p) \/ Clear(p) \/ Cleared(p)
        BY <1>1, <2>2 DEF Look, Clear, Cleared, Press, Goto, Answer, StallIsOpen, Looking, Sent
  <2>3. CASE PasteText(p)
        BY <1>1, <2>3 DEF PasteText, Goto, StallIsOpen, Looking, Sent
  <2>4. CASE PasteLanded(p) \/ GiveUp(p) \/ PressEnter(p) \/ Verify(p)
        BY <1>1, <2>4 DEF PasteLanded, GiveUp, PressEnter, Verify, Press, Goto, Answer, StallIsOpen,
           Looking, Sent
  <2>5. CASE Record(p) /\ p = Watcher
        BY <1>1, <2>5 DEF Record, Records, Finish, StallIsOpen, Looking, Sent
  <2>6. CASE Record(p) /\ p # Watcher
    <3>1. "turn_died" \notin Records(p)
          BY <2>6 DEF Records, Typed, Kinds, Procs
    <3>2. QED BY <1>1, <2>6, <3>1 DEF Record, Finish, StallIsOpen
  <2>7. QED BY <1>3, <2>1, <2>2, <2>3, <2>4, <2>5, <2>6 DEF Types
<1>4. CASE Watch
      BY <1>1, <1>4 DEF Watch, Sweep, ReadDeadTurn, Resume, Nudge, Answered, BeginResume, Finish,
         StallIsOpen, Looking, Sent
<1>5. CASE Restart
      BY <1>1, <1>5 DEF Restart, Finish, StallIsOpen, Looking, Sent
<1>6. CASE ToolCall \/ TurnEnds
      BY <1>6 DEF ToolCall, TurnEnds, Hook, StallIsOpen
<1>7. CASE AnswerAges
      BY <1>7 DEF AnswerAges, StallIsOpen
<1>8. CASE \/ Interface \/ Swallow \/ OpenDialog \/ TypeDraft \/ HumanEnter \/ TurnDies \/ StampAges
           \/ KillWindow \/ KillRow \/ UNCHANGED vars
  <2>1. UNCHANGED <<typed, answer, listed, pc>>
        BY <1>8 DEF Interface, Show, Act, Swallow, OpenDialog, TypeDraft, HumanEnter, TurnDies, StampAges,
           KillWindow, KillRow, vars
  <2>2. QED BY <2>1 DEF StallIsOpen
<1>9. QED BY <1>2, <1>3, <1>4, <1>5, <1>6, <1>7, <1>8 DEF Next

LEMMA SeenStep == Typed /\ SeenInv /\ [Next]_vars => SeenInv'
BY FacedStep, DraftStep, StallStep DEF SeenInv

THEOREM SeenInvHolds == Spec => []SeenInv
<1>1. QED BY SeenInit, SeenStep, TypedHolds, PTL DEF Spec

\* A key a process appends is its own, pressed in a step of its own.
LEMMA OwnKeys ==
    ASSUME Typed, Next, NEW p \in Procs, NEW key \in {"Enter", "C-u"},
           keys' = Append(keys, [by |-> p, key |-> key])
    PROVE  pc[p] \in {"clear", "drop", "enter"}
<1> DEFINE e == [by |-> p, key |-> key]
<1>1. keys \in Seq(Key)
      BY DEF Typed, TypeOK, PaneTyped
<1>2. /\ Len(keys') = Len(keys) + 1 /\ Len(keys) \in Nat
      /\ keys'[Len(keys) + 1] = e
      BY <1>1
<1>3. keys # keys' /\ keys' # <<>> /\ (keys # <<>> => keys' # Tail(keys))
      BY <1>1, <1>2
<1>4. ASSUME NEW q \in Procs, NEW other, keys' = Append(keys, [by |-> q, key |-> other])
      PROVE  q = p /\ other = key
  <2>1. keys'[Len(keys) + 1] = [by |-> q, key |-> other]
        BY <1>1, <1>4
  <2>2. QED BY <1>2, <2>1
<1> USE DEF store, pane, procs, history, used
<1> HIDE DEF e
<1>5. ASSUME NEW q \in Procs, Client(q) PROVE FALSE
      BY <1>3, <1>4, <1>5 DEF Client, SteerSession, InterruptSession, TellConductor
<1>6. ASSUME NEW q \in Procs, Types(q) PROVE pc[p] \in {"clear", "drop", "enter"}
      BY <1>3, <1>4, <1>6 DEF Types, PaneMissing, Look, Clear, Cleared, PasteText, PasteLanded, GiveUp,
         PressEnter, Verify, Record, Press
<1>7. CASE Watch \/ Restart
      BY <1>3, <1>7 DEF Watch, Sweep, ReadDeadTurn, Resume, Nudge, Restart, BeginResume
<1>8. CASE Interface \/ Swallow
      BY <1>3, <1>8 DEF Interface, Show, Act, Swallow
<1>9. CASE \/ OpenDialog \/ TypeDraft \/ HumanEnter \/ ToolCall \/ TurnEnds \/ TurnDies
           \/ StampAges \/ AnswerAges \/ KillWindow \/ KillRow
      BY <1>3, <1>9 DEF OpenDialog, TypeDraft, HumanEnter, ToolCall, TurnEnds, TurnDies, StampAges,
         AnswerAges, KillWindow, KillRow
<1>10. QED BY <1>5, <1>6, <1>7, <1>8, <1>9 DEF Next

\* The three commands and the watcher clear or paste nothing over a draft.
LEMMA NothingOverADraft ==
    ASSUME Typed, DraftIsLate, [Next]_vars, NEW p \in Procs,
           cmd[p] \in {"tell", "resume", "nudge"}, pc'[p] # pc[p], pc'[p] \in {"clear", "paste"},
           Drafts(box)
    PROVE  late[p]
<1>1. /\ pc \in [Procs -> Step] /\ Watcher \in Procs
      /\ cmd[p] = "tell" => pc[p] \notin {"clear", "clearing"}
      /\ cmd[p] # "tell" => p = Watcher
      BY DEF Typed, TypeOK, CmdsTyped, Kinds, AnswerAt, Procs
<1>2. inputBoxState # "empty"
      BY DEF Drafts, inputBoxState
<1> USE DEF store, pane, procs, history, used
<1>3. ASSUME NEW q \in Procs, Client(q) PROVE FALSE
      BY <1>1, <1>3 DEF Client, SteerSession, InterruptSession, TellConductor, Begin
<1>4. ASSUME NEW q \in Procs, Types(q) PROVE q = p /\ pc[p] \in {"look", "clearing"} /\ cmd[p] # "tell"
  <2>1. CASE Look(q)
        BY <1>1, <1>2, <2>1 DEF Look, Goto, Answer
  <2>2. CASE Cleared(q)
        BY <1>1, <1>2, <2>2 DEF Cleared, Goto, Answer
  <2>3. CASE PaneMissing(q) \/ Clear(q) \/ PasteText(q) \/ PasteLanded(q) \/ GiveUp(q) \/ PressEnter(q)
             \/ Verify(q) \/ Record(q)
        BY <1>1, <2>3 DEF PaneMissing, Clear, PasteText, PasteLanded, GiveUp, PressEnter, Verify, Record,
           Finish, Goto, Answer
  <2>4. QED BY <1>4, <2>1, <2>2, <2>3 DEF Types
<1>5. ASSUME Watch \/ Restart PROVE FALSE
      BY <1>1, <1>5 DEF Watch, Sweep, ReadDeadTurn, Resume, Nudge, Restart, BeginResume, Finish
<1>6. ASSUME \/ Interface \/ Swallow \/ OpenDialog \/ TypeDraft \/ HumanEnter \/ ToolCall \/ TurnEnds
             \/ TurnDies \/ StampAges \/ AnswerAges \/ KillWindow \/ KillRow \/ UNCHANGED vars
      PROVE  FALSE
      BY <1>6 DEF Interface, Show, Act, Swallow, OpenDialog, TypeDraft, HumanEnter, ToolCall, TurnEnds,
         TurnDies, StampAges, AnswerAges, KillWindow, KillRow, vars
<1>7. p = Watcher /\ pc[Watcher] \in {"look", "clearing"}
      BY <1>1, <1>3, <1>4, <1>5, <1>6 DEF Next
<1>8. QED BY <1>7 DEF DraftIsLate, Looking

(* A dialog a process has looked at gets none of its keys; a draft is typed *)
(* over only when it came after the look; and one stall is resumed once in  *)
(* ten minutes by the one watchdog there is, the radar's (inputBoxState,    *)
(* deadTurnError, resumeSession).                                           *)
THEOREM SeenIsLeftAloneHolds == Spec => SeenIsLeftAlone
<1>1. Typed /\ SeenInv /\ [Next]_vars =>
        [ \A p \in faced :
            keys' = Append(keys, [by |-> p, key |-> "Enter"])
            \/ keys' = Append(keys, [by |-> p, key |-> "C-u"]) => screen = "box" ]_vars
  <2> SUFFICES ASSUME Typed, SeenInv, Next, NEW p \in faced,
                      NEW key \in {"Enter", "C-u"}, keys' = Append(keys, [by |-> p, key |-> key])
               PROVE  FALSE
      OBVIOUS
  <2>1. p \in Procs /\ pc[p] = "record"
        BY DEF Typed, TypeOK, UsedTyped, SeenInv, FacedEnds
  <2>2. QED BY <2>1, OwnKeys
<1>2. Typed /\ SeenInv /\ [Next]_vars =>
        [ \A p \in Procs :
           (cmd[p] \in {"tell", "resume", "nudge"} /\ pc'[p] # pc[p]
            /\ pc'[p] \in {"clear", "paste"} /\ Drafts(box)) => late[p] ]_vars
      BY NothingOverADraft DEF SeenInv
<1>3. Typed /\ SeenInv /\ [Next]_vars =>
        [ (pc[Watcher] = "paste" /\ pc'[Watcher] = "await" /\ listed) => typed # "fresh" ]_vars
      BY DEF SeenInv, StallIsOpen, Looking
<1>4. QED BY <1>1, <1>2, <1>3, TypedHolds, SeenInvHolds, PTL
          DEF Spec, SeenIsLeftAlone, SeenDialogsAreLeftAlone, DraftsAreLeftAlone, ResumesOncePerStall

-----------------------------------------------------------------------------
(* The message.                                                             *)

LEMMA MessageInit == Init => MessageInv
BY DEF Init, MessageInv, Message, Ended, OnIt, Ending, Over

\* Whose command is over, and who is no longer alone, keeps what he has, whatever
\* is done to a pane that holds no word of his.
Apart(p) ==
    /\ UNCHANGED <<pc[p], cmd[p], outcome[p], onRecord[p]>>
    /\ alone'[p] => alone[p] /\ pc[p] \in Ending /\ ~InFlight(p)
    /\ Clean(p) => Clean(p)' /\ fate'[p] = fate[p]
    /\ upset \subseteq upset' /\ eaten'[p] \in {eaten[p], eaten[p] + 1}

LEMMA ApartKeeps == ASSUME Typed, NEW p \in Procs, Message(p), Apart(p) PROVE Message(p)'
<1>1. eaten[p] \in Nat
      BY DEF Typed, TypeOK, UsedTyped
<1>2. AllSwallowed(p) => AllSwallowed(p)'
      BY <1>1 DEF AllSwallowed, Apart, RetryLimit
<1>3. QED BY <1>2 DEF Message, Apart, Ended, OnIt, Lost

\* Who has an Enter on its way is not done with the pane.
LEMMA FlightIsAtPane == ASSUME NEW p \in Procs, ~AtPane(p) PROVE pc[p] = "idle" /\ ~InFlight(p)
<1>1. ASSUME keys = Pressed(p, "Enter") PROVE 1 \in DOMAIN keys /\ keys[1].by = p
      BY <1>1 DEF Pressed
<1>2. QED BY <1>1 DEF AtPane, InFlight

\* Nothing is done to the pane, and nothing by the process.
Untouched(p) ==
    /\ UNCHANGED <<pc[p], cmd[p], tries[p], outcome[p], onRecord[p], fate[p], eaten[p]>>
    /\ UNCHANGED <<window, screen, box, pending, keys, upset>>
    /\ alone'[p] => alone[p]

LEMMA UntouchedKeeps == ASSUME NEW p \in Procs, Message(p), Untouched(p) PROVE Message(p)'
<1> USE DEF Untouched
<1>1. Clean(p)' = Clean(p) /\ Lost' = Lost
      BY DEF Clean, Lost
<1>2. Phase(p) => Phase(p)'
      BY <1>1 DEF Phase, LookPhase, DropPhase, EnterPhase
<1>3. (Ended(p) => Ended(p)') /\ (OnIt(p) => OnIt(p)')
      BY <1>1 DEF Ended, OnIt, InFlight, AllSwallowed
<1>4. QED BY <1>2, <1>3 DEF Message

\* A process's own steps. A command begins with a pane that holds nothing of its.
LEMMA BeginsMessage == ASSUME Typed, NEW p \in Procs, Client(p) PROVE Message(p)'
<1> USE DEF pane
<1>1. /\ pc'[p] = "look" /\ fate'[p] = {} /\ eaten'[p] = 0 /\ (alone'[p] => Quiet(p))
      /\ UNCHANGED <<window, screen, box, pending>>
      /\ keys' = keys \/ (cmd'[p] = "interrupt" /\ keys' = Append(keys, [by |-> p, key |-> "Escape"]))
      BY DEF Typed, TypeOK, CmdsTyped, FlagsTyped, UsedTyped, Client, SteerSession, InterruptSession, TellConductor, Begin
<1>2. Quiet(p) => /\ Clean(p) /\ Clean(p)' /\ pending' = <<>> /\ screen' = "box"
                  /\ keys' = <<>> \/ (cmd'[p] = "interrupt" /\ keys' = Pressed(p, "Escape"))
      BY <1>1 DEF Quiet, Clean, Pressed
<1>3. alone'[p] => Phase(p)'
      BY <1>1, <1>2 DEF Phase, LookPhase, DropPhase, EnterPhase
<1>4. QED BY <1>1, <1>3 DEF Message, Ending, Over

\* What each of them finds.
LEMMA OwnPhase ==
    ASSUME Typed, NEW p \in Procs, Message(p), Types(p), alone'[p]
    PROVE  alone[p]
BY DEF Typed, TypeOK, FlagsTyped, Types, PaneMissing, Look, Clear, Cleared, PasteText, PasteLanded, GiveUp,
       PressEnter, Verify, Record, Press, Disturb, history

\* A look, and the Ctrl-Us before a message is pasted.
LEMMA LooksMessage ==
    ASSUME Typed, NEW p \in Procs, Message(p), Look(p) \/ PaneMissing(p) PROVE Message(p)'
<1> USE DEF store, pane, history, used, Goto, Answer
<1>1. /\ CmdsTyped /\ Gone /\ (alone'[p] => alone[p])
      /\ pc \in [Procs -> Step] /\ outcome \in [Procs -> {"none", "delivered", "refused"}]
      BY OwnPhase DEF Types, Typed, TypeOK, CmdsTyped
<1>2. UNCHANGED <<window, screen, box, pending, keys, upset, eaten, fate, onRecord, cmd>>
      BY DEF Look, PaneMissing
<1>3. Clean(p)' = Clean(p) /\ Lost' = Lost
      BY <1>2 DEF Clean, Lost
<1>4. CASE Look(p)
  <2>1. pc[p] = "look"
        BY <1>4 DEF Look
  <2>2. CASE inputBoxState = "empty"
        BY <1>1, <1>2, <1>3, <1>4, <2>1, <2>2 DEF Look, inputBoxState, Settled, Message, Phase, LookPhase, DropPhase,
           EnterPhase, Ending, Over
  <2>3. CASE inputBoxState = "holds" /\ cmd[p] # "tell"
        BY <1>1, <1>2, <1>3, <1>4, <2>1, <2>3 DEF Look, Settled, Message, Phase, LookPhase, DropPhase,
           EnterPhase, Ending, Over
  <2>4. CASE inputBoxState = "absent" \/ (inputBoxState = "holds" /\ cmd[p] = "tell")
        BY <1>1, <1>2, <1>3, <1>4, <2>1, <2>4 DEF Look, Message, Phase, LookPhase, Ended, Ending, Over
  <2>5. QED BY <2>2, <2>3, <2>4 DEF inputBoxState
<1>5. CASE PaneMissing(p)
  <2>1. pc[p] \notin Ending /\ pc'[p] = "record" /\ outcome'[p] = "refused" /\ window = "gone"
        BY <1>1, <1>5 DEF PaneMissing, Ending, Over
  <2>2. QED BY <1>1, <1>2, <1>3, <2>1 DEF Message, Phase, LookPhase, Ended, Ending, Over
<1>6. QED BY <1>4, <1>5

LEMMA ClearsMessage ==
    ASSUME Typed, ClearLimit > 2, NEW p \in Procs, Message(p), Clear(p) \/ Cleared(p) PROVE Message(p)'
<1> USE DEF store, pane, history, used, Goto, Answer
<1>1. /\ CmdsTyped /\ (alone'[p] => alone[p])
      /\ pc \in [Procs -> Step] /\ outcome \in [Procs -> {"none", "delivered", "refused"}]
      /\ tries \in [Procs -> 0 .. ClearLimit + RetryLimit] /\ ClearLimit \in Nat
      /\ CountedAt(pc[p], tries[p], cmd[p])
      /\ box \in Seq(Chunk)
      BY OwnPhase, LimitAssumption DEF Types, Typed, TypeOK, CmdsTyped, Counted, PaneTyped
<1>2. UNCHANGED <<window, screen, box, pending, upset, eaten, fate, onRecord, cmd>>
      BY DEF Clear, Cleared, Press
<1>3. Clean(p)' = Clean(p) /\ Lost' = Lost
      BY <1>2 DEF Clean, Lost
<1>4. CASE Clear(p)
  <2>1. /\ tries'[p] = tries[p] + 1 /\ pc[p] \in {"clear", "drop"}
        /\ pc[p] = "clear" => pc'[p] = "clearing"
        /\ pc[p] = "drop" => pc'[p] = "dropping"
        BY <1>1, <1>4 DEF Clear
  <2>2. alone[p] => keys' = Pressed(p, "C-u")
    <3>1. keys' = Append(keys, [by |-> p, key |-> "C-u"])
          BY <1>4 DEF Clear, Press
    <3>2. alone[p] => keys = <<>>
          BY <2>1 DEF Message, Phase, LookPhase, DropPhase, Ending, Over
    <3>3. QED BY <3>1, <3>2 DEF Pressed
  <2>3. alone[p] /\ pc[p] = "clear" => Phase(p)'
        BY <1>2, <1>3, <2>1, <2>2 DEF Message, Phase, LookPhase, DropPhase, EnterPhase, Ending, Over
  <2>4. alone[p] /\ pc[p] = "drop" => Phase(p)'
    <3>1. Pressed(p, "C-u") # <<>>
          BY DEF Pressed
    <3>2. tries[p] \in Nat /\ Len(box) \in Nat /\ (pending = <<>> => Len(pending) = 0)
          BY <1>1
    <3>3. alone[p] /\ pc[p] = "drop" => DropPhase(p)'
          BY <1>2, <1>3, <2>1, <2>2, <3>1, <3>2 DEF Message, Phase, DropPhase, Ending, Over
    <3>4. QED BY <1>2, <1>3, <2>1, <3>3 DEF Message, Phase, LookPhase, EnterPhase, Ending, Over
  <2>5. QED BY <1>1, <2>1, <2>3, <2>4 DEF Message, Ending, Over
<1>5. CASE Cleared(p)
  <2>1. /\ keys = <<>> /\ pending = <<>> /\ keys' = keys
        /\ pc[p] \in {"clearing", "dropping"}
        BY <1>5 DEF Cleared, Settled
  <2>2. Len(pending) = 0 /\ Len(box) \in Nat /\ (Len(box) = 0 => box = <<>>) /\ tries[p] \in 1 .. ClearLimit
        BY <1>1, <2>1 DEF CountedAt
  <2>3. CASE inputBoxState = "holds" /\ tries[p] < ClearLimit
    <3>1. /\ pc'[p] = (IF pc[p] = "clearing" THEN "clear" ELSE "drop") /\ tries'[p] = tries[p]
          /\ box # <<>>
          BY <1>1, <1>5, <2>3 DEF Cleared, inputBoxState
    <3>2. QED BY <1>1, <1>2, <1>3, <2>1, <2>2, <3>1 DEF Message, Phase, LookPhase, DropPhase, EnterPhase,
              Ending, Over
  <2>4. CASE inputBoxState = "empty" /\ pc[p] = "clearing"
    <3>1. pc'[p] = "paste" /\ box = <<>>
          BY <1>1, <1>5, <2>4 DEF Cleared, inputBoxState
    <3>2. QED BY <1>1, <1>2, <1>3, <2>1, <3>1 DEF Message, Phase, LookPhase, DropPhase, EnterPhase,
              Ending, Over
  <2>5. CASE /\ ~(inputBoxState = "holds" /\ tries[p] < ClearLimit)
             /\ ~(inputBoxState = "empty" /\ pc[p] = "clearing")
    <3>1. pc'[p] = "record" /\ outcome'[p] = "refused"
          BY <1>1, <1>5, <2>5 DEF Cleared
    <3>2. alone[p] => Phase(p) /\ screen = "box"
          BY <2>1 DEF Message, Phase, Ending, Over
    <3>3. alone[p] /\ pc[p] = "clearing" => Ended(p)'
          BY <1>2, <1>3, <3>1, <3>2 DEF Phase, LookPhase, Ended
    <3>4. alone[p] /\ pc[p] = "dropping" /\ ~Lost => box = <<>>
      <4>1. inputBoxState = "holds" \/ (alone[p] => box = <<>>)
            BY <3>2 DEF inputBoxState
      <4>2. inputBoxState = "holds" => tries[p] = ClearLimit
            BY <2>2, <2>5, LimitAssumption
      <4>3. alone[p] /\ pc[p] = "dropping" /\ ~Lost => Len(box) <= 3 - tries[p]
            BY <2>1, <2>2, <3>2 DEF Phase, DropPhase
      <4>4. QED BY <2>2, <4>1, <4>2, <4>3, LimitAssumption
    <3>5. box = <<>> => Clean(p)
          BY <2>1 DEF Clean
    <3>6. alone[p] /\ pc[p] = "dropping" => Ended(p)'
          BY <1>2, <1>3, <3>1, <3>2, <3>4, <3>5 DEF Phase, Ended
    <3>7. QED BY <1>1, <2>1, <3>1, <3>3, <3>6 DEF Message, Ending, Over
  <2>6. QED BY <2>3, <2>4, <2>5
<1>6. QED BY <1>4, <1>5

\* The paste, and what becomes of it.
LEMMA PastesMessage ==
    ASSUME Typed, NEW p \in Procs, Message(p), PasteText(p) \/ PasteLanded(p) \/ GiveUp(p)
    PROVE  Message(p)'
<1> USE DEF store, pane, history, used, Goto, Answer
<1>1. /\ (alone'[p] => alone[p])
      /\ pc \in [Procs -> Step] /\ outcome \in [Procs -> {"none", "delivered", "refused"}]
      /\ tries \in [Procs -> 0 .. ClearLimit + RetryLimit]
      /\ CountedAt(pc[p], tries[p], cmd[p])
      BY OwnPhase DEF Types, Typed, TypeOK, CmdsTyped, Counted
<1>2. UNCHANGED <<window, screen, box, keys, upset, eaten, fate, onRecord, cmd>>
      BY DEF PasteText, PasteLanded, GiveUp
<1>3. CASE PasteText(p)
  <2>1. pc[p] = "paste" /\ pc'[p] = "await" /\ pending' = pending \o Words(p)
        BY <1>1, <1>3 DEF PasteText, Words
  <2>2. alone[p] => box = <<>> /\ pending = <<>>
        BY <2>1 DEF Message, Phase, LookPhase, Ending, Over
  <2>3. alone[p] => pending' = Words(p)
        BY <2>1, <2>2 DEF Words
  <2>4. QED BY <1>1, <1>2, <2>1, <2>2, <2>3 DEF Message, Phase, LookPhase, DropPhase, EnterPhase, Ending, Over
<1>4. CASE PasteLanded(p)
  <2>1. /\ pc[p] = "await" /\ pc'[p] = "enter" /\ tries'[p] = 0 /\ UNCHANGED pending
        /\ pasteLanded(p)
        BY <1>1, <1>4 DEF PasteLanded, CountedAt
  <2>2. box # <<>> /\ box # <<Words(p)[1]>>
        BY <2>1 DEF pasteLanded, Words
  <2>3. QED BY <1>1, <1>2, <2>1, <2>2 DEF Message, Phase, LookPhase, DropPhase, EnterPhase, Ending, Over
<1>5. CASE GiveUp(p)
  <2>1. pc[p] = "await" /\ UNCHANGED pending
        BY <1>5 DEF GiveUp
  <2>2. alone[p] => Phase(p) /\ screen = "box" /\ inputBoxState # "absent"
        BY <2>1 DEF Message, Phase, Ending, Over, inputBoxState
  <2>3. alone[p] => pc'[p] = "drop" /\ tries'[p] = 0
        BY <1>1, <1>5, <2>2 DEF GiveUp
  <2>4. alone[p] => Len(box) + Len(pending) <= 2
    <3>2. ASSUME alone[p] PROVE \/ box = <<>> /\ pending = Words(p)
                                \/ box = <<Words(p)[1]>> /\ pending = <<Words(p)[2]>>
                                \/ box = Words(p) /\ pending = <<>>
          BY <2>1, <2>2, <3>2 DEF Phase, LookPhase
    <3>3. ASSUME NEW text, text = Words(p) PROVE Len(text) = 2
          BY <3>3 DEF Words
    <3>4. ASSUME NEW text, NEW piece, text = <<piece>> PROVE Len(text) = 1
          BY <3>4
    <3>5. ASSUME NEW text, text = <<>> PROVE Len(text) = 0
          BY <3>5
    <3>6. box = <<>> /\ pending = Words(p) => Len(box) + Len(pending) <= 2
      <4>1. box = <<>> => Len(box) = 0
            BY <3>5
      <4>2. pending = Words(p) => Len(pending) = 2
            BY <3>3
      <4>3. Len(box) = 0 /\ Len(pending) = 2 => Len(box) + Len(pending) <= 2
            OBVIOUS
      <4>4. QED BY <4>1, <4>2, <4>3, Zenon
    <3>7. box = <<Words(p)[1]>> /\ pending = <<Words(p)[2]>> => Len(box) + Len(pending) <= 2
      <4>1. box = <<Words(p)[1]>> => Len(box) = 1
            BY <3>4
      <4>2. pending = <<Words(p)[2]>> => Len(pending) = 1
            BY <3>4
      <4>3. QED BY <4>1, <4>2
    <3>8. box = Words(p) /\ pending = <<>> => Len(box) + Len(pending) <= 2
      <4>1. pending = <<>> => Len(pending) = 0
            BY <3>5
      <4>2. box = Words(p) => Len(box) = 2
            BY <3>3
      <4>3. Len(pending) = 0 /\ Len(box) = 2 => Len(box) + Len(pending) <= 2
            OBVIOUS
      <4>4. QED BY <4>1, <4>2, <4>3, Zenon
    <3>9. QED BY <3>2, <3>6, <3>7, <3>8
  <2>5. alone[p] => Phase(p)'
        BY <1>2, <2>1, <2>2, <2>3, <2>4 DEF Phase, LookPhase, DropPhase, EnterPhase
  <2>6. pc'[p] \in {"drop", "record"}
        BY <1>1, <1>5 DEF GiveUp
  <2>7. QED BY <1>1, <2>3, <2>5, <2>6 DEF Message, Ending, Over
<1>6. QED BY <1>3, <1>4, <1>5

\* The Enter, and the look after it.
LEMMA EntersMessage ==
    ASSUME Typed, NEW p \in Procs, Message(p), PressEnter(p) \/ Verify(p) PROVE Message(p)'
<1> USE DEF store, pane, history, used, Goto, Answer
<1>1. /\ (alone'[p] => alone[p])
      /\ pc \in [Procs -> Step] /\ outcome \in [Procs -> {"none", "delivered", "refused"}]
      /\ tries \in [Procs -> 0 .. ClearLimit + RetryLimit] /\ tries[p] \in Nat
      BY OwnPhase, LimitAssumption DEF Types, Typed, TypeOK, CmdsTyped, RetryLimit
<1>2. UNCHANGED <<window, screen, box, pending, upset, eaten, fate, onRecord, cmd>>
      BY DEF PressEnter, Verify, Press
<1>3. CASE PressEnter(p)
  <2>1. pc[p] = "enter"
        BY <1>3 DEF PressEnter
  <2>2. alone[p] => Phase(p) /\ EnterPhase(p)
        BY <2>1 DEF Message, Phase, Ending, Over
  <2>3. alone[p] => keys' = Pressed(p, "Enter")
    <3>1. keys' = Append(keys, [by |-> p, key |-> "Enter"])
          BY <1>3 DEF PressEnter, Press
    <3>2. QED BY <2>1, <2>2, <3>1 DEF EnterPhase, Pressed
  <2>4. CASE cmd[p] # "tell" /\ tries[p] = RetryLimit
    <3>1. pc'[p] = "record" /\ outcome'[p] = "delivered"
          BY <1>1, <1>3, <2>4 DEF PressEnter
    <3>2. alone[p] => InFlight(p)'
          BY <1>2, <2>1, <2>2, <2>3, <2>4 DEF Phase, EnterPhase, InFlight
    <3>3. QED BY <1>1, <3>1, <3>2 DEF Message, Ended, Ending, Over
  <2>5. CASE ~(cmd[p] # "tell" /\ tries[p] = RetryLimit)
    <3>1. pc'[p] = "verify" /\ UNCHANGED tries
          BY <1>1, <1>3, <2>5 DEF PressEnter
    <3>2. alone[p] => Phase(p)'
          BY <1>2, <2>1, <2>2, <2>3, <3>1 DEF Phase, LookPhase, DropPhase, EnterPhase
    <3>3. QED BY <1>1, <3>1, <3>2 DEF Message, Ending, Over
  <2>6. QED BY <2>4, <2>5
<1>4. CASE Verify(p)
  <2>1. pc[p] = "verify" /\ keys = <<>> /\ keys' = keys /\ pending = <<>>
        BY <1>4 DEF Verify, Settled
  <2>2. alone[p] => Phase(p) /\ EnterPhase(p) /\ screen = "box"
        BY <2>1 DEF Message, Phase, Ending, Over
  <2>3. alone[p] => \/ box = <<>> /\ fate[p] = {"whole"}
                    \/ box = Words(p) /\ box # <<>> /\ fate[p] = {} /\ Lost /\ eaten[p] = tries[p] + 1
        BY <2>1, <2>2 DEF EnterPhase, Pressed, Words
  <2>4. CASE alone[p] /\ box = <<>>
    <3>1. pc'[p] = "record" /\ outcome'[p] = "delivered"
          BY <1>1, <1>4, <2>2, <2>4 DEF Verify, inputBoxState
    <3>2. Clean(p)'
          BY <1>2, <2>1, <2>4 DEF Clean
    <3>3. fate[p] = {"whole"}
          BY <2>3, <2>4 DEF Words
    <3>4. QED BY <1>2, <3>1, <3>2, <3>3 DEF Message, Ended, Ending, Over
  <2>5. CASE alone[p] /\ box # <<>> /\ (cmd[p] = "tell" => tries[p] = 0)
    <3>1. pc'[p] = "enter" /\ tries'[p] = tries[p] + 1
          BY <1>1, <1>4, <2>2, <2>5 DEF Verify, inputBoxState
    <3>2. Phase(p)'
          BY <1>2, <2>1, <2>2, <2>3, <2>5, <3>1 DEF Phase, LookPhase, DropPhase, EnterPhase
    <3>3. QED BY <3>1, <3>2 DEF Message, Ending, Over
  <2>6. CASE alone[p] /\ box # <<>> /\ cmd[p] = "tell" /\ tries[p] # 0
    <3>1. pc'[p] = "record" /\ outcome'[p] = "refused" /\ Lost'
          BY <1>1, <1>2, <1>4, <2>2, <2>3, <2>6 DEF Verify, inputBoxState, Lost
    <3>2. QED BY <3>1 DEF Message, Ended, Ending, Over
  <2>7. pc'[p] \in {"enter", "record"}
        BY <1>1, <1>4 DEF Verify
  <2>8. QED BY <1>1, <2>4, <2>5, <2>6, <2>7 DEF Message, Ending, Over
<1>5. QED BY <1>3, <1>4

\* What it puts on record.
LEMMA RecordsMessage == ASSUME Typed, NEW p \in Procs, Message(p), Record(p) PROVE Message(p)'
<1> USE DEF store, pane, history, used
<1>1. /\ pc \in [Procs -> Step] /\ onRecord \in [Procs -> SUBSET {"steer", "interrupt", "turn_died"}]
      /\ cmd[p] \in {"none", "steer", "interrupt", "tell", "resume", "nudge"} /\ cmd[p] # "none"
      BY DEF Typed, TypeOK, CmdsTyped, Kinds, AnswerAt, Record
<1>2. /\ pc[p] = "record" /\ pc'[p] = "idle" /\ onRecord'[p] = Records(p)
      /\ UNCHANGED <<screen, box, pending, keys, upset, eaten, fate, cmd, outcome, alone>>
      BY <1>1 DEF Record, Finish
<1>3. OnIt(p)'
      BY <1>1, <1>2 DEF OnIt, Records
<1>4. Ended(p) => Ended(p)'
      BY <1>2 DEF Ended, Clean, Lost, InFlight, AllSwallowed
<1>5. QED BY <1>2, <1>3, <1>4 DEF Message, Ending, Over

\* The pieces of a text with two more behind it, and with one.
LEMMA PastedPieces ==
    ASSUME NEW text \in Seq(Chunk), NEW more \in Seq(Chunk), Len(more) = 2
    PROVE  \A i \in DOMAIN (text \o more) :
              (i \in DOMAIN text /\ (text \o more)[i] = text[i]) \/ (text \o more)[i] \in {more[1], more[2]}
<1>1. text \o more \in Seq(Chunk) /\ Len(text \o more) = Len(text) + 2
  <2>1. text \o more \in Seq(Chunk) /\ Len(text \o more) = Len(text) + Len(more)
        BY ConcatProperties, Zenon
  <2>2. QED BY <2>1
<1>2. \A i \in 1 .. Len(text) + 2 :
         (text \o more)[i] = IF i <= Len(text) THEN text[i] ELSE more[i - Len(text)]
  <2>1. \A i \in 1 .. Len(text) + Len(more) :
           (text \o more)[i] = IF i <= Len(text) THEN text[i] ELSE more[i - Len(text)]
        BY ConcatProperties, Zenon
  <2>2. QED BY <2>1
<1>3. Len(text) \in Nat /\ DOMAIN text = 1 .. Len(text)
      OBVIOUS
<1>4. DOMAIN (text \o more) = 1 .. Len(text \o more)
      BY <1>1, LenProperties, Zenon
<1>5. TAKE i \in DOMAIN (text \o more)
<1>6. CASE i <= Len(text)
      BY <1>1, <1>2, <1>3, <1>4, <1>6
<1>7. CASE i = Len(text) + 1 \/ i = Len(text) + 2
  <2>1. i - Len(text) \in {1, 2} /\ (text \o more)[i] = more[i - Len(text)]
        BY <1>1, <1>2, <1>3, <1>4, <1>7
  <2>2. QED BY <2>1
<1>8. QED BY <1>1, <1>3, <1>4, <1>6, <1>7

LEMMA AppendedPiece ==
    ASSUME NEW text \in Seq(Chunk), NEW piece \in Chunk
    PROVE  \A i \in DOMAIN Append(text, piece) :
              (i \in DOMAIN text /\ Append(text, piece)[i] = text[i]) \/ Append(text, piece)[i] = piece
<1>1. /\ Append(text, piece) \in Seq(Chunk) /\ Len(Append(text, piece)) = Len(text) + 1
      /\ \A i \in 1 .. Len(text) : Append(text, piece)[i] = text[i]
      /\ Append(text, piece)[Len(text) + 1] = piece
      BY AppendProperties
<1>2. QED BY <1>1

\* Two pieces show one after the other.
LEMMA SecondShows ==
    ASSUME NEW a \in Chunk, NEW b \in Chunk, NEW text \in Seq(Chunk), text = <<a>>
    PROVE  Append(text, b) = <<a, b>>
<1>1. Len(text) = 1 /\ text[1] = a /\ Len(<<a, b>>) = 2 /\ <<a, b>> \in Seq(Chunk)
      OBVIOUS
<1>2. Append(text, b) \in Seq(Chunk) /\ Len(Append(text, b)) = 2
      BY <1>1
<1>3. Append(text, b)[1] = a /\ Append(text, b)[2] = b
      BY <1>1
<1>4. \A i \in 1 .. 2 : Append(text, b)[i] = <<a, b>>[i]
      BY <1>3
<1>5. QED BY <1>1, <1>2, <1>4, SeqEqual

LEMMA PiecesShow ==
    ASSUME NEW a \in Chunk, NEW b \in Chunk
    PROVE  /\ Append(<<>>, a) = <<a>> /\ Head(<<a, b>>) = a /\ Tail(<<a, b>>) = <<b>>
           /\ Head(<<b>>) = b /\ Tail(<<b>>) = <<>>
OBVIOUS

\* Another process's step leaves this one apart, or untouched.
LEMMA OthersMessage ==
    ASSUME Typed, NEW p \in Procs, NEW q \in Procs \ {p}, Client(q) \/ Types(q), Message(p)
    PROVE  Message(p)'
<1> USE DEF store, pane, history, used
<1>1. /\ pc \in [Procs -> Step] /\ alone \in [Procs -> BOOLEAN]
      /\ cmd \in [Procs -> {"none", "steer", "interrupt", "tell", "resume", "nudge"}]
      /\ tries \in [Procs -> 0 .. ClearLimit + RetryLimit]
      /\ outcome \in [Procs -> {"none", "delivered", "refused"}]
      /\ onRecord \in [Procs -> SUBSET {"steer", "interrupt", "turn_died"}]
      /\ fate \in [Procs -> SUBSET {"whole", "mixed"}] /\ eaten \in [Procs -> Nat]
      /\ box \in Seq(Chunk) /\ pending \in Seq(Chunk)
      BY DEF Typed, TypeOK, CmdsTyped, FlagsTyped, UsedTyped, PaneTyped
<1>2. CASE SteerSession(q) \/ TellConductor(q)
  <2>1. Untouched(p)
        BY <1>1, <1>2 DEF SteerSession, TellConductor, Begin, Send, Untouched
  <2>2. QED BY <2>1, UntouchedKeeps
<1>3. CASE InterruptSession(q)
  <2>1. UNCHANGED <<box, pending>> /\ (alone'[p] => alone[p] /\ pc[p] = "idle" /\ ~InFlight(p))
        BY <1>1, <1>3, FlightIsAtPane DEF InterruptSession
  <2>2. Apart(p)
        BY <1>1, <1>3, <2>1 DEF InterruptSession, Begin, Send, Apart, Clean, Ending, Over
  <2>3. QED BY <2>2, ApartKeeps
<1>4. CASE PaneMissing(q) \/ Look(q) \/ Cleared(q)
  <2>1. Untouched(p)
        BY <1>1, <1>4 DEF PaneMissing, Look, Cleared, Goto, Answer, Untouched
  <2>2. QED BY <2>1, UntouchedKeeps
<1>5. CASE PasteLanded(q) \/ GiveUp(q) \/ Verify(q)
  <2>1. Untouched(p)
        BY <1>1, <1>5 DEF PasteLanded, GiveUp, Verify, Goto, Answer, Untouched
  <2>2. QED BY <2>1, UntouchedKeeps
<1>6. CASE Record(q)
  <2>1. Untouched(p)
        BY <1>1, <1>6 DEF Record, Finish, Untouched
  <2>2. QED BY <2>1, UntouchedKeeps
<1>7. CASE Clear(q) \/ PressEnter(q)
  <2>1. UNCHANGED <<box, pending>> /\ Disturb(q)
        BY <1>7 DEF Clear, PressEnter, Press
  <2>2. alone'[p] => alone[p] /\ pc[p] = "idle" /\ ~InFlight(p)
        BY <2>1, FlightIsAtPane DEF Disturb
  <2>3. Apart(p)
        BY <1>1, <1>7, <2>1, <2>2 DEF Clear, PressEnter, Goto, Answer, Apart, Clean, Ending, Over
  <2>4. QED BY <2>3, ApartKeeps
<1>8. CASE PasteText(q)
  <2>1. UNCHANGED box /\ Disturb(q) /\ pending' = pending \o Words(q)
        BY <1>8 DEF PasteText, Words
  <2>2. Words(q) \in Seq(Chunk) /\ Words(q)[1].by # p /\ Words(q)[2].by # p /\ Len(Words(q)) = 2
        BY DEF Words, Chunk, Part
  <2>3. \A i \in DOMAIN pending' :
           (i \in DOMAIN pending /\ pending'[i] = pending[i]) \/ pending'[i] \in {Words(q)[1], Words(q)[2]}
        BY <1>1, <2>1, <2>2, PastedPieces
  <2>4. Clean(p) => Clean(p)'
        BY <2>1, <2>2, <2>3 DEF Clean
  <2>5. alone'[p] => alone[p] /\ pc[p] = "idle" /\ ~InFlight(p)
        BY <2>1, FlightIsAtPane DEF Disturb
  <2>6. Apart(p)
        BY <1>1, <1>8, <2>1, <2>4, <2>5 DEF PasteText, Goto, Apart, Ending, Over
  <2>7. QED BY <2>6, ApartKeeps
<1>9. QED BY <1>2, <1>3, <1>4, <1>5, <1>6, <1>7, <1>8 DEF Client, Types

\* The watchdog's sweep, for itself and for the others.
LEMMA WatchMessage ==
    ASSUME Typed, NEW p \in Procs, Watch \/ Restart, Message(p) PROVE Message(p)'
<1> USE DEF store, pane, history, used, BeginResume, Finish
<1>1. /\ pc \in [Procs -> Step] /\ alone \in [Procs -> BOOLEAN]
      /\ cmd \in [Procs -> {"none", "steer", "interrupt", "tell", "resume", "nudge"}]
      /\ tries \in [Procs -> 0 .. ClearLimit + RetryLimit]
      /\ outcome \in [Procs -> {"none", "delivered", "refused"}]
      /\ onRecord \in [Procs -> SUBSET {"steer", "interrupt", "turn_died"}]
      /\ fate \in [Procs -> SUBSET {"whole", "mixed"}]
      /\ Watcher \in Procs /\ eaten \in [Procs -> Nat] /\ cmd[Watcher] # "tell"
      BY DEF Typed, TypeOK, CmdsTyped, FlagsTyped, UsedTyped, Kinds, Procs
<1>2. UNCHANGED <<window, screen, box, pending, keys>> /\ upset \subseteq upset'
      BY DEF Watch, Sweep, ReadDeadTurn, Resume, Nudge, Restart, Spend
<1>3. CASE p # Watcher
  <2>0. eaten' = eaten \/ eaten' = [eaten EXCEPT ![Watcher] = 0]
        BY DEF Watch, Sweep, ReadDeadTurn, Resume, Nudge, Restart, Spend
  <2>1. UNCHANGED <<pc[p], cmd[p], tries[p], outcome[p], onRecord[p], fate[p], alone[p], eaten[p]>>
    <3>1. UNCHANGED <<pc[p], cmd[p], tries[p], outcome[p], onRecord[p], fate[p], alone[p]>>
        BY <1>1, <1>3 DEF Watch, Sweep, ReadDeadTurn, Resume, Nudge, Restart
    <3>2. UNCHANGED eaten[p]
        BY <1>1, <1>3, <2>0
    <3> QED BY <3>1, <3>2
  <2>2. Phase(p) => Phase(p)'
        BY <1>2, <2>1 DEF Phase, LookPhase, DropPhase, EnterPhase, Clean, Lost
  <2>3. (Ended(p) => Ended(p)') /\ (OnIt(p) => OnIt(p)')
        BY <1>2, <2>1 DEF Ended, OnIt, Clean, Lost, InFlight, AllSwallowed
  <2>4. QED BY <2>1, <2>2, <2>3 DEF Message
<1>4. CASE p = Watcher /\ Restart
  <2>1. pc'[p] = "idle" /\ outcome'[p] = "none"
        BY <1>1, <1>4 DEF Restart
  <2>2. QED BY <2>1 DEF Message, Ended, OnIt, Ending, Over
<1>5. CASE p = Watcher /\ (Sweep \/ ReadDeadTurn)
  <2>1. /\ pc[p] \in Over /\ pc'[p] \in Over
        /\ UNCHANGED <<outcome[p], onRecord[p], fate[p], alone[p], eaten[p], upset>>
        /\ cmd'[p] # "tell"
        /\ cmd'[p] = cmd[p] \/ (Sweep /\ target = "session")
        BY <1>1, <1>5 DEF Sweep, ReadDeadTurn, Over
  <2>2. Sweep /\ target = "session" => cmd[p] \notin {"tell", "nudge"}
        BY <1>5, ProcsAssumption DEF Typed, Kinds
  <2>3. OnIt(p) => OnIt(p)'
        BY <2>1, <2>2 DEF OnIt
  <2>4. Ended(p) => Ended(p)'
        BY <1>1, <1>2, <1>5, <2>1 DEF Ended, Clean, Lost, InFlight, AllSwallowed
  <2>5. QED BY <2>1, <2>3, <2>4 DEF Message, Ending, Over
<1>6. CASE p = Watcher /\ (Resume \/ Nudge)
  <2>1. /\ fate'[p] = {} /\ eaten'[p] = 0 /\ (alone'[p] => Quiet(p))
        /\ pc'[p] = "look" \/ (pc'[p] = "record" /\ outcome'[p] = "refused")
        BY <1>1, <1>6 DEF Resume, Nudge
  <2>2. Quiet(p) => Clean(p)' /\ pending' = <<>> /\ screen' = "box" /\ keys' = <<>>
        BY <1>2 DEF Quiet, Clean
  <2>3. QED BY <2>1, <2>2 DEF Message, Phase, LookPhase, DropPhase, EnterPhase, Ended, Ending, Over
<1>7. QED BY <1>3, <1>4, <1>5, <1>6 DEF Watch

\* The interface takes in what it was sent. What an Enter submits for a process
\* without a word in the box, and for one whose message is the box.
LEMMA SubmittedIs ==
    ASSUME NEW p \in Procs
    PROVE  /\ Clean(p) => Submitted(p) = {}
           /\ box = Words(p) => Submitted(p) = {"whole"}
<1>1. Clean(p) => {i \in DOMAIN box : box[i].by = p} = {}
      BY DEF Clean
<1>2. ASSUME box = Words(p) PROVE {i \in DOMAIN box : box[i].by = p} # {}
  <2>1. 1 \in DOMAIN box /\ box[1].by = p
        BY <1>2 DEF Words
  <2>2. QED BY <2>1
<1>3. QED BY <1>1, <1>2 DEF Submitted, Words

\* Nothing the interface takes in is a word of a process that has none there.
LEMMA CleanStays ==
    ASSUME Typed, NEW p \in Procs, Clean(p), Show \/ Act \/ HumanEnter
    PROVE  Clean(p)' /\ fate'[p] = fate[p]
<1>1. /\ box \in Seq(Chunk) /\ pending \in Seq(Chunk) /\ fate \in [Procs -> SUBSET {"whole", "mixed"}]
      BY DEF Typed, TypeOK, PaneTyped, CmdsTyped
<1>2. CASE Show
  <2>1. /\ pending # <<>> /\ pending' = Tail(pending) /\ fate' = fate
        /\ box' = box \/ box' = Append(box, Head(pending))
        BY <1>2 DEF Show, history
  <2>2. Head(pending).by # p /\ \A i \in DOMAIN pending' : pending'[i].by # p
        BY <1>1, <2>1 DEF Clean
  <2>3. Head(pending) \in Chunk /\ \A i \in DOMAIN box : box[i].by # p
        BY <1>1, <2>1 DEF Clean
  <2>4. box' = Append(box, Head(pending)) => \A i \in DOMAIN box' : box'[i].by # p
        BY <1>1, <2>2, <2>3, AppendedPiece
  <2>5. \A i \in DOMAIN box' : box'[i].by # p
        BY <2>1, <2>3, <2>4
  <2>6. QED BY <2>1, <2>2, <2>5 DEF Clean
<1>3. Enter => (fate'[p] = fate[p] /\ (box' = box \/ box' = <<>>))
      BY <1>1, SubmittedIs DEF Enter
<1>4. CASE HumanEnter
      BY <1>3, <1>4 DEF HumanEnter, Clean
<1>5. CASE Act
  <2>1. UNCHANGED pending
        BY <1>5 DEF Act
  <2>2. CASE Head(keys).key = "Enter"
    <3>1. Enter
          BY <1>5, <2>2 DEF Act
    <3>2. QED BY <1>3, <2>1, <3>1 DEF Clean
  <2>3. CASE Head(keys).key = "C-u"
        BY <1>5, <2>1, <2>3, ClearKeyTakes DEF Clean
  <2>4. CASE Head(keys).key = "Escape"
        BY <1>5, <2>1, <2>4 DEF Act, Clean
  <2>5. QED BY <1>5, <2>2, <2>3, <2>4, KeyActedOn
<1>6. QED BY <1>2, <1>4, <1>5

\* A piece shows: of a message on its way, or of one given up.
LEMMA ShowsPhase ==
    ASSUME Typed, NEW p \in Procs, Show, Phase(p), pc[p] \notin Ending PROVE Phase(p)'
<1> USE DEF store, procs, history, used
<1>1. /\ box \in Seq(Chunk) /\ pending \in Seq(Chunk) /\ screen = "box" /\ pending # <<>>
      /\ box' = Append(box, Head(pending)) /\ pending' = Tail(pending)
      /\ UNCHANGED <<window, screen, keys, pc, cmd, tries, fate, upset, eaten>>
      BY DEF Typed, TypeOK, PaneTyped, Show, Phase
<1>2. /\ Len(box') = Len(box) + 1 /\ Len(pending') = Len(pending) - 1
      /\ Len(box) \in Nat /\ Len(pending) \in Nat /\ Len(pending) > 0
      BY <1>1
<1>3. pc[p] \in {"await", "drop", "dropping"} /\ (pc[p] = "drop" => tries[p] = 0)
      BY <1>1 DEF Phase, LookPhase, DropPhase, EnterPhase, Ending, Over, Typed, TypeOK, CmdsTyped, Step,
         Counted, CountedAt
<1>4. Words(p)[1] \in Chunk /\ Words(p)[2] \in Chunk /\ Words(p) = <<Words(p)[1], Words(p)[2]>>
      BY DEF Words, Chunk, Part
<1>5. CASE pc[p] = "await"
  <2>1. \/ box = <<>> /\ pending = Words(p)
        \/ box = <<Words(p)[1]>> /\ pending = <<Words(p)[2]>>
        BY <1>1, <1>5 DEF Phase, LookPhase
  <2>2. CASE box = <<>> /\ pending = Words(p)
    <3>1. box' = <<Words(p)[1]>> /\ pending' = <<Words(p)[2]>>
          BY <1>1, <1>4, <2>2, PiecesShow
    <3>2. QED BY <1>1, <1>5, <3>1 DEF Phase, LookPhase, DropPhase, EnterPhase
  <2>3. CASE box = <<Words(p)[1]>> /\ pending = <<Words(p)[2]>>
    <3>1. box' = Words(p) /\ pending' = <<>>
          BY <1>1, <1>4, <2>3, PiecesShow, SecondShows
    <3>2. QED BY <1>1, <1>5, <3>1 DEF Phase, LookPhase, DropPhase, EnterPhase
  <2>4. QED BY <2>1, <2>2, <2>3
<1>6. CASE pc[p] # "await"
  <2>1. DropPhase(p)'
        BY <1>1, <1>2, <1>3, <1>6 DEF Phase, DropPhase, Lost
  <2>2. QED BY <1>1, <1>3, <1>6, <2>1 DEF Phase, LookPhase, EnterPhase
<1>7. QED BY <1>5, <1>6

\* A key acted on: an interrupt's Escape, a Ctrl-U, or the Enter that submits.
LEMMA OneKey ==
    ASSUME NEW p, NEW key
    PROVE  Pressed(p, key) # <<>> /\ Head(Pressed(p, key)).key = key /\ Tail(Pressed(p, key)) = <<>>
BY DEF Pressed

LEMMA ActsPhase ==
    ASSUME Typed, NEW p \in Procs, Act, Phase(p), pc[p] \notin Ending PROVE Phase(p)'
<1> USE DEF store, procs, history, used
<1>1. /\ box \in Seq(Chunk) /\ pending \in Seq(Chunk) /\ screen = "box" /\ keys # <<>>
      /\ fate \in [Procs -> SUBSET {"whole", "mixed"}] /\ tries[p] \in Nat
      /\ Len(box) \in Nat /\ Len(pending) \in Nat
      BY LimitAssumption DEF Typed, TypeOK, PaneTyped, CmdsTyped, Act, Phase, RetryLimit
<1>2. /\ UNCHANGED <<window, pending, pc, cmd, tries, upset, eaten>>
      /\ window = "up" /\ keys' = Tail(keys)
      BY DEF Act
<1>3. /\ pc[p] \in {"look", "clearing", "dropping", "verify"}
      /\ pc[p] = "look" => keys = Pressed(p, "Escape")
      /\ pc[p] \in {"clearing", "dropping"} => keys = Pressed(p, "C-u")
      /\ pc[p] = "verify" => keys = Pressed(p, "Enter") /\ box = Words(p) /\ fate[p] = {}
      BY <1>1 DEF Phase, LookPhase, DropPhase, EnterPhase, Ending, Over, Typed, TypeOK, CmdsTyped, Step
<1>4. CASE pc[p] = "look"
  <2>1. keys' = <<>> /\ Head(keys).key = "Escape"
        BY <1>2, <1>3, <1>4, OneKey
  <2>2. screen' = "box" /\ UNCHANGED <<box, fate>>
        BY <2>1 DEF Act
  <2>3. Clean(p)'
        BY <1>2, <1>4, <2>2 DEF Phase, LookPhase, Clean
  <2>4. QED BY <1>2, <1>4, <2>1, <2>2, <2>3 DEF Phase, LookPhase, DropPhase, EnterPhase
<1>5. CASE pc[p] = "clearing"
  <2>1. keys' = <<>> /\ Head(keys).key = "C-u"
        BY <1>2, <1>3, <1>5, OneKey
  <2>2. UNCHANGED <<screen, fate>>
        BY <2>1, ClearKeyTakes
  <2>3. Clean(p)'
        BY <1>5, CleanStays DEF Phase, LookPhase
  <2>4. QED BY <1>1, <1>2, <1>5, <2>1, <2>2, <2>3 DEF Phase, LookPhase, DropPhase, EnterPhase
<1>6. CASE pc[p] = "dropping"
  <2>1. keys' = <<>> /\ Head(keys).key = "C-u"
        BY <1>2, <1>3, <1>6, OneKey
  <2>2. UNCHANGED <<screen, fate>> /\ (box # <<>> => Len(box') = Len(box) - 1) /\ (box = <<>> => box' = box)
        BY <1>1, <2>1, ClearKeyTakes
  <2>3. Len(box) > 0 => box # <<>>
        BY <1>1
  <2>4. Lost \/ Len(box') + Len(pending) <= 3 - tries[p]
    <3>1. \/ Lost
          \/ tries[p] = 1 /\ Len(box) + Len(pending) <= 2
          \/ tries[p] > 1 /\ pending = <<>> /\ Len(box) \in 1 .. 4 - tries[p]
          BY <1>1, <1>6 DEF Phase, DropPhase
    <3>2. Len(box') <= Len(box) /\ (Len(box) > 0 => Len(box') = Len(box) - 1)
          BY <1>1, <2>2, <2>3
    <3>3. CASE tries[p] = 1 /\ Len(box) + Len(pending) <= 2
      <4>1. Len(box') \in Int
            BY <1>1, <2>2
      <4>2. QED BY <1>1, <3>2, <3>3, <4>1
    <3>4. CASE tries[p] > 1 /\ pending = <<>> /\ Len(box) \in 1 .. 4 - tries[p]
      <4>1. Len(pending) = 0 /\ Len(box') = Len(box) - 1
            BY <1>1, <3>2, <3>4
      <4>2. QED BY <1>1, <3>4, <4>1
    <3>5. QED BY <3>1, <3>3, <3>4
  <2>5. DropPhase(p)'
        BY <1>2, <1>6, <2>1, <2>4 DEF DropPhase, Lost
  <2>6. QED BY <1>1, <1>2, <1>6, <2>2, <2>5 DEF Phase, LookPhase, EnterPhase
<1>7. CASE pc[p] = "verify"
  <2>1. keys' = <<>> /\ Head(keys).key = "Enter" /\ box = Words(p)
        BY <1>2, <1>3, <1>7, OneKey
  <2>2. Enter /\ box # <<>>
        BY <2>1 DEF Act, Words
  <2>3. screen' = "box" /\ box' = <<>> /\ fate'[p] = fate[p] \cup Submitted(p)
        BY <1>1, <2>2 DEF Enter
  <2>4. fate'[p] = {"whole"}
        BY <1>3, <1>7, <2>1, <2>3, SubmittedIs
  <2>5. EnterPhase(p)'
        BY <1>2, <1>7, <2>1, <2>3, <2>4 DEF Phase, EnterPhase, Lost
  <2>6. QED BY <1>2, <1>7, <2>3, <2>5 DEF Phase, LookPhase, DropPhase
<1>8. QED BY <1>3, <1>4, <1>5, <1>6, <1>7

LEMMA SwallowedIs ==
    ASSUME Typed, NEW p \in Procs, Swallow, NEW key, keys = Pressed(p, key)
    PROVE  eaten'[p] = IF key = "Enter" THEN eaten[p] + 1 ELSE eaten[p]
<1>1. Head(keys).key = key /\ Head(keys).by = p
      BY DEF Pressed
<1>2. QED BY <1>1 DEF Swallow, Typed, TypeOK, UsedTyped

\* A key swallowed: the loss is on record, and the message is where it was.
LEMMA SwallowsPhase ==
    ASSUME Typed, NEW p \in Procs, Swallow, Phase(p), pc[p] \notin Ending PROVE Phase(p)'
<1> USE DEF store, procs, history, used
<1>1. /\ UNCHANGED <<window, screen, box, pending, pc, cmd, tries, fate>>
      /\ window = "up" /\ keys # <<>> /\ keys' = Tail(keys) /\ Lost'
      BY DEF Swallow, Lost
<1>2. /\ pc[p] \in {"look", "clearing", "dropping", "verify"}
      /\ pc[p] = "look" => keys = Pressed(p, "Escape")
      /\ pc[p] \in {"clearing", "dropping"} => keys = Pressed(p, "C-u")
      /\ pc[p] = "verify" => keys = Pressed(p, "Enter") /\ box = Words(p) /\ fate[p] = {} /\ eaten[p] = tries[p]
      BY <1>1 DEF Phase, LookPhase, DropPhase, EnterPhase, Ending, Over, Typed, TypeOK, CmdsTyped, Step
<1>3. keys' = <<>>
      BY <1>1, <1>2, OneKey
<1>4. Clean(p)' = Clean(p)
      BY <1>1 DEF Clean
<1>9. eaten'[p] = IF pc[p] = "verify" THEN eaten[p] + 1 ELSE eaten[p]
      BY <1>2, SwallowedIs
<1>5. LookPhase(p)'
      BY <1>1, <1>2, <1>3, <1>4 DEF Phase, LookPhase
<1>6. DropPhase(p)'
      BY <1>1, <1>2, <1>3 DEF DropPhase
<1>7. EnterPhase(p)'
      BY <1>1, <1>2, <1>3, <1>9 DEF Phase, EnterPhase
<1>8. QED BY <1>1, <1>2, <1>5, <1>6, <1>7, <1>9 DEF Phase

LEMMA WordsAreNotClean == ASSUME NEW p, box = Words(p) PROVE ~Clean(p)
<1>1. 1 \in DOMAIN box /\ box[1].by = p
      BY DEF Words
<1>2. QED BY <1>1 DEF Clean

\* The last Enter of a steer submits its message, or is swallowed like the others.
LEMMA LandsMessage ==
    ASSUME Typed, NEW p \in Procs, InFlight(p), Interface \/ Swallow
    PROVE  (fate'[p] = {"whole"} /\ Clean(p)') \/ AllSwallowed(p)'
<1>1. /\ keys = Pressed(p, "Enter") /\ box = Words(p) /\ pending = <<>> /\ screen = "box" /\ fate[p] = {}
      /\ cmd[p] # "tell" /\ eaten[p] = RetryLimit /\ fate \in [Procs -> SUBSET {"whole", "mixed"}]
      BY DEF InFlight, Typed, TypeOK, CmdsTyped
<1>2. CASE Act
  <2>1. Head(keys).key = "Enter" /\ UNCHANGED pending
        BY <1>1, <1>2, OneKey DEF Act
  <2>2. Enter /\ box # <<>>
        BY <1>1, <1>2, <2>1 DEF Act, Words
  <2>3. box' = <<>> /\ fate'[p] = fate[p] \cup Submitted(p)
        BY <1>1, <2>2 DEF Enter
  <2>4. QED BY <1>1, <2>1, <2>3, SubmittedIs DEF Clean
<1>3. CASE Swallow
  <2>1. eaten'[p] = RetryLimit + 1 /\ UNCHANGED cmd
        BY <1>1, <1>3, SwallowedIs DEF Swallow, procs
  <2>2. QED BY <1>1, <2>1 DEF AllSwallowed, RetryLimit
<1>4. ~Show
      BY <1>1 DEF Show
<1>5. QED BY <1>2, <1>3, <1>4 DEF Interface

LEMMA InterfaceMessage ==
    ASSUME Typed, NEW p \in Procs, Message(p), Interface \/ Swallow PROVE Message(p)'
<1> USE DEF store, procs, history, used
<1>1. /\ UNCHANGED <<pc, cmd, tries, outcome, onRecord, alone>>
      /\ upset \subseteq upset'
      BY DEF Interface, Show, Act, Swallow
<1>2. eaten'[p] \in {eaten[p], eaten[p] + 1}
  <2>1. CASE Swallow
        BY <2>1 DEF Swallow, Typed, TypeOK, UsedTyped
  <2>2. CASE Interface
        BY <2>2 DEF Interface, Show, Act
  <2>3. QED BY <2>1, <2>2
<1>3. CASE pc[p] \in Ending /\ ~InFlight(p)
  <2>1. Clean(p) => Clean(p)' /\ fate'[p] = fate[p]
    <3>1. CASE Swallow
          BY <3>1 DEF Swallow, Clean
    <3>2. CASE Show \/ Act
          BY <3>2, CleanStays
    <3>3. QED BY <3>1, <3>2 DEF Interface
  <2>2. Apart(p)
        BY <1>1, <1>2, <1>3, <2>1 DEF Apart
  <2>3. QED BY <2>2, ApartKeeps
<1>4. CASE pc[p] \in Ending /\ InFlight(p)
  <2>1. CASE outcome[p] = "delivered"
    <3>1. Ended(p)'
          BY <1>1, <1>4, <2>1, LandsMessage DEF Ended
    <3>2. QED BY <1>1, <1>4, <3>1 DEF Message, OnIt
  <2>2. CASE outcome[p] # "delivered"
    <3>1. alone[p] /\ outcome[p] = "refused" => Lost
          BY <1>4, WordsAreNotClean DEF Message, Ended, InFlight
    <3>2. alone[p] => Ended(p)'
          BY <1>1, <2>2, <3>1 DEF Ended, Lost
    <3>3. QED BY <1>1, <1>4, <3>2 DEF Message, OnIt
  <2>3. QED BY <2>1, <2>2
<1>5. CASE pc[p] \notin Ending
  <2>1. alone[p] => Phase(p)'
        BY <1>5, ShowsPhase, ActsPhase, SwallowsPhase DEF Interface, Message
  <2>2. QED BY <1>1, <1>5, <2>1 DEF Message, Ending
<1>6. QED BY <1>3, <1>4, <1>5

\* The agent, the person attached and the time.
LEMMA WorldMessage ==
    ASSUME Typed, NEW p \in Procs, Message(p),
           \/ OpenDialog \/ TypeDraft \/ HumanEnter \/ ToolCall \/ TurnEnds \/ TurnDies
           \/ StampAges \/ AnswerAges \/ KillWindow \/ KillRow \/ UNCHANGED vars
    PROVE  Message(p)'
<1> USE DEF store, pane, procs, history, used
<1>1. /\ pc \in [Procs -> Step] /\ alone \in [Procs -> BOOLEAN]
      /\ box \in Seq(Chunk) /\ p # Human
      BY ProcsAssumption DEF Typed, TypeOK, CmdsTyped, FlagsTyped, PaneTyped
<1>2. CASE ToolCall \/ TurnEnds \/ TurnDies \/ StampAges \/ AnswerAges \/ KillRow \/ UNCHANGED vars
  <2>1. Untouched(p)
        BY <1>2 DEF ToolCall, TurnEnds, TurnDies, StampAges, AnswerAges, KillRow, vars, Untouched
  <2>2. QED BY <2>1, UntouchedKeeps
<1>3. CASE OpenDialog \/ TypeDraft \/ HumanEnter \/ KillWindow
  <2>1. /\ UNCHANGED <<pc, cmd, outcome, onRecord, eaten>> /\ upset \subseteq upset'
        BY <1>3 DEF OpenDialog, TypeDraft, HumanEnter, KillWindow, Spend
  <2>2. alone'[p] => alone[p] /\ pc[p] = "idle" /\ ~InFlight(p)
        BY <1>1, <1>3, FlightIsAtPane DEF OpenDialog, TypeDraft, HumanEnter, KillWindow, Disturb
  <2>3. Clean(p) => Clean(p)' /\ fate'[p] = fate[p]
    <3>1. CASE OpenDialog
          BY <3>1 DEF OpenDialog, Clean
    <3>2. CASE KillWindow
          BY <3>2 DEF KillWindow, Clean
    <3>3. CASE HumanEnter
          BY <3>3, CleanStays
    <3>4. CASE TypeDraft
      <4>1. box' = Append(box, [by |-> Human, part |-> "draft"]) /\ UNCHANGED <<pending, fate>>
            BY <3>4 DEF TypeDraft
      <4>2. [by |-> Human, part |-> "draft"] \in Chunk
            BY DEF Chunk, Part
      <4>3. Clean(p) => Clean(p)'
            BY <1>1, <4>1, <4>2, AppendedPiece DEF Clean
      <4>4. QED BY <4>1, <4>3
    <3>5. QED BY <1>3, <3>1, <3>2, <3>3, <3>4
  <2>4. Apart(p)
        BY <2>1, <2>2, <2>3 DEF Apart, Ending, Over
  <2>5. QED BY <2>4, ApartKeeps
<1>4. QED BY <1>2, <1>3

LEMMA MessageStep ==
    ASSUME ClearLimit > 2 PROVE Typed /\ MessageInv /\ [Next]_vars => MessageInv'
<1> SUFFICES ASSUME Typed, MessageInv, [Next]_vars, NEW p \in Procs PROVE Message(p)'
    BY DEF MessageInv
<1>1. Message(p)
      BY DEF MessageInv
<1>2. ASSUME NEW q \in Procs, Client(q) \/ Types(q) PROVE Message(p)'
  <2>1. CASE q # p
        BY <1>1, <1>2, <2>1, OthersMessage
  <2>2. CASE q = p /\ Client(p)
        BY <2>2, BeginsMessage
  <2>3. CASE q = p /\ Types(p)
        BY <1>1, <2>3, LooksMessage, ClearsMessage, PastesMessage, EntersMessage, RecordsMessage DEF Types
  <2>4. QED BY <1>2, <2>1, <2>2, <2>3
<1>3. CASE Watch \/ Restart
      BY <1>1, <1>3, WatchMessage
<1>4. CASE Interface \/ Swallow
      BY <1>1, <1>4, InterfaceMessage
<1>5. CASE \/ OpenDialog \/ TypeDraft \/ HumanEnter \/ ToolCall \/ TurnEnds \/ TurnDies
           \/ StampAges \/ AnswerAges \/ KillWindow \/ KillRow \/ UNCHANGED vars
      BY <1>1, <1>5, WorldMessage
<1>6. QED BY <1>2, <1>3, <1>4, <1>5 DEF Next

(* A message that ended with nobody else at the pane was submitted whole and *)
(* is on record, or was refused, is on no record and left nothing of itself  *)
(* to submit; but a steer is on record too where the interface swallowed     *)
(* every Enter of it (steerPane, steerSession). Where a box may have only    *)
(* two Ctrl-Us, the first can come before the text shows and the second      *)
(* leaves a piece: CLEAR_KEY_LIMIT is 64.                                    *)
THEOREM MessageIsWholeOrNothingHolds ==
    ASSUME ClearLimit > 2 PROVE Spec => []MessageIsWholeOrNothing
<1>1. Typed /\ MessageInv => MessageIsWholeOrNothing
  <2> SUFFICES ASSUME Typed, MessageInv, NEW p \in Procs, pc[p] = "idle", outcome[p] # "none", alone[p], Settled
               PROVE  /\ IF outcome[p] = "delivered"
                         THEN /\ fate[p] = {"whole"} \/ AllSwallowed(p)
                              /\ cmd[p] \in {"tell", "nudge"} \/ "steer" \in onRecord[p]
                         ELSE /\ "steer" \notin onRecord[p]
                              /\ fate[p] = {} \/ "lost" \in upset
                      /\ outcome[p] = "refused" /\ "lost" \notin upset => \A i \in DOMAIN box : box[i].by # p
      BY DEF MessageIsWholeOrNothing, OnRecordIffSubmitted, RefusedLeavesNothing
  <2>1. Ended(p) /\ OnIt(p)
        BY DEF MessageInv, Message, Ending, Over
  <2>2. outcome[p] \in {"delivered", "refused"}
        BY DEF Typed, TypeOK, CmdsTyped
  <2>3. ~InFlight(p)
        BY DEF Settled, InFlight, Pressed
  <2>4. QED BY <2>1, <2>2, <2>3 DEF Ended, OnIt, Clean, Lost
<1>2. QED BY <1>1, MessageInit, MessageStep, TypedHolds, PTL DEF Spec

=============================================================================
