------------------------------ MODULE Controls ------------------------------
(***************************************************************************)
(* The keys of the terminal dashboard (use-controls.hook.ts) and what they  *)
(* run (actions.service.ts): a table of rows read every two seconds, a      *)
(* cursor on it, questions put about a row and answered later, one action   *)
(* at a time, and a merge run as a child process.                           *)
(*                                                                          *)
(* A row is a task and its newest session; `run` tells one session of a     *)
(* task from the next. The other actors are the fleet's: commands, hooks    *)
(* and the gate, which change a session between the reading and the key.    *)
(***************************************************************************)
EXTENDS Subject, Integers, FiniteSets

CONSTANTS
    Rows,        \* bound: the tasks are 1 .. Rows, in the order of the table
    MaxOutside,  \* bound: changes other actors make
    MaxRuns      \* bound: sessions of one task

ASSUME ControlsAssumption == Rows \in Nat \ {0} /\ {MaxOutside, MaxRuns} \subseteq Nat

VARIABLES
    fleet,      \* the store: each task's session, and whether a conductor runs
    view,       \* the same, as last read
    selected,   \* the cursor, before it is clamped to the rows there are
    prompt,     \* the question on the screen
    flight,     \* the action in flight: the screen is busy while there is one
    mergeLog,   \* the pane of a merge
    child,      \* the merge's process
    exited,     \* the dashboard has left the terminal
    outside,    \* bound: changes made by others
    wanted      \* history: what was asked for, of what the screen named then

controlsVars == <<fleet, view, selected, prompt, flight, mergeLog, child, exited,
                  outside, wanted>>

RowStates == {"planned", "running", "blocked", "awaiting-review", "merged"}
Verbs == {"launch", "steer", "interrupt", "kill", "unblock", "respawn", "attach",
          "merge", "start", "stop"}
NoOne == [verb |-> "none", row |-> 0, run |-> 0]
Orders == [verb : Verbs \cup {"none"}, row : 0 .. Rows, run : 0 .. MaxRuns + 1]
Fleets == [1 .. Rows -> [state : RowStates, run : 0 .. MaxRuns + 1]] \X BOOLEAN

ControlsTypeOK ==
    /\ {fleet, view} \subseteq Fleets
    /\ selected \in 0 .. Rows
    /\ {prompt, flight, wanted} \subseteq Orders
    /\ mergeLog \in {"none", "running", "ended"}
    /\ child \in {"none", "up", "terminated"}
    /\ exited \in BOOLEAN /\ outside \in 0 .. MaxOutside

ControlsRests ==
    /\ fleet = <<[r \in 1 .. Rows |-> [state |-> IF r = 1 THEN "running" ELSE "planned",
                                       run |-> 0]], FALSE>>
    /\ view = fleet /\ selected = 0
    /\ prompt = NoOne /\ flight = NoOne /\ wanted = NoOne
    /\ mergeLog = "none" /\ child = "none" /\ exited = FALSE /\ outside = 0

ControlsInit == given \in {"operator", "readOnly"} /\ ControlsRests
-----------------------------------------------------------------------------
(* The screen.                                                              *)

Live(r) == view[1][r].state \notin {"planned", "merged"}
Planned(r) == view[1][r].state = "planned"
Table == {r \in 1 .. Rows : Live(r) \/ Planned(r)}

\* Those that live come first, then those that are planned, each in their order
Above(q, r) == (Live(q) /\ Planned(r)) \/ ((Live(q) <=> Live(r)) /\ q < r)
Line(r) == Cardinality({q \in Table : Above(q, r)})

lastLine == IF Table = {} THEN 0 ELSE Cardinality(Table) - 1
cursor == IF selected < lastLine THEN selected ELSE lastLine
AtCursor == IF Table = {} THEN 0 ELSE CHOOSE r \in Table : Line(r) = cursor
busy == flight # NoOne

\* The order a key gives: of the row under the cursor, as the table shows it
Ordered(verb) ==
    [verb |-> verb, row |-> AtCursor, run |-> IF AtCursor = 0 THEN 0 ELSE view[1][AtCursor].run]
WholeFleet(verb) == [verb |-> verb, row |-> 0, run |-> 0]

\* MUTANT: an answer is about the row the cursor is on by then
Named_AtCursor(order) == IF order.row = 0 THEN order ELSE Ordered(order.verb)

\* What was asked about is held with the question
Named(order) == order

\* unblockSelected: the store is read again
unblockable(state) == state = "blocked"

\* Whether the store lets the action through: it is the same session still
Allowed(order) ==
    IF order.row = 0 THEN fleet[2] = (order.verb = "stop")
    ELSE LET now == fleet[1][order.row]
         IN CASE order.verb = "launch" -> now.state = "planned"
              [] order.verb = "unblock" -> now.run = order.run /\ unblockable(now.state)
              [] order.verb = "merge" -> now.run = order.run /\ now.state = "awaiting-review"
              [] OTHER -> now.run = order.run /\ now.state \notin {"planned", "merged"}

\* launchTask, killSession, the transition of an unblock, a merged pull request,
\* startConductor and stopConductor, as far as the table tells them apart
Effect(order) ==
    CASE order.verb = "launch" -> [fleet EXCEPT ![1][order.row] =
                                      [state |-> "running", run |-> @.run + 1]]
      [] order.verb = "kill" -> [fleet EXCEPT ![1][order.row].state = "planned"]
      [] order.verb = "unblock" -> [fleet EXCEPT ![1][order.row].state = "running"]
      [] order.verb = "merge" -> [fleet EXCEPT ![1][order.row].state = "merged"]
      [] order.verb \in {"start", "stop"} -> [fleet EXCEPT ![2] = (order.verb = "start")]
      [] OTHER -> fleet

\* settle: an action is carried out or refused, and the table is read again
CarryOut(order) ==
    \/ /\ Allowed(order)
       /\ fleet' = Effect(order) /\ view' = fleet'
    \/ fleet' = fleet /\ view' = fleet
-----------------------------------------------------------------------------
(* The keys. None is taken while an action is in flight, but q of a merge.  *)

Idle == ~exited /\ ~busy /\ prompt = NoOne
Driven == Idle /\ given = "operator"

\* Up, down, r, Enter and Escape: the detail pane is a view of the cursor's row
Look ==
    /\ Idle
    /\ \/ selected' = (IF cursor < lastLine THEN cursor + 1 ELSE lastLine) /\ UNCHANGED mergeLog
       \/ selected' = (IF cursor > 0 THEN cursor - 1 ELSE 0) /\ UNCHANGED mergeLog
       \/ mergeLog = "ended" /\ mergeLog' = "none" /\ UNCHANGED selected
    /\ UNCHANGED <<fleet, view, prompt, flight, child, exited, outside, wanted>>

\* l, s, k, u, m and c: the keys that ask
Asks(verb) ==
    CASE verb = "launch" -> AtCursor # 0 /\ Planned(AtCursor) /\ view[1][AtCursor].run < MaxRuns
      [] verb \in {"steer", "kill"} -> AtCursor # 0 /\ Live(AtCursor)
      [] verb = "unblock" -> AtCursor # 0 /\ view[1][AtCursor].state = "blocked"
      [] verb = "merge" -> AtCursor # 0 /\ view[1][AtCursor].state = "awaiting-review"
      [] verb = "start" -> ~view[2]

Ask(verb) ==
    /\ Driven /\ Asks(verb)
    /\ prompt' = IF verb = "start" THEN WholeFleet(verb) ELSE Ordered(verb)
    /\ wanted' = prompt'
    /\ UNCHANGED <<fleet, view, selected, flight, mergeLog, child, exited, outside>>

\* i: carried out at once
InterruptSelected ==
    /\ Driven /\ AtCursor # 0 /\ Live(AtCursor)
    /\ CarryOut(Ordered("interrupt"))
    /\ UNCHANGED <<selected, prompt, flight, mergeLog, child, exited, outside, wanted>>

\* c of a conductor that runs, R and a: busy from the key on
Begins(order) ==
    /\ Driven
    /\ IF order.verb = "stop" THEN view[2]
       ELSE AtCursor # 0 /\ Live(AtCursor)
    /\ wanted' = order /\ flight' = order
    /\ UNCHANGED <<fleet, view, selected, prompt, mergeLog, child, exited, outside>>

\* answerPrompt: Escape, n, or an answer: kill and unblock act at once, a merge
\* starts its child, and the rest run after the frame that names the wait
Cancel ==
    /\ ~exited /\ ~busy /\ prompt # NoOne /\ prompt' = NoOne /\ wanted' = NoOne
    /\ UNCHANGED <<fleet, view, selected, flight, mergeLog, child, exited, outside>>

AnswerNow ==
    /\ ~exited /\ ~busy /\ prompt.verb \in {"kill", "unblock"}
    /\ prompt' = NoOne /\ wanted' = NoOne /\ CarryOut(Named(prompt))
    /\ UNCHANGED <<selected, flight, mergeLog, child, exited, outside>>

AnswerLater ==
    /\ ~exited /\ ~busy /\ prompt.verb \in {"launch", "steer", "start"}
    /\ prompt' = NoOne /\ flight' = Named(prompt)
    /\ UNCHANGED <<fleet, view, selected, mergeLog, child, exited, outside, wanted>>

\* startMerge: a child that cannot be spawned gives the screen back
AnswerMerge ==
    /\ ~exited /\ ~busy /\ prompt.verb = "merge"
    /\ prompt' = NoOne
    /\ \/ /\ flight' = Named(prompt) /\ mergeLog' = "running" /\ child' = "up"
          /\ UNCHANGED <<view, wanted>>
       \/ /\ mergeLog' = "none" /\ view' = fleet /\ wanted' = NoOne
          /\ UNCHANGED <<flight, child>>
    /\ UNCHANGED <<fleet, selected, exited, outside>>

\* q: it ends the merge it leaves, so that the lock is released by its handler
Quit(now) == IF now = "up" THEN "terminated" ELSE now

KeyQuit ==
    /\ ~exited
    /\ prompt = NoOne /\ (busy => child = "up")
    /\ exited' = TRUE /\ child' = Quit(child)
    /\ UNCHANGED <<fleet, view, selected, prompt, flight, mergeLog, outside, wanted>>
-----------------------------------------------------------------------------
(* What happens in its own time.                                            *)

\* runAfterFrame's frame is out, a respawn's wait is over, or tmux let go
Landed ==
    /\ ~exited /\ busy /\ flight.verb # "merge"
    /\ CarryOut(flight) /\ flight' = NoOne /\ wanted' = NoOne
    /\ UNCHANGED <<selected, prompt, mergeLog, child, exited, outside>>

\* The child asks the store again, and merges or refuses
ChildWorks ==
    /\ child = "up" /\ Allowed(flight)
    /\ fleet' = Effect(flight)
    /\ UNCHANGED <<view, selected, prompt, flight, mergeLog, child, exited, outside, wanted>>

\* onExit, told once of a child's error and its close
Freed == NoOne

ChildEnds ==
    /\ child = "up" /\ child' = "none"
    /\ flight' = Freed /\ wanted' = Freed /\ mergeLog' = "ended" /\ view' = fleet
    /\ UNCHANGED <<fleet, selected, prompt, exited, outside>>

\* The timer of useSnapshot, while the dashboard is up
Refresh ==
    /\ ~exited /\ view' = fleet
    /\ UNCHANGED <<fleet, selected, prompt, flight, mergeLog, child, exited, outside, wanted>>

\* Other commands, hooks and the gate
Elsewhere(r) ==
    /\ ~exited /\ outside < MaxOutside /\ outside' = outside + 1
    /\ LET now == fleet[1][r].state
           moved == CASE now = "planned" -> IF fleet[1][r].run < MaxRuns THEN {"running"} ELSE {}
                      [] now = "running" -> {"blocked", "awaiting-review", "planned"}
                      [] now = "blocked" -> {"running", "planned"}
                      [] now = "awaiting-review" -> {"running", "blocked", "merged"}
                      [] OTHER -> {}
       IN \E s \in moved :
            fleet' = [fleet EXCEPT ![1][r] =
                         [state |-> s, run |-> IF now = "planned" THEN @.run + 1 ELSE @.run]]
    /\ UNCHANGED <<view, selected, prompt, flight, mergeLog, child, exited, wanted>>

ControlsNext ==
    \/ Look \/ InterruptSelected \/ Cancel \/ AnswerNow \/ AnswerLater \/ AnswerMerge \/ KeyQuit
    \/ \E verb \in {"launch", "steer", "kill", "unblock", "merge", "start"} : Ask(verb)
    \/ \E order \in {WholeFleet("stop"), Ordered("respawn"), Ordered("attach")} : Begins(order)
    \/ Landed \/ ChildWorks \/ ChildEnds \/ Refresh
    \/ \E r \in 1 .. Rows : Elsewhere(r)

\* A frame is drawn, a wait has its deadline and a process ends; a person who is
\* attached need not ever detach
ControlsFair ==
    /\ WF_controlsVars(subject = "controls" /\ Landed /\ flight.verb # "attach"
                       /\ UNCHANGED <<subject, given>>)
    /\ WF_controlsVars(subject = "controls" /\ ChildEnds /\ UNCHANGED <<subject, given>>)
-----------------------------------------------------------------------------
(* Properties.                                                              *)

Screen == subject = "controls"

TheScreenActs == Screen /\ fleet' # fleet /\ outside' = outside

\* What is carried out is what the screen named when it was asked for, the same
\* session of the same task, however the table moved under the cursor and
\* whatever became of the row since; and a screen that only reads does nothing.
ActsOnWhatItNamed ==
    [][TheScreenActs => /\ given = "operator" /\ wanted # NoOne
                        /\ fleet' = Effect(wanted)
                        /\ (wanted.row # 0 /\ wanted.verb # "launch") =>
                               fleet[1][wanted.row].run = wanted.run]_controlsVars

\* An operator's yes reopens only a session that is blocked when it is given,
\* not one that went on to finish while the question stood (unblockSelected).
UnblocksOnlyTheBlocked ==
    [][(TheScreenActs /\ wanted.verb = "unblock") =>
          fleet[1][wanted.row].state = "blocked"]_controlsVars

\* One action owns the screen: while one is in flight no question is put, and
\* the one in flight is never replaced by another (useInput's guard).
OneActionAtATime ==
    /\ Screen => (busy => prompt = NoOne)
    /\ Screen => (mergeLog = "running" => flight.verb = "merge")
    /\ Screen => ((child = "up" /\ ~exited) => flight.verb = "merge" /\ mergeLog = "running")

\* A dashboard that is left leaves no merge running that holds the lock.
NoMergeOutlivesTheScreen == Screen => (exited => child # "up")

\* The keys come back after every action but an attach, which ends with its
\* person: also where the child dies or could not be spawned.
KeysComeBack ==
    (subject = "controls" /\ busy /\ flight.verb # "attach") ~> (~busy \/ exited)
=============================================================================
