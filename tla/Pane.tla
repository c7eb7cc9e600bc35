------------------------------- MODULE Pane -------------------------------
(***************************************************************************)
(* What types into a window: `pup steer`, `pup interrupt` and `pup          *)
(* conductor tell` (session-runtime.service.ts, conductor.service.ts), and  *)
(* the turn watchdog that resumes a session, or nudges the conductor, whose *)
(* turn died (turn-watchdog.service.ts). Nothing locks a pane: they share   *)
(* it with the person attached to it and with the interface, which reads    *)
(* what it was sent when it likes, a paste in pieces.                       *)
(*                                                                          *)
(* One pane, a session's or the conductor's. A step is one tmux call, one   *)
(* read of the store or one append to it. Of the times in the code, two are *)
(* kept as an order: a look after a settle sees every key the interface was *)
(* sent (Settled), and a wait for a paste may end before all of it shows.   *)
(* The ten minutes of a stall are two ages, fresh and old.                  *)
(***************************************************************************)
EXTENDS Integers, Sequences, FiniteSets

CONSTANTS
    Clients,     \* the processes that run steer, interrupt or tell
    Watcher,     \* the radar's process, which sweeps for dead turns
    Human,       \* who is attached to the window
    ClearLimit,  \* CLEAR_KEY_LIMIT, 64 in the code
    MaxSends,    \* bound: commands run
    MaxDeaths,   \* bound: turns that die
    MaxUpsets    \* bound: upsets of different kinds, any number of keys lost being one

\* SUBMIT_RETRY_LIMIT
RetryLimit == 2

Procs == Clients \cup {Watcher}

ASSUME ProcsAssumption == Watcher \notin Clients /\ Human \notin Procs
ASSUME LimitAssumption == ClearLimit \in Nat \ {0}
ASSUME BoundsAssumption == {MaxSends, MaxDeaths, MaxUpsets} \subseteq Nat

VARIABLES
    target,    \* whose pane it is
    row,       \* a session's state, as far as a steer asks: is it live
    window,    \* is the pane there
    screen,    \* does the input box show, or a dialog over it
    box,       \* the text in the input box
    pending,   \* text the interface was sent and has not shown
    keys,      \* keys it was sent and has not acted on
    turn,      \* the agent's turn
    stamp,     \* the age of the newest hook event, "none" before the first
    answer,    \* the age of the newest turn_died event for this stamp
    pc, cmd, tries, outcome,
    onRecord,  \* the steers on record since each process's command began
    listed,    \* the watcher's stall is still the newest one
    fate,      \* history: how each process's message was submitted
    alone,     \* history: nobody else used the pane during the command
    faced,     \* history: who has looked at the dialog that is open
    late,      \* history: has a draft shown since the process first looked
    typed,     \* history: the age of the watcher's last try at this stamp
    sends,     \* commands run so far
    deaths,    \* turns that died so far
    upset,     \* history: what has upset the pane so far
    eaten      \* history: the Enters of each process's command that were swallowed

pane == <<window, screen, box, pending, keys, turn>>
store == <<row, answer, onRecord>>
procs == <<pc, cmd, tries, outcome, listed>>
history == <<fate, alone, faced, late, typed>>
used == <<sends, deaths, upset, eaten>>
vars == <<target, store, pane, stamp, procs, history, used>>

Part == {"head", "tail", "draft"}
Chunk == [by : Procs \cup {Human}, part : Part]
Key == [by : Procs, key : {"Enter", "C-u", "Escape"}]
Age == {"none", "fresh", "old"}
Step == {"idle", "look", "clear", "clearing", "paste", "await", "drop", "dropping",
         "enter", "verify", "record", "listed", "read"}
Upset == {"draft", "dialog", "lost", "kill", "restart"}

PaneTyped ==
    /\ target \in {"session", "conductor"}
    /\ row \in {"running", "killed"}
    /\ window \in {"up", "gone"} /\ screen \in {"box", "dialog"}
    /\ box \in Seq(Chunk) /\ pending \in Seq(Chunk) /\ keys \in Seq(Key)
    /\ turn \in {"working", "idle", "dead"}
    /\ stamp \in Age /\ answer \in Age /\ typed \in Age
CmdsTyped ==
    /\ pc \in [Procs -> Step]
    /\ cmd \in [Procs -> {"none", "steer", "interrupt", "tell", "resume", "nudge"}]
    /\ tries \in [Procs -> 0 .. ClearLimit + RetryLimit]
    /\ outcome \in [Procs -> {"none", "delivered", "refused"}]
    /\ onRecord \in [Procs -> SUBSET {"steer", "interrupt", "turn_died"}]
    /\ fate \in [Procs -> SUBSET {"whole", "mixed"}]
FlagsTyped ==
    listed \in BOOLEAN /\ alone \in [Procs -> BOOLEAN] /\ late \in [Procs -> BOOLEAN]
UsedTyped ==
    /\ faced \in SUBSET Procs
    /\ sends \in 0 .. MaxSends /\ deaths \in 0 .. MaxDeaths
    /\ upset \in SUBSET Upset /\ eaten \in [Procs -> Nat]

TypeOK == PaneTyped /\ CmdsTyped /\ FlagsTyped /\ UsedTyped

Init ==
    /\ target \in {"session", "conductor"}
    /\ row = "running" /\ window = "up" /\ screen = "box"
    /\ box = <<>> /\ pending = <<>> /\ keys = <<>>
    /\ turn = "working" /\ stamp = "fresh" /\ answer = "none" /\ typed = "none"
    /\ pc = [p \in Procs |-> "idle"] /\ cmd = [p \in Procs |-> "none"]
    /\ tries = [p \in Procs |-> 0] /\ outcome = [p \in Procs |-> "none"]
    /\ onRecord = [p \in Procs |-> {}] /\ listed = FALSE
    /\ fate = [p \in Procs |-> {}] /\ alone = [p \in Procs |-> TRUE]
    /\ late = [p \in Procs |-> FALSE] /\ faced = {}
    /\ sends = 0 /\ deaths = 0 /\ upset = {} /\ eaten = [p \in Procs |-> 0]

Send == sends < MaxSends /\ sends' = sends + 1 /\ UNCHANGED <<deaths, upset>>
Spend(u) == /\ u \notin upset /\ Cardinality(upset) < MaxUpsets
            /\ upset' = upset \cup {u} /\ UNCHANGED <<sends, deaths, eaten>>
-----------------------------------------------------------------------------
(* The pane, as a capture shows it.                                         *)

Drafts(text) == \E i \in DOMAIN text : text[i].part = "draft"

\* inputBoxState: a box is read by its frame, which a dialog has not
inputBoxState == IF screen = "dialog" THEN "absent"
                 ELSE IF box = <<>> THEN "empty" ELSE "holds"

\* MUTANT: the first of the message in the box is taken for all of it
pasteLanded_Head(p) == screen = "box" /\ box # <<>> /\ box[1] = [by |-> p, part |-> "head"]

\* pasteLanded: the box starts with the message's first word and ends with its last
pasteLanded(p) == /\ screen = "box" /\ box # <<>>
                  /\ box[1] = [by |-> p, part |-> "head"]
                  /\ box[Len(box)] = [by |-> p, part |-> "tail"]

\* deadTurnError: the transcript ends in an API error, and nobody is typing
deadTurnError == window = "up" /\ inputBoxState = "empty" /\ turn = "dead"

\* Every key sent has been acted on by the time a settle ends.
Settled == pending = <<>> /\ keys = <<>>
-----------------------------------------------------------------------------
(* The processes.                                                           *)

\* A process is done with the pane when its command is over and its keys acted on.
AtPane(p) == pc[p] # "idle" \/ \E i \in DOMAIN keys : keys[i].by = p

\* A process acted on the pane: whoever else is in the middle of a command is
\* not alone with it.
Disturb(p) == alone' = [q \in Procs |-> alone[q] /\ (q = p \/ ~AtPane(q))]

\* A look shows the process the dialog that is open.
Seen(p) == faced' = (IF screen = "dialog" THEN faced \cup {p} ELSE faced)

Goto(p, step) == pc' = [pc EXCEPT ![p] = step] /\ UNCHANGED <<cmd, outcome, listed>>

\* The command ends, and what it will have recorded is the caller's next step.
Answer(p, what) ==
    /\ outcome' = [outcome EXCEPT ![p] = what]
    /\ pc' = [pc EXCEPT ![p] = "record"]
    /\ tries' = [tries EXCEPT ![p] = 0]
    /\ UNCHANGED <<cmd, listed>>

Press(p, key) == /\ keys' = Append(keys, [by |-> p, key |-> key])
                 /\ Disturb(p)
                 /\ UNCHANGED <<window, screen, box, pending, turn>>

\* tmuxAt: a call on a pane that is gone is a refusal (SessionPaneMissingError)
PaneMissing(p) ==
    /\ pc[p] \in Step \ {"idle", "listed", "read", "record"} /\ window = "gone"
    /\ Answer(p, "refused")
    /\ UNCHANGED <<target, store, pane, stamp, history, used>>

\* A command starts afresh; what it left of an earlier one may still be there.
Begin(p, c, step) ==
    /\ cmd' = [cmd EXCEPT ![p] = c]
    /\ pc' = [pc EXCEPT ![p] = step]
    /\ tries' = [tries EXCEPT ![p] = 0]
    /\ outcome' = [outcome EXCEPT ![p] = "none"]
    /\ onRecord' = [onRecord EXCEPT ![p] = {}]
    /\ fate' = [fate EXCEPT ![p] = {}]
    /\ late' = [late EXCEPT ![p] = FALSE]
    /\ eaten' = [eaten EXCEPT ![p] = 0]

\* Is there nothing on the pane that would mix with a command begun now?
Quiet(p) == /\ screen = "box" /\ pending = <<>> /\ keys = <<>>
            /\ \A i \in DOMAIN box : box[i].by # p
            /\ \A q \in Procs \ {p} : pc[q] \in {"idle", "listed", "read", "record"}

\* pup steer: steerSession, for a session that is live
SteerSession(p) ==
    /\ p \in Clients /\ pc[p] = "idle" /\ target = "session" /\ row = "running"
    /\ Send
    /\ Begin(p, "steer", "look")
    /\ alone' = [alone EXCEPT ![p] = Quiet(p)]
    /\ UNCHANGED <<target, row, answer, pane, stamp, listed, faced, typed>>

\* pup interrupt with a message: Escape first, unseen, then the steer
InterruptSession(p) ==
    /\ p \in Clients /\ pc[p] = "idle" /\ target = "session" /\ row = "running"
    /\ window = "up"
    /\ Send
    /\ Begin(p, "interrupt", "look")
    /\ keys' = Append(keys, [by |-> p, key |-> "Escape"])
    /\ alone' = [q \in Procs |-> IF q = p THEN Quiet(p) ELSE alone[q] /\ ~AtPane(q)]
    /\ UNCHANGED <<target, row, answer, window, screen, box, pending, turn, stamp, listed,
                   faced, typed>>

\* tellConductor: the message is for a conductor that has a window
TellConductor(p) ==
    /\ p \in Clients /\ pc[p] = "idle" /\ target = "conductor" /\ window = "up"
    /\ Send
    /\ Begin(p, "tell", "look")
    /\ alone' = [alone EXCEPT ![p] = Quiet(p)]
    /\ UNCHANGED <<target, row, answer, pane, stamp, listed, faced, typed>>
-----------------------------------------------------------------------------
(* steerPane and tellConductor.                                             *)

\* steerPane's first look: no box refuses, a full one is cleared. A tell takes
\* only an empty one.
Look(p) ==
    /\ pc[p] = "look" /\ window = "up" /\ (cmd[p] = "interrupt" => Settled)
    /\ CASE inputBoxState = "absent" -> Answer(p, "refused")
         [] inputBoxState = "empty" -> Goto(p, "paste") /\ UNCHANGED tries
         [] OTHER -> IF cmd[p] = "tell" THEN Answer(p, "refused")
                     ELSE Goto(p, "clear") /\ UNCHANGED tries
    /\ Seen(p)
    /\ late' = [late EXCEPT ![p] = @ /\ p = Watcher]
    /\ UNCHANGED <<target, store, pane, stamp, fate, alone, typed, used>>

\* clearInputBox: one Ctrl-U
Clear(p) ==
    /\ pc[p] \in {"clear", "drop"} /\ window = "up"
    /\ pc' = [pc EXCEPT ![p] = IF @ = "clear" THEN "clearing" ELSE "dropping"]
    /\ tries' = [tries EXCEPT ![p] = @ + 1]
    /\ Press(p, "C-u")
    /\ UNCHANGED <<target, store, stamp, cmd, outcome, listed, fate, faced, late, typed, used>>

\* MUTANT: a dialog that took the screen gets the next Ctrl-U
Cleared_Blind(p) ==
    /\ pc[p] \in {"clearing", "dropping"} /\ window = "up" /\ Settled
    /\ IF inputBoxState # "empty" /\ tries[p] < ClearLimit
       THEN Goto(p, IF pc[p] = "clearing" THEN "clear" ELSE "drop") /\ UNCHANGED tries
       ELSE IF inputBoxState = "empty" /\ pc[p] = "clearing"
            THEN Goto(p, "paste") /\ tries' = [tries EXCEPT ![p] = 0]
            ELSE Answer(p, "refused")
    /\ Seen(p)
    /\ UNCHANGED <<target, store, pane, stamp, fate, alone, late, typed, used>>

\* clearInputBox, after its settle: until the box holds nothing more, is off
\* the screen, or has had every press
Cleared(p) ==
    /\ pc[p] \in {"clearing", "dropping"} /\ window = "up" /\ Settled
    /\ IF inputBoxState = "holds" /\ tries[p] < ClearLimit
       THEN Goto(p, IF pc[p] = "clearing" THEN "clear" ELSE "drop") /\ UNCHANGED tries
       ELSE IF inputBoxState = "empty" /\ pc[p] = "clearing"
            THEN Goto(p, "paste") /\ tries' = [tries EXCEPT ![p] = 0]
            ELSE Answer(p, "refused")
    /\ Seen(p)
    /\ UNCHANGED <<target, store, pane, stamp, fate, alone, late, typed, used>>

\* pasteText: a buffer of its own, which the interface takes in pieces
PasteText(p) ==
    /\ pc[p] = "paste" /\ window = "up"
    /\ Goto(p, "await")
    /\ pending' = pending \o <<[by |-> p, part |-> "head"], [by |-> p, part |-> "tail"]>>
    /\ typed' = IF p = Watcher /\ listed THEN "fresh" ELSE typed
    /\ Disturb(p)
    /\ UNCHANGED <<target, store, window, screen, box, keys, turn, stamp, tries,
                   fate, faced, late, used>>

\* awaitPasteLanded: the box shows the message whole
PasteLanded(p) ==
    /\ pc[p] = "await" /\ window = "up" /\ pasteLanded(p)
    /\ Goto(p, "enter")
    /\ UNCHANGED <<target, store, pane, stamp, tries, history, used>>

\* It never did: what there is of it is cleared, unless a dialog has the screen
GiveUp(p) ==
    /\ pc[p] = "await" /\ window = "up" /\ ~pasteLanded(p)
    /\ IF inputBoxState = "absent" THEN Answer(p, "refused")
       ELSE Goto(p, "drop") /\ tries' = [tries EXCEPT ![p] = 0]
    /\ Seen(p)
    /\ UNCHANGED <<target, store, pane, stamp, fate, alone, late, typed, used>>

\* pressEnter; a steer's third is its last, and is not looked at again
PressEnter(p) ==
    /\ pc[p] = "enter" /\ window = "up"
    /\ IF cmd[p] # "tell" /\ tries[p] = RetryLimit
       THEN Answer(p, "delivered")
       ELSE Goto(p, "verify") /\ UNCHANGED tries
    /\ Press(p, "Enter")
    /\ UNCHANGED <<target, store, stamp, fate, faced, late, typed, used>>

\* The look after Enter. A steer whose box holds nothing, or is gone, went
\* through; a tell only when its box is empty, and it presses twice at most.
Verify(p) ==
    /\ pc[p] = "verify" /\ window = "up" /\ Settled
    /\ IF inputBoxState = "holds" /\ (cmd[p] = "tell" => tries[p] = 0)
       THEN Goto(p, "enter") /\ tries' = [tries EXCEPT ![p] = @ + 1]
       ELSE Answer(p, IF cmd[p] = "tell" /\ inputBoxState # "empty"
                      THEN "refused" ELSE "delivered")
    /\ Seen(p)
    /\ UNCHANGED <<target, store, pane, stamp, fate, alone, late, typed, used>>

\* MUTANT: a tell is on record as a steer to a session would be
Records_Tell(p) == IF outcome[p] = "delivered" THEN {cmd[p]} ELSE {}

\* What steerSession, interruptSession and the watchdog append. A tell is on no
\* record, and an interrupt is whatever became of the steer behind it.
Records(p) ==
    (IF outcome[p] = "delivered" /\ cmd[p] \in {"steer", "interrupt", "resume"}
     THEN {"steer"} ELSE {})
    \cup (IF cmd[p] = "interrupt" THEN {"interrupt"} ELSE {})
    \cup (IF cmd[p] \in {"resume", "nudge"} THEN {"turn_died"} ELSE {})

\* A process has nothing left to do, and what it saw is forgotten
Finish(p) == /\ pc' = [pc EXCEPT ![p] = "idle"]
             /\ late' = [late EXCEPT ![p] = FALSE]
             /\ faced' = faced \ {p}
             /\ listed' = (listed /\ p # Watcher)

\* The events of a command that ended. The turn_died event of a sweep names the
\* stall the sweep listed, whatever hook has fired since.
Record(p) ==
    /\ pc[p] = "record"
    /\ onRecord' = [onRecord EXCEPT ![p] = Records(p)]
    /\ answer' = IF "turn_died" \in Records(p) /\ listed
                 THEN "fresh" ELSE answer
    /\ Finish(p)
    /\ UNCHANGED <<target, row, pane, stamp, tries, cmd, outcome, fate, alone, typed, used>>
-----------------------------------------------------------------------------
(* The watchdog's sweep.                                                    *)

\* findStalledSessions: a running session whose last event is ten minutes old
Sweep ==
    /\ pc[Watcher] = "idle" /\ target = "session" /\ row = "running" /\ stamp = "old"
    /\ pc' = [pc EXCEPT ![Watcher] = "listed"]
    /\ cmd' = [cmd EXCEPT ![Watcher] = "resume"]
    /\ listed' = TRUE
    /\ UNCHANGED <<target, store, pane, stamp, tries, outcome, history, used>>

\* A turn_died event of this stall, or for the conductor any, that is younger
\* than the window (resumeSession, nudgedRecently)
Answered == answer = "fresh"

\* resumeSession: the events, then the pane. A stall that is over by now has no
\* event, and its pane shows whether the turn died
ReadDeadTurn ==
    /\ pc[Watcher] = "listed"
    /\ IF ~(Answered /\ listed) /\ deadTurnError
       THEN /\ pc' = [pc EXCEPT ![Watcher] = "read"]
            /\ late' = [late EXCEPT ![Watcher] = FALSE]
            /\ UNCHANGED <<listed, faced>>
       ELSE Finish(Watcher)
    /\ UNCHANGED <<target, store, pane, stamp, cmd, tries, outcome, fate, alone, typed, used>>

BeginResume ==
    /\ tries' = [tries EXCEPT ![Watcher] = 0]
    /\ onRecord' = [onRecord EXCEPT ![Watcher] = {}]
    /\ fate' = [fate EXCEPT ![Watcher] = {}]
    /\ alone' = [alone EXCEPT ![Watcher] = Quiet(Watcher)]
    /\ eaten' = [eaten EXCEPT ![Watcher] = 0]
    /\ UNCHANGED <<target, row, answer, pane, stamp, faced, typed, sends, deaths, upset>>

\* steerSession asks the row again, and a session that has stopped is a refusal
Resume ==
    /\ pc[Watcher] = "read"
    /\ pc' = [pc EXCEPT ![Watcher] = IF row = "running" THEN "look" ELSE "record"]
    /\ outcome' = [outcome EXCEPT ![Watcher] = IF row = "running" THEN "none" ELSE "refused"]
    /\ BeginResume
    /\ UNCHANGED <<cmd, listed, late>>

\* nudgeConductor: its window is looked at on every sweep
Nudge ==
    /\ pc[Watcher] = "idle" /\ target = "conductor"
    /\ ~Answered /\ deadTurnError
    /\ pc' = [pc EXCEPT ![Watcher] = "look"]
    /\ cmd' = [cmd EXCEPT ![Watcher] = "nudge"]
    /\ outcome' = [outcome EXCEPT ![Watcher] = "none"]
    /\ listed' = TRUE
    /\ late' = [late EXCEPT ![Watcher] = FALSE]
    /\ BeginResume

\* The radar is killed anywhere, and started again
Restart ==
    /\ pc[Watcher] # "idle" /\ Spend("restart")
    /\ Finish(Watcher)
    /\ outcome' = [outcome EXCEPT ![Watcher] = "none"]
    /\ tries' = [tries EXCEPT ![Watcher] = 0]
    /\ typed' = "none"
    /\ UNCHANGED <<target, store, pane, stamp, cmd, fate, alone>>
-----------------------------------------------------------------------------
(* The interface, the agent, the person attached and the time.              *)

\* How the text an Enter submits counts for each process whose words are in it
Submitted(p) == LET mine == {i \in DOMAIN box : box[i].by = p}
                IN IF mine = {} THEN {}
                   ELSE IF box = <<[by |-> p, part |-> "head"], [by |-> p, part |-> "tail"]>>
                        THEN {"whole"} ELSE {"mixed"}

\* Enter submits the box, or picks a dialog's option
Enter ==
    /\ screen' = "box" /\ faced' = {}
    /\ IF screen = "box" /\ box # <<>>
       THEN /\ box' = <<>> /\ turn' = "working"
            /\ fate' = [p \in Procs |-> fate[p] \cup Submitted(p)]
       ELSE UNCHANGED <<box, turn, fate>>

\* A piece of text shows in the box; a dialog takes none
Show ==
    /\ window = "up" /\ pending # <<>>
    /\ box' = IF screen = "box" THEN Append(box, Head(pending)) ELSE box
    /\ pending' = Tail(pending)
    /\ UNCHANGED <<target, store, window, screen, keys, turn, stamp, procs, history, used>>

\* A key is acted on: it may overtake text that is still being taken in
Act ==
    /\ window = "up" /\ keys # <<>>
    /\ keys' = Tail(keys)
    /\ CASE Head(keys).key = "Enter" -> Enter
         [] Head(keys).key = "C-u" ->
                /\ box' = IF screen = "box" /\ box # <<>>
                          THEN SubSeq(box, 1, Len(box) - 1) ELSE box
                /\ UNCHANGED <<screen, turn, fate, faced>>
         [] Head(keys).key = "Escape" ->
                /\ screen' = "box" /\ faced' = {}
                /\ turn' = IF screen = "box" /\ turn = "working" THEN "idle" ELSE turn
                /\ UNCHANGED <<box, fate>>
    /\ UNCHANGED <<target, store, window, pending, stamp, procs, alone, late, typed, used>>

\* The interface swallows a key while it redraws, and may swallow them all
Swallow ==
    /\ window = "up" /\ keys # <<>>
    /\ upset' = upset \cup {"lost"} /\ Cardinality(upset') <= MaxUpsets
    /\ keys' = Tail(keys)
    /\ eaten' = IF Head(keys).key = "Enter" THEN [eaten EXCEPT ![Head(keys).by] = @ + 1] ELSE eaten
    /\ UNCHANGED <<target, store, window, screen, box, pending, turn, stamp, procs, history,
                   sends, deaths>>

\* A question, a menu or a permission prompt takes the screen
OpenDialog ==
    /\ window = "up" /\ screen = "box" /\ Spend("dialog")
    /\ screen' = "dialog"
    /\ faced' = {}
    /\ alone' = [p \in Procs |-> alone[p] /\ ~AtPane(p)]
    /\ UNCHANGED <<target, store, window, box, pending, keys, turn, stamp, procs, fate,
                   late, typed>>

\* The person attached types a draft, submits what the box holds, or answers a
\* dialog: their keys are acted on at once
TypeDraft ==
    /\ window = "up" /\ screen = "box" /\ Spend("draft")
    /\ box' = Append(box, [by |-> Human, part |-> "draft"])
    /\ late' = [p \in Procs |-> pc[p] # "idle"]
    /\ Disturb(Human)
    /\ UNCHANGED <<target, store, window, screen, pending, keys, turn, stamp, procs, fate,
                   faced, typed>>

HumanEnter ==
    /\ window = "up" /\ (screen = "dialog" \/ Drafts(box))
    /\ Enter
    /\ Disturb(Human)
    /\ UNCHANGED <<target, store, window, pending, keys, stamp, procs, late, typed, used>>

\* The stamp is the newest hook's: a stall of before is over. The conductor has
\* no events file
Hook ==
    IF target = "session"
    THEN stamp' = "fresh" /\ typed' = "none" /\ answer' = "none" /\ listed' = FALSE
    ELSE UNCHANGED <<stamp, typed, answer, listed>>

\* A turn goes on or ends, with its hook; one that dies fires none
ToolCall ==
    /\ window = "up" /\ turn = "working" /\ Hook
    /\ UNCHANGED <<target, row, onRecord, pane, pc, cmd, tries, outcome, fate, alone, faced,
                   late, used>>

TurnEnds ==
    /\ window = "up" /\ turn = "working" /\ turn' = "idle" /\ Hook
    /\ UNCHANGED <<target, row, onRecord, window, screen, box, pending, keys, pc, cmd, tries,
                   outcome, fate, alone, faced, late, used>>

TurnDies ==
    /\ window = "up" /\ turn = "working" /\ deaths < MaxDeaths
    /\ turn' = "dead" /\ deaths' = deaths + 1
    /\ UNCHANGED <<target, store, window, screen, box, pending, keys, stamp, procs, history,
                   sends, upset, eaten>>

\* Ten minutes pass
StampAges ==
    /\ target = "session" /\ stamp = "fresh" /\ stamp' = "old"
    /\ UNCHANGED <<target, store, pane, procs, history, used>>

AnswerAges ==
    /\ answer = "fresh" /\ answer' = "old"
    /\ typed' = IF typed = "fresh" THEN "old" ELSE typed
    /\ UNCHANGED <<target, row, onRecord, pane, stamp, procs, fate, alone, faced, late, used>>

\* killSession: the window first, then the row
KillWindow ==
    /\ window = "up" /\ Spend("kill") /\ window' = "gone"
    /\ box' = <<>> /\ pending' = <<>> /\ keys' = <<>> /\ screen' = "box"
    /\ alone' = [p \in Procs |-> alone[p] /\ ~AtPane(p)]
    /\ faced' = {}
    /\ UNCHANGED <<target, store, turn, stamp, procs, fate, late, typed>>

KillRow ==
    /\ target = "session" /\ window = "gone" /\ row = "running"
    /\ row' = "killed"
    /\ UNCHANGED <<target, answer, onRecord, pane, stamp, procs, history, used>>
-----------------------------------------------------------------------------
Client(p) == \/ SteerSession(p) \/ InterruptSession(p) \/ TellConductor(p)

Types(p) == \/ PaneMissing(p) \/ Look(p) \/ Clear(p) \/ Cleared(p) \/ PasteText(p)
            \/ PasteLanded(p) \/ GiveUp(p) \/ PressEnter(p) \/ Verify(p) \/ Record(p)

Watch == Sweep \/ ReadDeadTurn \/ Resume \/ Nudge

Interface == Show \/ Act

Next ==
    \/ \E p \in Procs : Client(p) \/ Types(p)
    \/ Watch \/ Restart
    \/ Interface \/ Swallow \/ OpenDialog
    \/ TypeDraft \/ HumanEnter
    \/ ToolCall \/ TurnEnds \/ TurnDies
    \/ StampAges \/ AnswerAges
    \/ KillWindow \/ KillRow

Spec == Init /\ [][Next]_vars
-----------------------------------------------------------------------------
(* Properties.                                                              *)

\* A steer's last Enter is not looked at: where every one was swallowed, the steer
\* is on record with its message still in the box.
AllSwallowed(p) == cmd[p] # "tell" /\ eaten[p] > RetryLimit

\* A message that ended with nobody else at the pane is either submitted once,
\* whole, and its steer on record, or no word of it is ever submitted and no
\* steer is on record: what the report counts as a correction was one
\* (steerPane, steerSession), but where the interface swallowed every Enter. A
\* refusal may leave words behind where a Ctrl-U was swallowed.
OnRecordIffSubmitted ==
    \A p \in Procs :
        (pc[p] = "idle" /\ outcome[p] # "none" /\ alone[p] /\ Settled) =>
            IF outcome[p] = "delivered"
            THEN /\ fate[p] = {"whole"} \/ AllSwallowed(p)
                 /\ cmd[p] \in {"tell", "nudge"} \/ "steer" \in onRecord[p]
            ELSE /\ "steer" \notin onRecord[p]
                 /\ fate[p] = {} \/ "lost" \in upset

\* A refused message leaves none of itself in the box for a later Enter to
\* submit, unless a dialog, somebody else's keys or swallowed ones came between
\* (steerPane's give-up; decision 45).
RefusedLeavesNothing ==
    \A p \in Procs :
        (pc[p] = "idle" /\ outcome[p] = "refused" /\ alone[p] /\ Settled
         /\ "lost" \notin upset) =>
            \A i \in DOMAIN box : box[i].by # p

\* A dialog is never answered by a steer, a tell or a resume that has looked at
\* it: only a key that was on its way when it opened can reach it (decision 87).
\* Escape is the interrupt's, which looks at nothing.
SeenDialogsAreLeftAlone ==
    [][\A p \in faced :
           keys' = Append(keys, [by |-> p, key |-> "Enter"])
           \/ keys' = Append(keys, [by |-> p, key |-> "C-u"]) => screen = "box"]_vars

\* What watch types or a tell sends never takes a draft away, and never goes
\* onto one, but a draft typed after it looked (deadTurnError, tellConductor).
DraftsAreLeftAlone ==
    [][\A p \in Procs :
           (cmd[p] \in {"tell", "resume", "nudge"} /\ pc'[p] # pc[p]
            /\ pc'[p] \in {"clear", "paste"} /\ Drafts(box)) => late[p]]_vars

\* One stall is resumed once in ten minutes, whatever the resume met: a refusal
\* is an answer too. A watcher killed before it recorded is the exception, and
\* the code's own comment takes the second resume for a follow-up.
ResumesOncePerStall ==
    [][(pc[Watcher] = "paste" /\ pc'[Watcher] = "await" /\ listed) => typed # "fresh"]_vars

\* A message is whole or nothing: submitted and on record, or neither, and then
\* none of it is left for another's Enter (steerPane).
MessageIsWholeOrNothing == OnRecordIffSubmitted /\ RefusedLeavesNothing

\* Nothing types over what it has seen: a dialog, a person's draft, or a stall
\* that was answered (deadTurnError, tellConductor, resumeSession).
SeenIsLeftAlone == SeenDialogsAreLeftAlone /\ DraftsAreLeftAlone /\ ResumesOncePerStall
=============================================================================
