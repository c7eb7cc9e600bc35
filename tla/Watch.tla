------------------------------- MODULE Watch -------------------------------
(***************************************************************************)
(* The radar's loop (pup watch; turn-watchdog.service.ts, overlap.service): *)
(* scan, sweep the stalled sessions one after another and then the          *)
(* conductor, report, sleep. What a sweep does to one pane, key by key, is  *)
(* another module's; here a resume is sent or refused, and the question is  *)
(* whether every dead turn gets one.                                        *)
(***************************************************************************)
EXTENDS Subject, Integers, FiniteSets

CONSTANTS
    Fleet,      \* bound: the sessions are 1 .. Fleet, swept in that order
    MaxFaults   \* bound: throws of tmux, git or the store, dialogs, and turns that die

ASSUME WatchAssumption == {Fleet, MaxFaults} \subseteq Nat

VARIABLES
    radar,      \* the loop's place, or "down"
    listed,     \* findStalledSessions: what this sweep has left to look at
    beat,       \* the beat of this project's radar is fresh
    branch,     \* the main checkout is on a branch
    dormant,    \* projects.dormant_at is set
    turn,       \* each session's turn, and the conductor's (0)
    aged,       \* nothing has fired a hook for the stall bar
    dialog,     \* the panes whose box is not on screen
    answered,   \* turn_died of this stall, younger than the stall bar
    faults      \* bound: what MaxFaults counts

watchVars == <<radar, listed, beat, branch, dormant, turn, aged, dialog, answered, faults>>

WatchTypeOK ==
    /\ radar \in {"scan", "sweep", "report", "sleep", "down"}
    /\ listed \subseteq 0 .. Fleet
    /\ {beat, branch, dormant} \subseteq BOOLEAN
    /\ turn \in [0 .. Fleet -> {"working", "died", "gone"}]
    /\ aged \subseteq 1 .. Fleet /\ {dialog, answered} \subseteq SUBSET (0 .. Fleet)
    /\ faults \in 0 .. MaxFaults

WatchStart(state) ==
    /\ radar = state /\ listed = {} /\ beat = FALSE
    /\ turn = [p \in 0 .. Fleet |-> "working"] /\ aged = {} /\ dialog = {} /\ answered = {}
    /\ faults = 0

WatchInit == given = "watch" /\ branch \in BOOLEAN /\ dormant \in BOOLEAN /\ WatchStart("scan")

WatchRests == branch = FALSE /\ dormant = FALSE /\ WatchStart("down")
-----------------------------------------------------------------------------
Fault == faults < MaxFaults /\ faults' = faults + 1

\* scanOverlaps: a detached main checkout pauses it, and leaves no beat
Scan ==
    /\ radar = "scan" /\ radar' = "sweep"
    /\ beat' = (beat \/ branch)
    /\ listed' = IF dormant THEN {} ELSE {s \in aged : turn[s] # "gone"} \cup {0}
    /\ UNCHANGED <<branch, dormant, turn, aged, dialog, answered, faults>>

Next_(p) == p \in listed /\ \A q \in listed \ {0} : p # 0 => p <= q
Turn(p) == radar = "sweep" /\ Next_(p) /\ (p = 0 => listed = {0})

\* MUTANT: one answer to a stall is an answer for good
ages_Never(p) == FALSE

\* An answer older than the stall bar no longer counts
ages(p) == p \in answered

\* A refused steer is recorded with what it ran into, and the sweep goes on
Passed(p) == listed \ {p}

\* resumeSession, nudgeConductor: a dead turn, with an empty box, that no event
\* answered lately; the conductor's is read whether or not it stalled
Answer(p) ==
    /\ Turn(p) /\ turn[p] = "died" /\ p \notin answered
    /\ answered' = answered \cup {p}
    /\ IF p \in dialog THEN UNCHANGED <<turn, aged>>
       ELSE turn' = [turn EXCEPT ![p] = "working"] /\ aged' = aged \ {p}
    /\ listed' = Passed(p)
    /\ UNCHANGED <<radar, beat, branch, dormant, dialog, faults>>

\* Nothing to resume, or answered already
PassOver(p) ==
    /\ Turn(p) /\ (turn[p] # "died" \/ p \in answered)
    /\ listed' = listed \ {p}
    /\ UNCHANGED <<radar, beat, branch, dormant, turn, aged, dialog, answered, faults>>

\* pup watch reports a sweep that throws, and goes on
Survives == "report"

SweepThrows ==
    /\ radar = "sweep" /\ listed # {} /\ Fault
    /\ listed' = {} /\ radar' = Survives
    /\ UNCHANGED <<beat, branch, dormant, turn, aged, dialog, answered>>

SweepEnds ==
    /\ radar = "sweep" /\ listed = {} /\ radar' = "report"
    /\ UNCHANGED <<listed, beat, branch, dormant, turn, aged, dialog, answered, faults>>

Report ==
    /\ radar = "report" /\ radar' = "sleep"
    /\ UNCHANGED <<listed, beat, branch, dormant, turn, aged, dialog, answered, faults>>

Wake ==
    /\ radar = "sleep" /\ radar' = "scan"
    /\ UNCHANGED <<listed, beat, branch, dormant, turn, aged, dialog, answered, faults>>

\* The scan and the report are outside the try: a throw there ends the process
LoopThrows ==
    /\ radar \in {"scan", "report"} /\ Fault /\ radar' = "down" /\ listed' = {}
    /\ UNCHANGED <<beat, branch, dormant, turn, aged, dialog, answered>>

\* startRadarWith, pup watch --start
StartRadar ==
    /\ radar = "down" /\ ~beat /\ radar' = "scan"
    /\ UNCHANGED <<listed, beat, branch, dormant, turn, aged, dialog, answered, faults>>
-----------------------------------------------------------------------------
(* The panes and the clock.                                                 *)

TurnDies(p) ==
    /\ turn[p] = "working" /\ Fault
    /\ turn' = [turn EXCEPT ![p] = "died"]
    /\ UNCHANGED <<radar, listed, beat, branch, dormant, aged, dialog, answered>>

\* A dialog comes up, a session is killed, the checkout moves, or the project
\* is put to sleep
Upset(p) ==
    /\ Fault
    /\ \/ dialog' = dialog \cup {p} /\ UNCHANGED <<turn, branch, dormant>>
       \/ p # 0 /\ turn' = [turn EXCEPT ![p] = "gone"] /\ UNCHANGED <<dialog, branch, dormant>>
       \/ branch' = ~branch /\ UNCHANGED <<dialog, turn, dormant>>
       \/ dormant' = ~dormant /\ UNCHANGED <<dialog, turn, branch>>
    /\ UNCHANGED <<radar, listed, beat, aged, answered>>

\* A person answers the dialog
DialogCloses(p) ==
    /\ p \in dialog /\ dialog' = dialog \ {p}
    /\ UNCHANGED <<radar, listed, beat, branch, dormant, turn, aged, answered, faults>>

\* The stall bar passes for a session whose hooks are silent
Ages(s) ==
    /\ turn[s] = "died" /\ s \notin aged /\ aged' = aged \cup {s}
    /\ UNCHANGED <<radar, listed, beat, branch, dormant, turn, dialog, answered, faults>>

\* The stall bar passes for an answer
AnswerAges(p) ==
    /\ ages(p) /\ answered' = answered \ {p}
    /\ UNCHANGED <<radar, listed, beat, branch, dormant, turn, aged, dialog, faults>>

\* No scan recorded one for a while: the loop is down or paused
BeatAges ==
    /\ beat /\ (radar = "down" \/ ~branch) /\ beat' = FALSE
    /\ UNCHANGED <<radar, listed, branch, dormant, turn, aged, dialog, answered, faults>>

Loop ==
    \/ Scan \/ SweepEnds \/ Report \/ Wake
    \/ \E p \in 0 .. Fleet : Answer(p) \/ PassOver(p)
Clock == (\E s \in 1 .. Fleet : Ages(s)) \/ \E p \in 0 .. Fleet : AnswerAges(p)

WatchNext ==
    \/ Loop \/ Clock \/ SweepThrows \/ LoopThrows \/ StartRadar \/ BeatAges
    \/ \E p \in 0 .. Fleet : TurnDies(p) \/ Upset(p) \/ DialogCloses(p)

\* A process that is up runs, and time passes; nobody need answer a dialog
WatchFair ==
    /\ WF_watchVars(subject = "watch" /\ Loop /\ UNCHANGED <<subject, given>>)
    /\ \A s \in 1 .. Fleet : WF_watchVars(subject = "watch" /\ Ages(s) /\ UNCHANGED <<subject, given>>)
    /\ \A p \in 0 .. Fleet :
          WF_watchVars(subject = "watch" /\ AnswerAges(p) /\ UNCHANGED <<subject, given>>)
-----------------------------------------------------------------------------
(* Properties.                                                              *)

Watches == subject = "watch"

\* Every dead turn, a session's or the conductor's, is resumed while a radar is
\* up and the project awake, whatever refused or threw on the way there: a
\* refusal of one pane or a sweep that threw does not cost another its resume,
\* and an answer that did not take is given again (sweepDeadTurns, pup watch).
EveryDeadTurnIsResumed ==
    \A p \in 0 .. Fleet :
        (Watches /\ turn[p] = "died") ~> (turn[p] # "died" \/ p \in dialog \/ radar = "down" \/ dormant)
=============================================================================
