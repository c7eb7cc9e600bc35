------------------------------ MODULE Handoff ------------------------------
(***************************************************************************)
(* pup respawn and pup kill --respawn (session-handoff.service.ts): a run    *)
(* asks the session for a handoff document, waits until the session signals *)
(* one, and relaunches its window with those bytes as the kickoff. Two runs *)
(* may be under way, the document is a file anyone on the machine may       *)
(* replace, and the session may end or start a fix round meanwhile.         *)
(***************************************************************************)
EXTENDS Subject, Integers, Sequences, FiniteSets

CONSTANTS
    Respawns,   \* the runs of the two commands
    MaxEvents,  \* bound: requests and signals on the session's log
    MaxDocs,    \* bound: the documents the session writes
    MaxWork     \* bound: the changes its windows make in the worktree

ASSUME HandoffAssumption == {MaxEvents, MaxDocs, MaxWork} \subseteq Nat /\ IsFiniteSet(Respawns)

Forged == 0             \* what somebody else puts in the file
Doc == Forged .. MaxDocs
NoDoc == -1
Asked == -2             \* on the log: the steer that asks; a document: its hash

VARIABLES
    row,        \* "running", "ended", or "round": running again, in a fix round
    rowPane,    \* tmux_target: a window's number
    window,     \* the session's tmux window, or 0
    opened,     \* the windows there have been
    told,       \* the documents written so far
    file,       \* the handoff file
    log,        \* the requests and the signals, oldest first
    tree,       \* the worktree, by its number of changes
    run,        \* each run: where it is, what it read, what it indexed
    waited      \* history: the runs that had only waited when the row left running

sessionVars == <<row, rowPane, window, opened, told>>
handoffVars == <<sessionVars, file, log, tree, run, waited>>

RunPlace == {"idle", "asks", "steers", "appends", "awaits", "relaunches", "kills", "verifies",
           "launches", "stores", "kicks", "done", "refused", "failed"}
Waiting == {"asks", "steers", "appends", "awaits", "relaunches"}
Ended == {"done", "refused", "failed"}
Relaunching == {"verifies", "launches", "stores", "kicks", "done"}

HandoffTypeOK ==
    /\ row \in {"running", "ended", "round"}
    /\ {rowPane, window} \subseteq 0 .. opened /\ opened \in 1 .. 1 + Cardinality(Respawns)
    /\ told \in 0 .. MaxDocs /\ file \in Doc \cup {NoDoc}
    /\ log \in Seq(Doc \cup {Asked}) /\ Len(log) <= MaxEvents
    /\ tree \in 0 .. MaxWork
    /\ run \in [Respawns -> [at : RunPlace, hard : BOOLEAN, doc : Doc \cup {NoDoc}, asked : 0 .. MaxEvents,
                             index : -1 .. MaxWork, pane : 0 .. opened, crossed : BOOLEAN]]
    /\ waited \subseteq Respawns

NewRun == [at |-> "idle", hard |-> FALSE, doc |-> NoDoc, asked |-> 0, index |-> -1, pane |-> 0,
           crossed |-> FALSE]

HandoffStart(state) ==
    /\ row = state /\ rowPane = 1 /\ window = 1 /\ opened = 1 /\ told = 0
    /\ file = NoDoc /\ log = <<>> /\ tree = 0
    /\ run = [r \in Respawns |-> NewRun] /\ waited = {}

HandoffInit == given = "handoff" /\ HandoffStart("running")
HandoffRests == HandoffStart("ended")
-----------------------------------------------------------------------------
RunGoes(r, place) == run' = [run EXCEPT ![r].at = place]

\* It is over, and what it held is of no account
Stops(r, place) == run' = [run EXCEPT ![r] = [NewRun EXCEPT !.at = place]]

requireRunning(r) == row = "running"

\* MUTANT: the newest signal counts, whatever it answers
signalledHash_Newest ==
    LET signals == {i \in DOMAIN log : log[i] # Asked}
    IN IF signals = {} THEN NoDoc ELSE log[CHOOSE i \in signals : \A j \in signals : j <= i]

\* The newest signal, when it comes after the newest request
signalledHash ==
    LET asks == {i \in DOMAIN log : log[i] = Asked}
        after == {i \in DOMAIN log : log[i] # Asked /\ \A j \in asks : j < i}
    IN IF asks = {} \/ after = {} THEN NoDoc
       ELSE log[CHOOSE i \in after : \A j \in after : j <= i]

isHandoffReady == file # NoDoc /\ signalledHash = file

\* The runs are numbered as they begin
Enters(r, hard, place) ==
    /\ run[r].at = "idle" /\ \A q \in Respawns : q < r => run[q].at # "idle"
    /\ run' = [run EXCEPT ![r].hard = hard, ![r].at = place]
    /\ UNCHANGED <<sessionVars, file, log, tree, waited>>

\* pup respawn asks, unless a handoff is ready
Begin(r) == Enters(r, FALSE, IF isHandoffReady THEN "relaunches" ELSE "asks")

\* pup kill --respawn
BeginHard(r) == Enters(r, TRUE, "relaunches")

\* requestHandoff: the old document goes first, then the steer, then the event
Ask(r) ==
    /\ run[r].at = "asks"
    /\ IF requireRunning(r) THEN file' = NoDoc /\ RunGoes(r, "steers")
       ELSE Stops(r, "refused") /\ UNCHANGED file
    /\ UNCHANGED <<sessionVars, log, tree, waited>>

\* Into the recorded pane; it may be gone, or hold a dialog
SteerRequest(r) ==
    /\ run[r].at = "steers"
    /\ \/ rowPane = window /\ window # 0 /\ RunGoes(r, "appends")
       \/ Stops(r, "refused")
    /\ UNCHANGED <<sessionVars, file, log, tree, waited>>

AppendAsk(r) ==
    /\ run[r].at = "appends" /\ Len(log) < MaxEvents
    /\ log' = Append(log, Asked)
    /\ run' = [run EXCEPT ![r].at = "awaits", ![r].asked = Len(log')]
    /\ UNCHANGED <<sessionVars, file, tree, waited>>

\* awaitHandoffReady: a poll finds it, or the last one does not
Await(r) ==
    /\ run[r].at = "awaits"
    /\ IF isHandoffReady THEN RunGoes(r, "relaunches") ELSE Stops(r, "refused")
    /\ UNCHANGED <<sessionVars, file, log, tree, waited>>

\* respawnSession reads the file once more, and hashes what it read
sameDocument(doc) == doc # NoDoc /\ doc = signalledHash

\* relaunchWindow's checks; the minted row, the compiled context and the route
\* (the top rung needs the operator's word) may refuse too
CheckRelaunch(r) ==
    /\ run[r].at = "relaunches"
    /\ \/ /\ requireRunning(r) /\ (run[r].hard \/ sameDocument(file))
          /\ run' = [run EXCEPT ![r].at = "kills", ![r].doc = IF run[r].hard THEN NoDoc ELSE file]
       \/ Stops(r, "refused")
    /\ UNCHANGED <<sessionVars, file, log, tree, waited>>

killTmux(w) == 0

KillOld(r) ==
    /\ run[r].at = "kills" /\ window' = killTmux(window)
    /\ RunGoes(r, "verifies")
    /\ UNCHANGED <<row, rowPane, opened, told, file, log, tree, waited>>

\* The git of the worktree is checked, and its graph built again: an index of
\* what the old window left, or none
graphForRespawn(r) ==
    /\ run[r].at = "verifies"
    /\ \/ \E index \in {-1, tree} :
             run' = [run EXCEPT ![r].at = "launches", ![r].index = index]
       \/ Stops(r, "failed")
    /\ UNCHANGED <<sessionVars, file, log, tree, waited>>

\* launchSession kills by name, then opens; the other run's relaunch is crossed
OpenSuccessor(r) ==
    /\ run[r].at = "launches"
    /\ \/ /\ opened' = opened + 1 /\ window' = opened'
          /\ run' = [q \in Respawns |->
                        IF q = r THEN [run[r] EXCEPT !.at = "stores", !.pane = opened', !.index = -1,
                                                     !.crossed = FALSE]
                        ELSE [run[q] EXCEPT !.crossed = @ \/ run[q].at \in {"verifies", "launches"}]]
       \/ Stops(r, "failed") /\ UNCHANGED <<window, opened>>
    /\ UNCHANGED <<row, rowPane, told, file, log, tree, waited>>

StorePaneOf(r) ==
    /\ run[r].at = "stores" /\ rowPane' = run[r].pane
    /\ RunGoes(r, "kicks")
    /\ UNCHANGED <<row, window, opened, told, file, log, tree, waited>>

handedOver(r) == run[r].doc

\* kickoff: typed in the pane it opened, or not delivered; the event says which
Kick(r) ==
    /\ run[r].at = "kicks"
    /\ \/ /\ window = run[r].pane
          /\ run' = [run EXCEPT ![r].at = "done", ![r].doc = handedOver(r), ![r].pane = 0]
       \/ Stops(r, "failed")
    /\ UNCHANGED <<sessionVars, file, log, tree, waited>>

RunStep(r) ==
    \/ Begin(r) \/ BeginHard(r) \/ Ask(r) \/ SteerRequest(r) \/ AppendAsk(r) \/ Await(r) \/ CheckRelaunch(r)
    \/ KillOld(r) \/ graphForRespawn(r) \/ OpenSuccessor(r) \/ StorePaneOf(r) \/ Kick(r)

\* A run is killed
RunDies(r) ==
    /\ run[r].at \notin Ended \cup {"idle"} /\ Stops(r, "failed")
    /\ UNCHANGED <<sessionVars, file, log, tree, waited>>
-----------------------------------------------------------------------------
(* The session, and the others.                                             *)

\* The agent writes a document, asked or not
WriteHandoff ==
    /\ window # 0 /\ told < MaxDocs
    /\ told' = told + 1 /\ file' = told'
    /\ UNCHANGED <<row, rowPane, window, opened, log, tree, run, waited>>

\* pup session handoff-done: the hash of what is there; nothing there is refused
markHandoffReady ==
    /\ window # 0 /\ file # NoDoc /\ Len(log) < MaxEvents
    /\ log' = Append(log, file)
    /\ UNCHANGED <<sessionVars, file, tree, run, waited>>

\* Somebody else's document, one of the session's own put back, or none
Replace ==
    /\ file' \in Forged .. told \cup {NoDoc} /\ file' # file
    /\ UNCHANGED <<sessionVars, log, tree, run, waited>>

\* An agent works in its window, whatever pup is doing
Work ==
    /\ window # 0 /\ tree < MaxWork /\ tree' = tree + 1
    /\ UNCHANGED <<sessionVars, file, log, run, waited>>

\* The gate lands the session or pup kill stops it, and its window goes; a
\* landed one comes back as a fix round, in a window of its own
Leave ==
    /\ \/ row \in {"running", "round"} /\ row' = "ended" /\ window' = 0 /\ UNCHANGED <<opened, rowPane>>
       \/ row = "ended" /\ row' = "round" /\ UNCHANGED <<opened, rowPane, window>>
    /\ waited' = (waited \cup {r \in Respawns : run[r].at \in Waiting})
                     \ {r \in Respawns : run[r].at \in Ended}
    /\ UNCHANGED <<told, file, log, tree, run>>

HandoffNext ==
    \/ \E r \in Respawns : RunStep(r) \/ RunDies(r)
    \/ WriteHandoff \/ markHandoffReady \/ Replace \/ Work \/ Leave
-----------------------------------------------------------------------------
(* Properties.                                                              *)

HandsOff == subject = "handoff"

Softly(r) == ~run[r].hard /\ run[r].at \in {"kills"} \cup Relaunching

\* A window is killed for, and its successor opened with, bytes the session
\* signalled after a request, and after this run's own when it made one: not a
\* document put in their place, nor an older one put back, whoever swaps the
\* file at whatever moment (isHandoffReady, respawnSession).
KickoffIsTheAnswer ==
    HandsOff => \A r \in Respawns : Softly(r) =>
        \E i, j \in DOMAIN log : /\ i < j /\ run[r].asked <= i
                                 /\ log[i] = Asked /\ log[j] = run[r].doc

\* The graph a window opens on is of the worktree as its agent finds it: the old
\* window was dead before the index was taken (relaunchWindow). A second
\* respawn whose window opened in between is excepted.
GraphIsOfWhatItFinds ==
    HandsOff => \A r \in Respawns :
        run[r].at = "launches" /\ ~run[r].crossed /\ run[r].index # -1 => run[r].index = tree

\* A session that landed, was killed or began a fix round while a run waited for
\* its handoff gets no window from that run (requireRunning, asked twice).
WaitingOpensNothing ==
    HandsOff => \A r \in waited : run[r].at \notin {"kills"} \cup Relaunching

\* A window that a respawn opens is the one the session's signal was for: those
\* words, that worktree, and a session still running (respawnSession).
WindowIsAsSignalled == KickoffIsTheAnswer /\ GraphIsOfWhatItFinds /\ WaitingOpensNothing
=============================================================================
