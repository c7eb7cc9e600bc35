----------------------------- MODULE Conductor -----------------------------
(***************************************************************************)
(* pup conductor start and stop (conductor.service.ts): the profile and the *)
(* cap it names, the private checkout its graph is built over, the window   *)
(* and its opening context, and the radar brought up with it. A start is    *)
(* many system calls, none under a lock, and may be killed between any two. *)
(***************************************************************************)
EXTENDS Subject, Integers

CONSTANTS
    Starts,     \* bound: the starts are 1 .. Starts; each names its number as the cap
    MaxTips,    \* bound: commits of the merge target
    MaxKills,   \* bound: starts killed half way, and directories cleared
    StaleSweeps \* the intervals of a radar its beat is fresh for, 3 in the code

ASSUME ConductorAssumption ==
    {Starts, MaxTips, StaleSweeps} \subseteq Nat \ {0} /\ MaxKills \in Nat

VARIABLES
    targetTip,        \* the merge target's commit
    checkout,   \* the detached checkout: its directory and the commit it is at
    admin,      \* git's registration of it
    profile,    \* conductor/compiled: the cap its context names
    capFile,    \* conductor/max-sessions
    conductorWindow,     \* the conductor's window: who opened it, its graph, the caps it was told
    start,      \* each start's place, and the graph it has
    radarUp,    \* the radar's process runs, and its window with it
    radarBeat,  \* the intervals since the newest beat in the store, up to a stale one
    radarGone,  \* history: those since a radar ran, or since a scan without one
    kills,      \* bound: what MaxKills counts
    killed,     \* history: a start was killed
    beside      \* history: two starts ran at once

radarVars == <<radarUp, radarBeat, radarGone>>
conductorVars == <<targetTip, checkout, admin, profile, capFile, conductorWindow, start,
                   radarVars, kills, killed, beside>>

\* No beat is staler
Stale == StaleSweeps + 1

Closed == [by |-> 0, graph |-> 0, told |-> {}]
StartPlace == {"idle", "cap", "graph", "prune", "add", "cut", "index", "close", "open",
           "kickoff", "radar", "undo", "up", "refused", "dead"}

ConductorTypeOK ==
    /\ targetTip \in 1 .. MaxTips
    /\ checkout \in [dir : {"absent", "half", "cut"}, at : 0 .. MaxTips]
    /\ admin \in {"none", "kept", "locked"}
    /\ {profile, capFile} \subseteq 0 .. Starts
    /\ conductorWindow \in [by : 0 .. Starts, graph : 0 .. MaxTips, told : SUBSET (1 .. Starts)]
    /\ start \in [1 .. Starts -> [at : StartPlace, graph : 0 .. MaxTips, targetTip : 0 .. MaxTips]]
    /\ {radarUp, killed, beside} \subseteq BOOLEAN /\ kills \in 0 .. MaxKills
    /\ {radarBeat, radarGone} \subseteq 0 .. Stale

ConductorRests ==
    /\ targetTip = 1 /\ checkout = [dir |-> "absent", at |-> 0] /\ admin = "none"
    /\ profile = 0 /\ capFile = 0 /\ conductorWindow = Closed
    /\ start = [s \in 1 .. Starts |-> [at |-> "idle", graph |-> 0, targetTip |-> 0]]
    /\ radarUp = FALSE /\ radarBeat = Stale /\ radarGone = Stale
    /\ kills = 0 /\ killed = FALSE /\ beside = FALSE

ConductorInit == given = "conductor" /\ ConductorRests
-----------------------------------------------------------------------------
At(s, place) == start[s].at = place
StartGoes(s, place) == start' = [start EXCEPT ![s].at = place]
StartRuns(s) == start[s].at \notin {"idle", "up", "refused", "dead"}

\* compileConductorProfile, writeCompiledProfile
Compile(s) ==
    /\ At(s, "idle") /\ StartGoes(s, "cap") /\ profile' = s
    /\ beside' = (beside \/ \E other \in 1 .. Starts : StartRuns(other))
    /\ UNCHANGED <<targetTip, checkout, admin, capFile, conductorWindow, radarVars, kills, killed>>

CapWritten(s) == s

\* A binary outside the repository, or none: a start without it has no graph
codegraphBinary == {"graph", "close"}

WriteCap(s) ==
    /\ At(s, "cap") /\ capFile' = CapWritten(s)
    /\ \E place \in codegraphBinary : StartGoes(s, place)
    /\ UNCHANGED <<targetTip, checkout, admin, profile, conductorWindow, radarVars, kills, killed, beside>>

Detached == targetTip

\* refreshConductorCheckout: a checkout with an index moves to the tip
Refreshed(s) ==
    /\ At(s, "graph") /\ checkout.dir = "cut" /\ admin # "none"
    /\ checkout' = [dir |-> "cut", at |-> Detached]
    /\ start' = [start EXCEPT ![s] = [at |-> "index", graph |-> 0, targetTip |-> targetTip]]
    /\ UNCHANGED <<targetTip, admin, profile, capFile, conductorWindow, radarVars, kills, killed, beside>>

\* A half cut is removed, and cut again
Dropped == [checkout EXCEPT !.dir = "absent"]

Recut(s) ==
    /\ At(s, "graph") /\ checkout.dir # "cut"
    /\ checkout' = Dropped
    /\ start' = [start EXCEPT ![s] = [at |-> "prune", graph |-> 0, targetTip |-> targetTip]]
    /\ UNCHANGED <<targetTip, admin, profile, capFile, conductorWindow, radarVars, kills, killed, beside>>

\* git worktree prune: a registration whose directory is gone, but a locked one
Prune(s) ==
    /\ At(s, "prune") /\ StartGoes(s, "add")
    /\ admin' = IF admin = "kept" /\ checkout.dir = "absent" THEN "none" ELSE admin
    /\ UNCHANGED <<targetTip, checkout, profile, capFile, conductorWindow, radarVars, kills, killed, beside>>

\* Still registered: prepareGraph reports it, and the start has no graph
AddRefused(s) ==
    /\ At(s, "add") /\ (admin # "none" \/ checkout.dir # "absent")
    /\ StartGoes(s, "close")
    /\ UNCHANGED <<targetTip, checkout, admin, profile, capFile, conductorWindow, radarVars, kills, killed, beside>>

\* git worktree add --no-checkout, which locks its admin directory while it runs
Add(s) ==
    /\ At(s, "add") /\ admin = "none" /\ checkout.dir = "absent"
    /\ admin' = "locked" /\ checkout' = [dir |-> "half", at |-> start[s].targetTip]
    /\ StartGoes(s, "cut")
    /\ UNCHANGED <<targetTip, profile, capFile, conductorWindow, radarVars, kills, killed, beside>>

\* It unlocks; then checkoutPinned reads the tree in, index last
Cut(s) ==
    /\ At(s, "cut")
    /\ \/ /\ admin = "locked" /\ admin' = "kept" /\ UNCHANGED <<checkout, start>>
       \/ /\ admin = "kept" /\ checkout' = [checkout EXCEPT !.dir = "cut"]
          /\ StartGoes(s, "index") /\ UNCHANGED admin
    /\ UNCHANGED <<targetTip, profile, capFile, conductorWindow, radarVars, kills, killed, beside>>

\* indexDirectory: the graph is of what the checkout holds, or there is none
Index(s) ==
    /\ At(s, "index")
    /\ \E graph \in {0, checkout.at} :
          start' = [start EXCEPT ![s] = [at |-> "close", graph |-> graph, targetTip |-> @.targetTip]]
    /\ UNCHANGED <<targetTip, checkout, admin, profile, capFile, conductorWindow, radarVars, kills, killed, beside>>

\* launchConductor: the old server goes, then the new window opens
Close(s) ==
    /\ At(s, "close") /\ StartGoes(s, "open") /\ conductorWindow' = Closed
    /\ UNCHANGED <<targetTip, checkout, admin, profile, capFile, radarVars, kills, killed, beside>>

\* The graph is the window's from here on
Opened == [at |-> "kickoff", graph |-> 0, targetTip |-> 0]

OpenWindow(s) ==
    /\ At(s, "open") /\ start' = [start EXCEPT ![s] = Opened]
    /\ conductorWindow' = [by |-> s, graph |-> start[s].graph, told |-> {}]
    /\ UNCHANGED <<targetTip, checkout, admin, profile, capFile, radarVars, kills, killed, beside>>

\* kickoff: ready and the context lands whole, in whatever window wears the
\* name by now; or it is refused, or never ready
Kickoff(s) ==
    /\ At(s, "kickoff")
    /\ \/ /\ conductorWindow # Closed /\ StartGoes(s, "radar")
          /\ conductorWindow' = [conductorWindow EXCEPT !.told = @ \cup {s}]
       \/ StartGoes(s, "undo") /\ UNCHANGED conductorWindow
    /\ UNCHANGED <<targetTip, checkout, admin, profile, capFile, radarVars, kills, killed, beside>>

\* MUTANT: a window that never took its context is left to inspect
RolledBack_Left == conductorWindow

\* rollBackRefusedLaunch: stopConductor
RolledBack == Closed

Undo(s) ==
    /\ At(s, "undo") /\ StartGoes(s, "refused") /\ conductorWindow' = RolledBack
    /\ UNCHANGED <<targetTip, checkout, admin, profile, capFile, radarVars, kills, killed, beside>>

\* MUTANT: a radar that has ever swept is taken for one that sweeps
Sweeping_Ever == radarBeat <= StaleSweeps + 1

\* Whether a radar sweeps is the store's word, not its window's
Sweeping == radarBeat <= StaleSweeps

\* startRadarWith: launchWatcher replaces whatever wears the name; the radar it
\* starts beats once it has swept
Radar(s) ==
    /\ At(s, "radar") /\ StartGoes(s, "up")
    /\ radarUp' = (radarUp \/ ~Sweeping)
    /\ radarGone' = IF radarUp' THEN 0 ELSE radarGone
    /\ UNCHANGED <<radarBeat, targetTip, checkout, admin, profile, capFile, conductorWindow, kills, killed, beside>>

\* stopConductor; and Ctrl-C in the window
Stop ==
    /\ conductorWindow # Closed /\ conductorWindow' = Closed
    /\ UNCHANGED <<targetTip, checkout, admin, profile, capFile, start, radarVars, kills, killed, beside>>

StartDies(s) ==
    /\ kills < MaxKills /\ kills' = kills + 1
    /\ StartRuns(s) /\ StartGoes(s, "dead") /\ killed' = TRUE
    /\ UNCHANGED <<targetTip, checkout, admin, profile, capFile, conductorWindow, radarVars, beside>>

\* The operator clears ~/.pupitre, but for git's registration and what is in use
Clear ==
    /\ kills < MaxKills /\ kills' = kills + 1
    /\ \A s \in 1 .. Starts : ~StartRuns(s)
    /\ checkout' = [dir |-> "absent", at |-> 0]
    /\ UNCHANGED <<targetTip, admin, profile, capFile, conductorWindow, start, radarVars, killed, beside>>

\* A merge moves the target
MergeMovesTip ==
    /\ targetTip < MaxTips /\ targetTip' = targetTip + 1
    /\ UNCHANGED <<checkout, admin, profile, capFile, conductorWindow, start, radarVars, kills, killed, beside>>

\* scanOverlaps: a sweep of the radar, or `pup watch --once`, records its beat
ScanOverlaps ==
    /\ radarBeat' = 0 /\ radarGone' = 0 /\ UNCHANGED radarUp
    /\ UNCHANGED <<targetTip, checkout, admin, profile, capFile, conductorWindow, start, kills, killed, beside>>

\* pup watch, in a window of its own (--start) or the operator's
Watches ==
    /\ ~radarUp /\ radarUp' = TRUE /\ radarGone' = 0 /\ UNCHANGED radarBeat
    /\ UNCHANGED <<targetTip, checkout, admin, profile, capFile, conductorWindow, start, kills, killed, beside>>

\* pup watch --stop, or a radar that dies: the beat it left stands
RadarEnds ==
    /\ radarUp /\ radarUp' = FALSE /\ UNCHANGED <<radarBeat, radarGone>>
    /\ UNCHANGED <<targetTip, checkout, admin, profile, capFile, conductorWindow, start, kills, killed, beside>>

\* An interval passes. A radar over a detached main checkout withholds its beat
IntervalPasses ==
    LET Older(age) == IF age = Stale THEN Stale ELSE age + 1
    IN /\ radarBeat' = Older(radarBeat) /\ UNCHANGED radarUp
       /\ radarGone' = IF radarUp THEN 0 ELSE Older(radarGone)
       /\ UNCHANGED <<targetTip, checkout, admin, profile, capFile, conductorWindow, start, kills, killed, beside>>

RadarSteps == ScanOverlaps \/ Watches \/ RadarEnds \/ IntervalPasses

ConductorNext ==
    \/ \E s \in 1 .. Starts :
          \/ Compile(s) \/ WriteCap(s) \/ Refreshed(s) \/ Recut(s) \/ Prune(s)
          \/ AddRefused(s) \/ Add(s) \/ Cut(s) \/ Index(s) \/ Close(s) \/ OpenWindow(s)
          \/ Kickoff(s) \/ Undo(s) \/ Radar(s) \/ StartDies(s)
    \/ Stop \/ Clear \/ MergeMovesTip \/ RadarSteps
-----------------------------------------------------------------------------
(* Properties.                                                              *)

Conducts == subject = "conductor"
Quiescent == \A s \in 1 .. Starts : ~StartRuns(s)

\* No window stays open that has not been told its tier, whatever its kickoff
\* did: such a window is an agent that has read none of its context. A start
\* killed before its rollback leaves one, and two at once may.
NoUntoldConductor ==
    (Conducts /\ Quiescent /\ ~killed /\ ~beside /\ conductorWindow # Closed) => conductorWindow.told = {conductorWindow.by}

\* The cap a launch is held to is the one the running conductor was told, after
\* any starts, stops and rollbacks that came one at a time and ended: a start
\* that is refused takes the window it replaced with it.
CapIsAsTold ==
    (Conducts /\ Quiescent /\ ~killed /\ ~beside /\ conductorWindow # Closed) => capFile = conductorWindow.by

\* A graph is of a commit the target had as its start ran, never of an older
\* start's cut, however that one ended.
GraphIsOfTheTip ==
    [][(Conducts /\ ~beside) =>
          \A s \in 1 .. Starts : start'[s].graph # start[s].graph =>
              start'[s].graph \in {0, start[s].targetTip}]_conductorVars

\* The checkout heals: a start alone is refused a graph over the registration
\* only where it stands locked, not for a half cut, a killed one or a cleared
\* directory (refreshConductorCheckout).
OnlyALockIsFinal ==
    [][\A s \in 1 .. Starts :
          (Conducts /\ ~beside /\ start[s].at = "add" /\ start'[s].at = "close")
          => admin = "locked"]_conductorVars

\* A start that succeeds leaves a radar behind, but where one ran, or a scan was made
\* by hand, within the intervals its beat is taken at its word for (docs/02-cli.md
\* says "when none is running"): no window of a dead one is trusted, and no beat
\* longer than that.
StartedWithARadar ==
    [][\A s \in 1 .. Starts :
          (Conducts /\ start[s].at = "radar" /\ start'[s].at = "up") =>
              radarUp' \/ radarGone <= StaleSweeps]_conductorVars

\* However the starts, stops and rollbacks before it ended, a start leaves a
\* conductor that was told what it is held to, over a graph of the target, with a
\* radar beside it or one gone for less than its beat stands (startConductor).
StartIsWhole ==
    /\ [][NoUntoldConductor' /\ CapIsAsTold']_conductorVars
    /\ GraphIsOfTheTip /\ OnlyALockIsFinal /\ StartedWithARadar
=============================================================================
