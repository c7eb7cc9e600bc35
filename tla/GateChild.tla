----------------------------- MODULE GateChild -----------------------------
(***************************************************************************)
(* A child the gate spawns (sandbox.utils.ts): it leads a process group of  *)
(* its own, out of reach of the terminal's signals, with a watcher in it    *)
(* that kills the group once pup's end of a pipe closes. pup forwards the   *)
(* signals it gets, stops a child that overruns its time or its output, and *)
(* settles a promise. One child is followed; of those that run beside it    *)
(* only whether there are any.                                              *)
(***************************************************************************)
EXTENDS Subject

VARIABLES
    place,      \* "new", "live" (its promise is pending) or what it settled as
    alive,      \* the members of its group that run
    holds,      \* the processes that hold its output pipes, in the group or not
    pipes,      \* pup's end of the output pipes is open
    lifeline,   \* pup's end of fd 3 is open
    deaf,       \* the members that ignore the stop signals
    status,     \* the leader's exit status, once it has exited
    overran,    \* failure: its time (ETIMEDOUT) or its output (ENOBUFS)
    by,         \* interruptedBy is set
    grace,      \* the SIGKILL timer is armed
    cut,        \* history: a holder of the pipes was killed
    pup,        \* "up", or "gone"
    beside,     \* liveChildren holds another
    listening,  \* pup's handlers of the stop signals are installed
    dirs,       \* the run's scratch and policy directories exist
    memo        \* sandboxMode's

groupVars == <<alive, holds, status, cut>>
hostVars == <<pup, beside, listening, dirs, memo>>
childVars == <<place, groupVars, pipes, lifeline, deaf, overran, by, grace, hostVars>>

\* The command pup spawned, a process it started in its group, the watcher;
\* and a process that left the group.
Member == {"leader", "helper", "watcher"}
Mode == {"applied", "inherited", "declared-vm"}

ChildTypeOK ==
    /\ place \in {"new", "live", "passed", "failed", "interrupted", "refused"}
    /\ alive \subseteq Member /\ deaf \subseteq Member
    /\ holds \subseteq {"leader", "helper", "daemon"}
    /\ {pipes, lifeline, overran, by, grace, cut, beside, listening, dirs} \subseteq BOOLEAN
    /\ status \in {"none", "zero", "other"}
    /\ pup \in {"up", "gone"}
    /\ memo \in Mode \cup {"unset"}

\* What the platform is, whether the operator declared a VM, whether
\* sandbox-exec is there, and what the probe of it says
Host ==
    [darwin : {TRUE}, vm : BOOLEAN, tool : {TRUE}, probe : {"ok", "nesting", "broken"}]
        \cup [darwin : BOOLEAN, vm : BOOLEAN, tool : {FALSE}, probe : {"broken"}]

ChildStart(is) ==
    /\ place = "new" /\ alive = {} /\ holds = {} /\ deaf = {} /\ status = "none"
    /\ pipes = FALSE /\ lifeline = FALSE /\ overran = FALSE /\ by = FALSE /\ grace = FALSE
    /\ cut = FALSE /\ pup = is /\ beside = FALSE /\ listening = FALSE /\ dirs = FALSE
    /\ memo = "unset"

ChildInit == given \in Host /\ ChildStart("up")
ChildRests == ChildStart("gone")
-----------------------------------------------------------------------------
(* The sandbox of a run.                                                    *)

\* The probe applies a profile; only a refusal to nest says pup is confined
Probed ==
    CASE given.probe = "ok" -> "applied"
      [] given.probe = "nesting" -> "inherited"
      [] OTHER -> "none"

\* sandboxMode: only a darwin probe is remembered
SandboxMode ==
    IF ~given.darwin THEN (IF given.vm THEN "declared-vm" ELSE "none")
    ELSE IF memo # "unset" THEN memo
    ELSE IF given.tool THEN Probed ELSE "none"

\* gateInvocation: the mode, the run's directories, the cache directory
Invoke ==
    /\ place = "new" /\ pup = "up" /\ dirs' = TRUE
    /\ memo' = IF given.darwin /\ SandboxMode # "none" THEN SandboxMode ELSE memo

\* LIFELINE_SCRIPT: the watcher ignores them; the command may, as it likes
Deaf == {d \in SUBSET Member : "watcher" \in d}

\* runGateChild: a group of a leader and its watcher
Spawn ==
    /\ Invoke /\ SandboxMode # "none"
    /\ place' = "live" /\ alive' = {"leader", "watcher"} /\ deaf' \in Deaf
    /\ holds' = {"leader"} /\ pipes' = TRUE /\ lifeline' = TRUE
    /\ listening' = TRUE
    /\ UNCHANGED <<status, overran, by, grace, cut, pup, beside>>

\* No sandbox, or a cache directory that is not private: nothing runs. Nor does
\* it when the spawn fails (ENOENT, EACCES), which settles with the error.
Refuse ==
    /\ Invoke /\ place' = IF SandboxMode = "none" THEN "refused" ELSE "failed"
    /\ UNCHANGED <<groupVars, pipes, lifeline, deaf, overran, by, grace, pup, beside, listening>>
-----------------------------------------------------------------------------
(* What the group does, and what a signal to it does.                       *)

Gone(dead) ==
    /\ alive' = alive \ dead
    /\ holds' = holds \ dead
    /\ status' = IF "leader" \in dead \cap alive THEN "other" ELSE status
    /\ cut' = (cut \/ dead \cap holds # {})

\* The members a stop signal ends
Stopped == alive \ deaf

\* A process starts another, in its group or in a session of its own, which may
\* share its output
Fork ==
    /\ "leader" \in alive
    /\ \/ /\ "helper" \notin alive /\ alive' = alive \cup {"helper"}
          /\ holds' \in {holds, holds \cup {"helper"}}
       \/ holds' = holds \cup {"daemon"} /\ UNCHANGED alive
    /\ UNCHANGED <<place, status, cut, pipes, lifeline, deaf, overran, by, grace, hostVars>>

\* A process ends by itself; one the command left behind may still write
ProcessEnds ==
    /\ \/ \E m \in alive \cap {"leader", "helper"} :
             /\ alive' = alive \ {m} /\ holds' = holds \ {m}
             /\ IF m = "leader" THEN status' \in {"zero", "other"} ELSE UNCHANGED status
       \/ "daemon" \in holds /\ holds' = holds \ {"daemon"} /\ UNCHANGED <<alive, status>>
    /\ UNCHANGED <<place, cut, pipes, lifeline, deaf, overran, by, grace, hostVars>>

\* The watcher reads the end of fd 3 and kills its group
WatcherKills ==
    /\ "watcher" \in alive /\ ~lifeline
    /\ Gone(alive)
    /\ UNCHANGED <<place, pipes, lifeline, deaf, overran, by, grace, hostVars>>
-----------------------------------------------------------------------------
(* pup's side of a child.                                                   *)

Pending == place = "live" /\ pup = "up"

\* A stream ends when nothing writes to it, or when pup destroys it
Drained == ~pipes \/ holds = {}

\* MUTANT: pup lets go of the lifeline once the command has exited
letGo_AtExit == status # "none"

\* letGo: the exit, and the close of both pipes
letGo == status # "none" /\ Drained

LetGo ==
    /\ Pending /\ lifeline /\ letGo
    /\ lifeline' = FALSE
    /\ UNCHANGED <<place, groupVars, pipes, deaf, overran, by, grace, hostVars>>

closePipes == FALSE

\* stop: the time is up, or the output floods the buffer. One timer per child.
Stop ==
    /\ Pending /\ ~overran
    /\ overran' = TRUE
    /\ Gone(Stopped)
    /\ pipes' = closePipes /\ grace' = (grace \/ ~by)
    /\ UNCHANGED <<place, lifeline, deaf, by, hostVars>>

\* The grace is over: what it armed kills the group, and closes the pipes
GraceEnds ==
    /\ Pending /\ grace
    /\ grace' = FALSE
    /\ Gone(alive)
    /\ pipes' = closePipes
    /\ UNCHANGED <<place, lifeline, deaf, overran, by, hostVars>>

outcome ==
    IF by THEN "interrupted" ELSE IF status = "zero" /\ ~overran THEN "passed" ELSE "failed"

\* settle: kills what is left of the group
Swept == alive

\* untrack: the last one does
listens(others) == others

\* 'close': the leader has exited, its pipes are drained and the lifeline is let go
Settle ==
    /\ Pending /\ status # "none" /\ Drained /\ ~lifeline
    /\ place' = outcome
    /\ Gone(Swept)
    /\ grace' = FALSE
    /\ listening' = listens(beside)
    /\ UNCHANGED <<pipes, lifeline, deaf, overran, by, pup, beside, dirs, memo>>
-----------------------------------------------------------------------------
(* pup itself.                                                              *)

\* Another stage's child is spawned, or the last of them settles
Beside ==
    /\ pup = "up" /\ SandboxMode # "none" /\ beside' = ~beside
    /\ dirs' = (dirs \/ ~beside)
    /\ listening' = IF beside THEN listens(place = "live") ELSE TRUE
    /\ UNCHANGED <<place, groupVars, pipes, lifeline, deaf, overran, by, grace, pup, memo>>

\* forwardInterrupt: each live child is marked, signalled and given its grace
InterruptPup ==
    /\ Pending /\ listening /\ ~by
    /\ by' = TRUE /\ grace' = (grace \/ ~overran)
    /\ Gone(Stopped)
    /\ UNCHANGED <<place, pipes, lifeline, deaf, overran, hostVars>>

\* pup's end of every pipe closes with it
PupGone ==
    /\ pup = "up" /\ pup' = "gone" /\ listening' = FALSE /\ beside' = FALSE
    /\ pipes' = FALSE /\ lifeline' = FALSE
    /\ UNCHANGED <<place, deaf, overran, by, grace, memo>>

\* endSandboxRun kills every live child before it removes the directories
Killed == IF place = "live" THEN alive ELSE {}

\* process.exit
Exit == PupGone /\ dirs' = FALSE /\ Gone(Killed)

\* SIGKILL, or a stop signal that no handler is installed for
Die == PupGone /\ UNCHANGED <<groupVars, dirs>>

\* The gate unwinds: every child has settled
EndSandboxRun ==
    /\ pup = "up" /\ place # "live" /\ ~beside /\ dirs /\ dirs' = FALSE
    /\ UNCHANGED <<place, groupVars, pipes, lifeline, deaf, overran, by, grace, pup, beside,
                   listening, memo>>

PupSteps == LetGo \/ GraceEnds \/ Settle

ChildNext ==
    \/ Spawn \/ Refuse \/ Fork \/ ProcessEnds \/ WatcherKills \/ Stop \/ PupSteps
    \/ Beside \/ InterruptPup \/ Exit \/ Die \/ EndSandboxRun

\* pup's loop and its timers run, and a watcher does; nothing a command does is fair
ChildFair ==
    /\ WF_childVars(subject = "gatechild" /\ PupSteps /\ UNCHANGED <<subject, given>>)
    /\ WF_childVars(subject = "gatechild" /\ WatcherKills /\ UNCHANGED <<subject, given>>)
-----------------------------------------------------------------------------
(* Properties.                                                              *)

Spawning == subject = "gatechild"

\* What an interrupt reached is no verdict, even when the command had already
\* passed as the signal came (runGateChild's close).
InterruptedIsNoVerdict == Spawning /\ by => place \in {"live", "interrupted"}

\* A child that passed wrote all it had to: neither the lifeline, the grace nor
\* the sweep ended a process that still wrote to its output (letGo, settle).
PassIsWhole == Spawning /\ place = "passed" => ~cut /\ holds = {}

\* Nothing of a group outlives the promise its caller waits on, nor writes in
\* directories that are gone (settle, endSandboxRun).
NothingOutlivesItsStage ==
    Spawning => (place # "live" => alive = {}) /\ (alive # {} => dirs)

\* Nothing of a group outlives pup, however it ends, and whatever ignores the
\* stop signals (LIFELINE_SCRIPT).
NothingOutlivesPup == (Spawning /\ pup = "gone") ~> (alive = {})

\* A child that was stopped settles, though a process that left its group still
\* holds its pipes (closePipes).
StoppedChildSettles ==
    (Spawning /\ place = "live" /\ (by \/ overran)) ~> (place # "live" \/ pup = "gone")

\* While a child runs, pup hears the signals it has to forward; and no handler
\* keeps pup from dying of one otherwise (track, untrack).
HearsWhileAChildRuns ==
    Spawning /\ pup = "up" => (listening <=> (place = "live" \/ beside))

\* A child runs only in a sandbox that was applied, that pup is itself inside
\* of, or in a VM the operator declared (sandboxMode).
NeverUnconfined ==
    Spawning /\ place \in {"live", "passed", "interrupted"} =>
        IF given.darwin THEN given.tool /\ given.probe \in {"ok", "nesting"} ELSE given.vm
=============================================================================
