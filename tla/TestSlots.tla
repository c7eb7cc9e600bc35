----------------------------- MODULE TestSlots -----------------------------
(***************************************************************************)
(* The machine-wide test slots of test-slot.service.ts (decision 96): a few *)
(* lock files under ~/.pupitre/slots, each holding the pid and the token of *)
(* the run that linked it in. Merge gates and workers' `pup session test`   *)
(* each take one around their suite; a waiting gate leaves a wait file and  *)
(* goes before every worker; a slot whose holder died is reclaimed by       *)
(* whoever looks. Each process calls withTestSlot once. What it does        *)
(* between two file system calls is its own, so every call on a slot's path *)
(* is an action, and a process may be killed between any two.               *)
(***************************************************************************)
EXTENDS Naturals, FiniteSets

CONSTANTS
    Gates, Workers,  \* the processes, by kind; a process is its pid and token
    NSlots,          \* TEST_SLOTS
    Nobody,          \* no file
    Stale            \* a file no live process wrote: a dead pid, or junk

Procs == Gates \cup Workers
Slots == 1..NSlots
Files == Procs \cup {Nobody, Stale}

ASSUME NSlotsAssumption == NSlots \in Nat \ {0}
ASSUME ProcsAssumption ==
    Gates \cap Workers = {} /\ Nobody \notin Procs /\ Stale \notin Procs
    /\ Nobody # Stale
ASSUME FiniteAssumption == IsFiniteSet(Procs)

VARIABLES
    slot,     \* what is at each slot's path
    aside,    \* what a process moved aside to look at, Nobody when nothing
    waiting,  \* the gates whose wait file is on the disk
    late,     \* the gates that waited GATE_SLOT_WAIT_MS
    next,     \* the next call of each process
    index,    \* the slot it looks at, tries or holds
    read,     \* the record it last read from that slot
    free,     \* whether its look found a slot with no live holder
    ahead,    \* history: the gates that waited when its look began
    lost      \* history: the runs under way whose slot file was lost

slotVars == <<slot, aside, waiting, late, next, index, read, free, ahead, lost>>

Acquiring == {"enter", "look", "probe", "reclaim", "inspect", "choose", "take",
              "poll"}
Holding == {"unwait", "run", "release", "unlink"}
Dead == "gone"
Calls == Acquiring \cup Holding \cup {"unslotted", "over", Dead}

SlotsTypeOK ==
    /\ slot \in [Slots -> Files]
    /\ aside \in [Procs -> Files]
    /\ waiting \in SUBSET Gates
    /\ late \in SUBSET Gates
    /\ next \in [Procs -> Calls]
    /\ index \in [Procs -> Slots]
    /\ read \in [Procs -> Files]
    /\ free \in [Procs -> BOOLEAN]
    /\ ahead \in [Procs -> SUBSET Gates]
    /\ lost \in SUBSET Procs

isAlive(f) == f \in Procs /\ next[f] # Dead

SlotsInit ==
    /\ slot \in [Slots -> {Nobody, Stale}]
    /\ aside = [p \in Procs |-> Nobody]
    /\ waiting = {}
    /\ late = {}
    /\ next = [p \in Procs |-> "enter"]
    /\ index = [p \in Procs |-> 1]
    /\ read = [p \in Procs |-> Nobody]
    /\ free = [p \in Procs |-> FALSE]
    /\ ahead = [p \in Procs |-> {}]
    /\ lost = {}

AtCall(p, step) == next[p] = step
GoesTo(p, step) == next' = [next EXCEPT ![p] = step]

-----------------------------------------------------------------------------
(***************************************************************************)
(* acquire. A gate's wait file goes in before its first look. A process     *)
(* inside a run that holds a slot already, or that cannot write the slots,  *)
(* runs without one.                                                        *)
(***************************************************************************)
BeginLook(p) ==
    /\ GoesTo(p, "look")
    /\ index' = [index EXCEPT ![p] = 1]
    /\ free' = [free EXCEPT ![p] = FALSE]

Enter(p) ==
    /\ AtCall(p, "enter")
    /\ \/ /\ BeginLook(p)
          /\ waiting' = waiting \cup ({p} \cap Gates)
          /\ ahead' = [ahead EXCEPT ![p] = waiting]
       \/ /\ GoesTo(p, "unslotted")
          /\ UNCHANGED <<waiting, index, free, ahead>>
    /\ UNCHANGED <<slot, aside, late, read, lost>>

\* liveHolders goes through the slots in order, a read and a probe each.
Looked(p, empty) ==
    /\ free' = [free EXCEPT ![p] = @ \/ empty]
    /\ IF index[p] < NSlots
       THEN GoesTo(p, "look") /\ index' = [index EXCEPT ![p] = @ + 1]
       ELSE GoesTo(p, "choose") /\ UNCHANGED index

LookAt(p) ==
    /\ AtCall(p, "look")
    /\ \/ /\ slot[index[p]] = Nobody
          /\ Looked(p, TRUE)
          /\ UNCHANGED read
       \/ /\ slot[index[p]] # Nobody
          /\ read' = [read EXCEPT ![p] = slot[index[p]]]
          /\ GoesTo(p, "probe")
          /\ UNCHANGED <<index, free>>
    /\ UNCHANGED <<slot, aside, waiting, late, ahead, lost>>

\* The holder a process read may have left, and another taken the slot, since.
Probe_DeadStays(p) ==
    /\ AtCall(p, "probe")
    /\ Looked(p, FALSE)
    /\ read' = [read EXCEPT ![p] = Nobody]
    /\ UNCHANGED <<slot, aside, waiting, late, ahead, lost>>

Probe(p) ==
    /\ AtCall(p, "probe")
    /\ \/ isAlive(read[p]) /\ Looked(p, FALSE)
       \/ ~isAlive(read[p]) /\ GoesTo(p, "reclaim") /\ UNCHANGED <<index, free>>
    /\ read' = [read EXCEPT ![p] = Nobody]
    /\ UNCHANGED <<slot, aside, waiting, late, ahead, lost>>

-----------------------------------------------------------------------------
(***************************************************************************)
(* reclaim: whatever is at the path is renamed aside, looked at there, and  *)
(* linked back when its holder lives, unless the path was taken meanwhile.  *)
(***************************************************************************)
ReclaimSlot(p) ==
    /\ AtCall(p, "reclaim")
    /\ \/ /\ slot[index[p]] = Nobody
          /\ Looked(p, TRUE)
          /\ UNCHANGED <<slot, aside>>
       \/ /\ slot[index[p]] # Nobody
          /\ aside' = [aside EXCEPT ![p] = slot[index[p]]]
          /\ slot' = [slot EXCEPT ![index[p]] = Nobody]
          /\ GoesTo(p, "inspect")
          /\ UNCHANGED <<index, free>>
    /\ UNCHANGED <<waiting, late, read, ahead, lost>>

Using(p) == next[p] \in Holding

\* The runs without a file once f's is gone and p's own run is over.
Losers(f, p) == (lost \cup {q \in Procs : q = f /\ Using(q)}) \ {p}

Inspect(p) ==
    /\ AtCall(p, "inspect")
    /\ \/ /\ isAlive(aside[p]) /\ slot[index[p]] = Nobody
          /\ slot' = [slot EXCEPT ![index[p]] = aside[p]]
          /\ UNCHANGED lost
       \/ /\ isAlive(aside[p]) /\ slot[index[p]] # Nobody
          /\ lost' = Losers(aside[p], p)
          /\ UNCHANGED slot
       \/ /\ ~isAlive(aside[p])
          /\ UNCHANGED <<slot, lost>>
    /\ aside' = [aside EXCEPT ![p] = Nobody]
    /\ Looked(p, TRUE)
    /\ UNCHANGED <<waiting, late, read, ahead>>

-----------------------------------------------------------------------------
(***************************************************************************)
(* waitingGates, for a worker only, and the decision. A dead gate's wait    *)
(* file is removed; one that waited its longest holds nobody back.          *)
(***************************************************************************)
LiveGates == {g \in waiting : isAlive(g)}
GatesAhead(p) == IF p \in Gates THEN {} ELSE LiveGates \ late

Choose_AnyFree(p) ==
    /\ AtCall(p, "choose")
    /\ waiting' = IF p \in Gates THEN waiting ELSE LiveGates
    /\ IF free[p]
       THEN GoesTo(p, "take") /\ index' = [index EXCEPT ![p] = 1]
       ELSE GoesTo(p, "poll") /\ UNCHANGED index
    /\ UNCHANGED <<slot, aside, late, read, free, ahead, lost>>

Choose(p) ==
    /\ AtCall(p, "choose")
    /\ waiting' = IF p \in Gates THEN waiting ELSE LiveGates
    /\ IF GatesAhead(p) = {} /\ free[p]
       THEN GoesTo(p, "take") /\ index' = [index EXCEPT ![p] = 1]
       ELSE GoesTo(p, "poll") /\ UNCHANGED index
    /\ UNCHANGED <<slot, aside, late, read, free, ahead, lost>>

\* One exclusive link a slot; the first that is not there is taken.
TryTake_Renamed(p) ==
    /\ AtCall(p, "take")
    /\ slot' = [slot EXCEPT ![index[p]] = p]
    /\ GoesTo(p, "unwait")
    /\ UNCHANGED <<aside, waiting, late, index, read, free, ahead, lost>>

TryTake(p) ==
    /\ AtCall(p, "take")
    /\ \/ /\ slot[index[p]] = Nobody
          /\ slot' = [slot EXCEPT ![index[p]] = p]
          /\ GoesTo(p, "unwait")
          /\ UNCHANGED index
       \/ /\ slot[index[p]] # Nobody /\ index[p] < NSlots
          /\ index' = [index EXCEPT ![p] = @ + 1]
          /\ UNCHANGED <<slot, next>>
       \/ /\ slot[index[p]] # Nobody /\ index[p] = NSlots
          /\ GoesTo(p, "poll")
          /\ UNCHANGED <<slot, index>>
    /\ UNCHANGED <<aside, waiting, late, read, free, ahead, lost>>

Poll(p) ==
    /\ AtCall(p, "poll")
    /\ p \notin late
    /\ BeginLook(p)
    /\ ahead' = [ahead EXCEPT ![p] = waiting]
    /\ UNCHANGED <<slot, aside, waiting, late, read, lost>>

\* A gate's deadline: its suite runs without a slot. A worker has none.
Expire(p) ==
    /\ AtCall(p, "poll") /\ p \in late
    /\ GoesTo(p, "unslotted")
    /\ waiting' = waiting \ {p}
    /\ UNCHANGED <<slot, aside, late, index, read, free, ahead, lost>>

GateIsLate(g) ==
    /\ g \in waiting \ late
    /\ late' = late \cup {g}
    /\ UNCHANGED <<slot, aside, waiting, next, index, read, free, ahead, lost>>

\* A Ctrl-C ends the wait: nothing ran, and the finally removes the wait file.
Interrupt(p) ==
    /\ AtCall(p, "poll")
    /\ GoesTo(p, "over")
    /\ waiting' = waiting \ {p}
    /\ UNCHANGED <<slot, aside, late, index, read, free, ahead, lost>>

\* acquire's finally, once a slot is taken.
Unwait(p) ==
    /\ AtCall(p, "unwait")
    /\ GoesTo(p, "run")
    /\ free' = [free EXCEPT ![p] = FALSE]
    /\ ahead' = [ahead EXCEPT ![p] = {}]
    /\ waiting' = waiting \ {p}
    /\ UNCHANGED <<slot, aside, late, index, read, lost>>

-----------------------------------------------------------------------------
(***************************************************************************)
(* The suite ends; release reads the file and then unlinks it. The process  *)
(* goes on: a gate still has its merge to do before it exits.               *)
(***************************************************************************)
Settle(p) ==
    /\ \/ AtCall(p, "run") /\ GoesTo(p, "release")
       \/ AtCall(p, "unslotted") /\ GoesTo(p, "over")
    /\ UNCHANGED <<slot, aside, waiting, late, index, read, free, ahead, lost>>

ReleaseSlot(p) ==
    /\ AtCall(p, "release")
    /\ GoesTo(p, IF slot[index[p]] = p THEN "unlink" ELSE "over")
    /\ lost' = lost \ {p}
    /\ UNCHANGED <<slot, aside, waiting, late, index, read, free, ahead>>

Unlink(p) ==
    /\ AtCall(p, "unlink")
    /\ slot' = [slot EXCEPT ![index[p]] = Nobody]
    /\ lost' = Losers(slot[index[p]], p)
    /\ GoesTo(p, "over")
    /\ UNCHANGED <<aside, waiting, late, index, read, free, ahead>>

\* What a process that ends moved aside stays where no reader looks.
Leave(p) ==
    /\ GoesTo(p, Dead)
    /\ late' = late \ ({p} \ waiting)
    /\ lost' = Losers(aside[p], p)
    /\ aside' = [aside EXCEPT ![p] = Nobody]
    /\ read' = [read EXCEPT ![p] = Nobody]
    /\ free' = [free EXCEPT ![p] = FALSE]
    /\ index' = [index EXCEPT ![p] = 1]
    /\ ahead' = [ahead EXCEPT ![p] = {}]
    /\ UNCHANGED <<slot, waiting>>

Exit(p) == AtCall(p, "over") /\ Leave(p)
KillProc(p) == next[p] \notin {"over", Dead} /\ Leave(p)

ProcStep(p) ==
    \/ Enter(p) \/ LookAt(p) \/ Probe(p) \/ ReclaimSlot(p) \/ Inspect(p) \/ Choose(p)
    \/ TryTake(p) \/ Poll(p) \/ Expire(p) \/ Unwait(p)
    \/ Settle(p) \/ ReleaseSlot(p) \/ Unlink(p) \/ Exit(p)

SlotsNext ==
    \/ \E p \in Procs : ProcStep(p) \/ Interrupt(p) \/ KillProc(p)
    \/ \E g \in Gates : GateIsLate(g)

SlotsSpec == SlotsInit /\ [][SlotsNext]_slotVars

(***************************************************************************)
(* A process that nobody kills goes on: its calls return, its suite has a   *)
(* timeout, and it exits. No gate is owed its deadline.                     *)
(***************************************************************************)
FairSlotsSpec == SlotsSpec /\ \A p \in Procs : WF_slotVars(ProcStep(p))

-----------------------------------------------------------------------------
(***************************************************************************)
(* A run that took a slot has its own file there until it releases it, or   *)
(* one reclaimer that read an older holder has it aside and will link it    *)
(* back. It is lost in three ways only, each one run's over-subscription:   *)
(* the path is taken before the link back, the reclaimer dies, or a         *)
(* release unlinks what was put there after it read its own token.          *)
(***************************************************************************)
HasItsSlot ==
    \A p \in Procs \ lost :
        Using(p) => \/ slot[index[p]] = p
                    \/ \E q \in Procs : aside[q] = p /\ index[q] = index[p]

(***************************************************************************)
(* The slots bound the suites that run: no more than NSlots at once, plus   *)
(* one for each run whose file was lost or is aside.                        *)
(***************************************************************************)
Bounded ==
    Cardinality({p \in Procs : AtCall(p, "run")})
        <= NSlots + Cardinality(lost \cup {q \in Procs : \E p \in Procs : aside[p] = q})

(***************************************************************************)
(* A worker does not overtake: it takes no slot while a gate that was       *)
(* waiting when the worker's look began, and is alive, still waits within   *)
(* its time.                                                                *)
(***************************************************************************)
NoOvertaking ==
    [][\A w \in Workers :
         AtCall(w, "take") /\ next'[w] = "unwait" =>
             \A g \in ahead[w] : ~(g \in LiveGates \ late)]_slotVars

(***************************************************************************)
(* Only a live gate holds workers back for long: the wait file of a gate    *)
(* that is past its wait is gone, whatever way the wait ended, unless the   *)
(* gate was killed.                                                         *)
(***************************************************************************)
WaitFilesAreWaits ==
    \A g \in waiting : next[g] \in Acquiring \cup {"unwait", Dead}

(***************************************************************************)
(* Every process goes ahead: it runs its suite or is interrupted, and a     *)
(* gate does without its deadline. A dead holder's slot is reclaimed, and   *)
(* no slot stays taken by nobody.                                           *)
(***************************************************************************)
EveryRunGoesAhead == \A p \in Procs : <>(next[p] \in {"over", Dead})
=============================================================================
