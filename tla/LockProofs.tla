----------------------------- MODULE LockProofs ----------------------------
(***************************************************************************)
(* What holds of the two locks runs share through the file system, for any  *)
(* number of runs and wherever one is killed: the merge lock of a           *)
(* repository, and the test slots of the machine.                           *)
(***************************************************************************)
EXTENDS MergeLock, TestSlots, FiniteSetTheorems, TLAPS

-----------------------------------------------------------------------------
(***************************************************************************)
(* MergeLock. Who may touch the lock's path is settled by Inv below: it     *)
(* belongs to the live run that made the directory there, or, once that run *)
(* is dead, to the one run whose reclaim lock is on the disk.               *)
(***************************************************************************)

OneReclaimer == \A r \in Runs : InReclaim(r) => reclaiming = r

TakerOwns ==
    \A r \in Runs :
        /\ At(r, "identify") => lock = [maker |-> r, pid |-> NoRun]
        /\ At(r, "write") =>
              lock = [maker |-> r, pid |-> NoRun] /\ identity[r] = r
        /\ pc[r] \in Owning =>
              lock = [maker |-> r, pid |-> r] /\ identity[r] = r

PidIsMaker == lock.pid # NoRun => lock.pid = lock.maker

Pidless == Locked /\ lock.pid = NoRun => pc[lock.maker] \in Taking \cup {"killed"}

KnownDead == {"reclaim", "stat", "replace", "remake", "reread", "drop"}

HolderDead ==
    \A r \in Runs :
        /\ At(r, "live") => holder[r] \in Runs
        /\ pc[r] \in KnownDead => holder[r] \in Runs /\ pc[holder[r]] \in Ended
        /\ At(r, "drop") => lock.pid = holder[r]

Inv == OneReclaimer /\ TakerOwns /\ PidIsMaker /\ Pidless /\ HolderDead

IInv == TypeOK /\ (~intruded => Inv)

-----------------------------------------------------------------------------
(***************************************************************************)
(* Every variable keeps the values its declaration describes, whatever the  *)
(* interleaving of system calls and kills.                                  *)
(***************************************************************************)
LEMMA TypeStep == TypeOK /\ [Next]_vars => TypeOK'
<1> SUFFICES ASSUME TypeOK, [Next]_vars PROVE TypeOK'
  OBVIOUS
<1> USE DEF TypeOK, Lock, NoLock, Steps, Taking, Owning, Reclaim, Looking,
            Ended, At, Goto, Remember, End, Answered
<1>1. ASSUME NEW r \in Runs, Take(r) PROVE TypeOK'
  <2>1. CASE Mkdir(r) \/ WritePid(r)
    BY <2>1 DEF Mkdir, WritePid
  <2>2. CASE Identify(r)
    BY <2>2 DEF Identify, Locked
  <2>3. CASE WriteFails(r)
    BY <2>3 DEF WriteFails
  <2>4. CASE Recheck(r)
    BY <2>4 DEF Recheck
  <2> QED BY <1>1, <2>1, <2>2, <2>3, <2>4 DEF Take
<1>2. ASSUME NEW r \in Runs, Look(r) PROVE TypeOK'
  <2>1. CASE Wake(r) \/ ReadHolder(r)
    BY <2>1 DEF Wake, ReadHolder
  <2>2. CASE LookGone(r)
    BY <2>2 DEF LookGone
  <2>3. CASE ProbeHolder(r)
    BY <2>3 DEF ProbeHolder
  <2> QED BY <1>2, <2>1, <2>2, <2>3 DEF Look
<1>3. ASSUME NEW r \in Runs, Reclaiming(r) PROVE TypeOK'
  <2>1. CASE TakeReclaim(r)
    BY <2>1 DEF TakeReclaim, MakeReclaimLock
  <2>2. CASE StatReclaim(r)
    BY <2>2 DEF StatReclaim
  <2>3. CASE ReplaceReclaim(r)
    BY <2>3 DEF ReplaceReclaim, InReclaim
  <2>4. CASE RemakeReclaim(r)
    BY <2>4 DEF RemakeReclaim, MakeReclaimLock
  <2>5. CASE Reread(r) \/ DropReclaimed(r)
    BY <2>5 DEF Reread, DropReclaimed
  <2>6. CASE Unreclaim(r)
    <3>1. CASE At(r, "throw") /\ End(r, "failed")
      BY <2>6, <3>1 DEF Unreclaim
    <3>2. CASE Goto(r, "mkdir") /\ Remember(r, NoRun) /\ UNCHANGED <<identity, pidless>>
      BY <2>6, <3>2 DEF Unreclaim
    <3> QED BY <2>6, <3>1, <3>2 DEF Unreclaim
  <2> QED BY <1>3, <2>1, <2>2, <2>3, <2>4, <2>5, <2>6 DEF Reclaiming
<1>4. ASSUME NEW r \in Runs, Release(r) \/ Grace(r) \/ Kill(r) PROVE TypeOK'
  <2>1. CASE Release(r)
    BY <2>1 DEF Release
  <2>2. CASE Grace(r) \/ Kill(r)
    BY <2>2 DEF Grace, Kill
  <2> QED BY <1>4, <2>1, <2>2
<1>5. CASE Age
  BY <1>5 DEF Age
<1>6. CASE UNCHANGED vars
  BY <1>6 DEF vars
<1> QED BY <1>1, <1>2, <1>3, <1>4, <1>5, <1>6 DEF Next, Step

\* Nobody holds a lock at first.
LEMMA TypeInit == Init => TypeOK
<1> SUFFICES ASSUME Init PROVE TypeOK
  OBVIOUS
<1>1. pc \in [Runs -> Steps]
  BY DEF Init, Steps, Looking
<1> QED BY <1>1 DEF Init, TypeOK, Lock, NoLock

\* The lock, the reclaim lock and what each run has read keep their types
\* (withMergeLock and everything under it).
THEOREM TypeCorrect == Spec => []TypeOK
BY TypeInit, TypeStep, PTL DEF Spec

-----------------------------------------------------------------------------
(***************************************************************************)
(* The invariant. In each step only the run that moves, and the paths it    *)
(* writes, can disturb the five parts; `intruded` never falls, so they hold *)
(* of the state before any step that ends unintruded.                       *)
(***************************************************************************)
LEMMA InvStep == TypeOK /\ Inv /\ [Next]_vars /\ ~intruded /\ ~intruded' => Inv'
<1> SUFFICES ASSUME TypeOK, Inv, [Next]_vars, ~intruded, ~intruded' PROVE Inv'
  OBVIOUS
<1> USE RunsAssumption
        DEF TypeOK, Lock, NoLock, Locked, Inv, OneReclaimer, TakerOwns,
            PidIsMaker, Pidless, HolderDead, KnownDead, InReclaim, Taking,
            Owning, Reclaim, Ended, At, Goto, Remember
<1>1. ASSUME NEW r \in Runs, Mkdir(r) PROVE Inv'
  BY <1>1 DEF Mkdir
<1>2. ASSUME NEW r \in Runs, Identify(r) PROVE Inv'
  BY <1>2 DEF Identify
<1>3. ASSUME NEW r \in Runs, WritePid(r) PROVE Inv'
  BY <1>3 DEF WritePid
<1>4. ASSUME NEW r \in Runs, WriteFails(r) PROVE Inv'
  BY <1>4 DEF WriteFails, End
<1>5. ASSUME NEW r \in Runs, Recheck(r) PROVE Inv'
  BY <1>5 DEF Recheck
<1>6. ASSUME NEW r \in Runs, Wake(r) PROVE Inv'
  BY <1>6 DEF Wake
<1>7. ASSUME NEW r \in Runs, ReadHolder(r) PROVE Inv'
  BY <1>7 DEF ReadHolder
<1>8. ASSUME NEW r \in Runs, LookGone(r) PROVE Inv'
  BY <1>8 DEF LookGone, Answered, End
<1>9. ASSUME NEW r \in Runs, ProbeHolder(r) PROVE Inv'
  BY <1>9 DEF ProbeHolder, isLiveProcess, Answered, End
<1>10. ASSUME NEW r \in Runs, TakeReclaim(r) PROVE Inv'
  BY <1>10 DEF TakeReclaim, MakeReclaimLock
<1>11. ASSUME NEW r \in Runs, StatReclaim(r) PROVE Inv'
  BY <1>11 DEF StatReclaim, Answered, End
<1>12. ASSUME NEW r \in Runs, ReplaceReclaim(r) PROVE Inv'
  <2>1. CASE reclaiming # NoRun
    <3>1. \A q \in Runs : pc[q] \notin Reclaim
      BY <1>12, <2>1 DEF ReplaceReclaim
    <3>2. /\ UNCHANGED <<lock, identity, holder>>
          /\ Goto(r, "remake") /\ At(r, "replace")
      BY <1>12, <2>1 DEF ReplaceReclaim
    <3> QED BY <3>1, <3>2
  <2>2. CASE Answered(r, holder[r]) /\ UNCHANGED <<lock, reclaiming, aged>>
    <3>1. At(r, "replace")
      BY <1>12 DEF ReplaceReclaim
    <3> QED BY <2>2, <3>1 DEF Answered, End
  <2> QED BY <1>12, <2>1, <2>2 DEF ReplaceReclaim
<1>13. ASSUME NEW r \in Runs, RemakeReclaim(r) PROVE Inv'
  BY <1>13 DEF RemakeReclaim, MakeReclaimLock, Answered, End
<1>14. ASSUME NEW r \in Runs, Reread(r) PROVE Inv'
  BY <1>14 DEF Reread
<1>15. ASSUME NEW r \in Runs, DropReclaimed(r) PROVE Inv'
  BY <1>15 DEF DropReclaimed
<1>16. ASSUME NEW r \in Runs, Unreclaim(r) PROVE Inv'
  BY <1>16 DEF Unreclaim, End
<1>17. ASSUME NEW r \in Runs, Release(r) PROVE Inv'
  BY <1>17 DEF Release, End
<1>18. ASSUME NEW r \in Runs, Grace(r) PROVE Inv'
  BY <1>18 DEF Grace
<1>19. ASSUME NEW r \in Runs, Kill(r) PROVE Inv'
  BY <1>19 DEF Kill, End
<1>20. CASE Age
  BY <1>20 DEF Age
<1>21. CASE UNCHANGED vars
  BY <1>21 DEF vars
<1> QED
  BY <1>1, <1>2, <1>3, <1>4, <1>5, <1>6, <1>7, <1>8, <1>9, <1>10, <1>11,
     <1>12, <1>13, <1>14, <1>15, <1>16, <1>17, <1>18, <1>19, <1>20, <1>21
  DEF Next, Step, Take, Look, Reclaiming

\* An intrusion is never forgotten.
LEMMA Remains == TypeOK /\ [Next]_vars /\ intruded => intruded'
BY DEF TypeOK, Next, Step, Take, Look, Reclaiming, Mkdir, Identify, WritePid,
       WriteFails, Recheck, Wake, ReadHolder, LookGone, ProbeHolder,
       TakeReclaim, StatReclaim, ReplaceReclaim, RemakeReclaim, Reread,
       DropReclaimed, Unreclaim, Release, Grace, Kill, Age, vars

\* The invariant, in every state.
LEMMA InductiveInvariant == Spec => []IInv
<1>1. Init => IInv
  <2> SUFFICES ASSUME Init PROVE Inv
    BY TypeInit DEF IInv
  <2> QED
    BY RunsAssumption
    DEF Init, Inv, OneReclaimer, TakerOwns, PidIsMaker, Pidless, HolderDead,
        KnownDead, InReclaim, Reclaim, Owning, Locked, NoLock, At
<1>2. IInv /\ [Next]_vars => IInv'
  BY TypeStep, InvStep, Remains DEF IInv, TypeOK
<1> QED BY <1>1, <1>2, PTL DEF Spec

-----------------------------------------------------------------------------
(***************************************************************************)
(* At most one run is inside withMergeLock's section as long as no run      *)
(* removed the reclaim lock of a live one that was using it, whoever is     *)
(* killed and however many runs there are.                                  *)
(***************************************************************************)
THEOREM ExclusiveUntilIntruded == Spec => []ExclusiveUnlessIntruded
<1>1. IInv => ExclusiveUnlessIntruded
  BY DEF IInv, Inv, TakerOwns, Owning, ExclusiveUnlessIntruded, MutualExclusion
<1> QED BY <1>1, InductiveInvariant, PTL

(***************************************************************************)
(* A lock that names no pid belongs to a taker that has yet to write it, or *)
(* to one that was killed.                                                  *)
(***************************************************************************)
THEOREM PidlessIsUnwritten == Spec => []PidlessOnlyBeforeWrite
<1>1. IInv => PidlessOnlyBeforeWrite
  BY DEF IInv, Inv, Pidless, PidlessOnlyBeforeWrite
<1> QED BY <1>1, InductiveInvariant, PTL

(***************************************************************************)
(* No step of another run, a reclaim included, takes from the path a lock   *)
(* that names a live run.                                                   *)
(***************************************************************************)
THEOREM LiveLockIsKept == Spec => LiveLockStays
<1> DEFINE Stays ==
      \A r \in Runs :
        ~intruded /\ lock.pid = r /\ isLiveProcess(r) /\ lock' # lock =>
            pc[r] = "held" /\ pc'[r] = "done" /\ lock' = NoLock
<1>1. IInv /\ [Next]_vars => Stays
  <2> SUFFICES ASSUME IInv, [Next]_vars, ~intruded, lock' # lock,
                      NEW r \in Runs, lock.pid = r, isLiveProcess(r)
               PROVE  pc[r] = "held" /\ pc'[r] = "done" /\ lock' = NoLock
    OBVIOUS
  <2> USE RunsAssumption
          DEF IInv, Inv, TypeOK, Lock, TakerOwns, PidIsMaker, HolderDead,
              Owning, At, Goto, End, Locked
  <2>1. ASSUME NEW q \in Runs, Mkdir(q) \/ WritePid(q) \/ WriteFails(q)
        PROVE FALSE
    BY <2>1 DEF Mkdir, WritePid, WriteFails
  <2>2. ASSUME NEW q \in Runs, DropReclaimed(q) PROVE FALSE
    BY <2>2 DEF DropReclaimed, KnownDead, isLiveProcess
  <2>3. ASSUME NEW q \in Runs, Release(q)
        PROVE pc[r] = "held" /\ pc'[r] = "done" /\ lock' = NoLock
    BY <2>3 DEF Release
  <2>4. \E q \in Runs : \/ Mkdir(q) \/ WritePid(q) \/ WriteFails(q)
                        \/ DropReclaimed(q) \/ Release(q)
    BY DEF Next, Step, Take, Look, Reclaiming, Identify, Recheck, Wake,
           ReadHolder, LookGone, ProbeHolder, TakeReclaim, StatReclaim,
           ReplaceReclaim, RemakeReclaim, Reread, Unreclaim, Grace, Kill, Age,
           vars
  <2> QED BY <2>1, <2>2, <2>3, <2>4
<1>2. IInv /\ [Next]_vars => [Stays]_vars
  BY <1>1
<1> QED BY <1>2, InductiveInvariant, PTL DEF Spec, LiveLockStays
-----------------------------------------------------------------------------
(***************************************************************************)
(* TestSlots.                                                               *)
(***************************************************************************)

\* Only a process that inspects has something aside.
SetAside == \A q \in Procs : aside[q] # Nobody => next[q] = "inspect"

\* A wait file is of a gate that has entered and still waits, or was killed.
Waits == \A g \in waiting : next[g] \in (Acquiring \ {"enter"}) \cup {"unwait", Dead}

\* A gate that was waiting as a look began does not enter after it.
Entered == \A w \in Procs : \A g \in ahead[w] : next[g] # "enter"

\* A worker that chose to take found none of them waiting within its time.
Chosen ==
    \A w \in Workers : AtCall(w, "take") => \A g \in ahead[w] : g \notin LiveGates \ late

SlotsInv == SlotsTypeOK /\ SetAside /\ HasItsSlot /\ Waits /\ Entered /\ Chosen

\* At first there are no suites, and no file but those of dead holders.
LEMMA SlotsInvInit == SlotsInit => SlotsInv
BY NSlotsAssumption, ProcsAssumption
   DEF SlotsInit, SlotsInv, SlotsTypeOK, Files, Slots, Procs, Calls, Acquiring, Holding, Dead, SetAside,
       HasItsSlot, Using, Waits, Entered, Chosen, AtCall

\* A process that looks, or begins one, is on a slot there is.
LEMMA LookedStep ==
    ASSUME SlotsTypeOK, NEW p \in Procs, NEW empty \in BOOLEAN, Looked(p, empty)
    PROVE  /\ free' \in [Procs -> BOOLEAN] /\ index' \in [Procs -> Slots]
           /\ next' \in [Procs -> Calls]
           /\ next'[p] \in {"look", "choose"}
           /\ \A q \in Procs \ {p} : next'[q] = next[q] /\ index'[q] = index[q]
<1>1. free' = [free EXCEPT ![p] = free[p] \/ empty]
      BY DEF Looked
<1>2. (free[p] \/ empty) \in BOOLEAN
      OBVIOUS
<1>3. free' \in [Procs -> BOOLEAN]
      BY <1>1, <1>2 DEF SlotsTypeOK
<1>4. index[p] \in Slots /\ (index[p] < NSlots => index[p] + 1 \in Slots)
      BY NSlotsAssumption DEF SlotsTypeOK, Slots
<1>5. CASE index[p] < NSlots
      BY <1>3, <1>4, <1>5 DEF Looked, GoesTo, SlotsTypeOK, Calls, Acquiring
<1>6. CASE ~(index[p] < NSlots)
      BY <1>3, <1>6 DEF Looked, GoesTo, SlotsTypeOK, Calls, Acquiring
<1>7. QED BY <1>5, <1>6

\* A step that touches no file, and moves one process between steps before its
\* slot, keeps everything but what it says of that process.
LEMMA SearchKeeps ==
    ASSUME SlotsInv, NEW p \in Procs, ~Using(p), next[p] # "inspect", next[p] # Dead,
           next' \in [Procs -> Calls], index' \in [Procs -> Slots],
           next'[p] \in Acquiring \ {"enter", "inspect", "take"},
           \A q \in Procs \ {p} : next'[q] = next[q] /\ index'[q] = index[q],
           UNCHANGED <<slot, aside, late, lost>>
    PROVE  /\ SetAside' /\ HasItsSlot'
           /\ waiting' = waiting /\ ahead' = ahead => Waits' /\ Entered' /\ Chosen'
<1> USE DEF SlotsInv, SlotsTypeOK
<1>1. \A q \in Procs : next'[q] = Dead <=> next[q] = Dead
      BY DEF Acquiring, Dead
<1>2. SetAside'
      BY DEF SetAside
<1>3. HasItsSlot'
      BY DEF HasItsSlot, SetAside, Using, Holding, Acquiring
<1>4. ASSUME waiting' = waiting, ahead' = ahead PROVE Waits' /\ Entered' /\ Chosen'
  <2>1. Waits'
        BY <1>4, ProcsAssumption DEF Waits, Procs
  <2>2. Entered'
        BY <1>4 DEF Entered, Procs
  <2>3. Chosen'
        BY <1>4, <1>1 DEF Chosen, AtCall, LiveGates, isAlive, Procs
  <2>4. QED BY <2>1, <2>2, <2>3
<1>5. QED BY <1>2, <1>3, <1>4

\* A process enters, or looks again after a wait.
LEMMA LookBegins ==
    ASSUME SlotsInv, NEW p \in Procs, Enter(p) \/ Poll(p)
    PROVE  SlotsInv'
<1> USE DEF SlotsInv, SlotsTypeOK
<1>1. CASE AtCall(p, "enter") /\ GoesTo(p, "unslotted")
  <2>1. UNCHANGED <<slot, aside, late, read, lost, waiting, index, free, ahead>>
        BY <1>1 DEF Enter, Poll, BeginLook, GoesTo, AtCall
  <2>2. QED BY <1>1, <2>1, ProcsAssumption DEF AtCall, GoesTo, SetAside, HasItsSlot, Using, Holding, Waits, Entered,
               Chosen, LiveGates, isAlive, Calls, Acquiring, Dead, Procs
<1>2. CASE BeginLook(p)
  <2>1. /\ next[p] \in {"enter", "poll"} /\ UNCHANGED <<slot, aside, late, read, lost>>
        /\ next' = [next EXCEPT ![p] = "look"] /\ index' = [index EXCEPT ![p] = 1]
        /\ free' = [free EXCEPT ![p] = FALSE] /\ ahead' = [ahead EXCEPT ![p] = waiting]
        /\ waiting' \in {waiting, waiting \cup ({p} \cap Gates)}
        BY <1>2 DEF Enter, Poll, BeginLook, GoesTo, AtCall
  <2>2. next' \in [Procs -> Calls] /\ index' \in [Procs -> Slots]
        BY <2>1, NSlotsAssumption DEF Calls, Acquiring, Slots
  <2>3. SetAside' /\ HasItsSlot'
        BY <2>1, <2>2, SearchKeeps DEF Using, Holding, Acquiring, Dead
  <2>4. Waits'
        BY <2>1 DEF Waits, Acquiring, Procs
  <2>5. Entered'
        BY <2>1 DEF Entered, Waits, Procs, Acquiring, Dead
  <2>6. \A w \in Workers : w # p => ahead'[w] = ahead[w] /\ next'[w] = next[w]
        BY <2>1 DEF Procs
  <2>7. \A g \in Gates : (isAlive(g))' <=> isAlive(g)
        BY <2>1 DEF isAlive, Dead, Procs
  <2>8. next[p] = "poll" => waiting' \ {p} = waiting \ {p}
        BY <2>1
  <2>9. ASSUME NEW w \in Workers, (AtCall(w, "take"))', NEW g \in ahead'[w]
        PROVE  g \notin (LiveGates \ late)'
    <3>1. w # p /\ AtCall(w, "take") /\ g \in ahead[w] /\ g \in Gates
          BY <2>1, <2>6, <2>9 DEF AtCall, Procs
    <3>2. g \notin LiveGates \ late /\ next[g] # "enter"
          BY <3>1 DEF Chosen, Entered, Procs
    <3>3. g \in waiting' => g \in waiting
          BY <2>1, <3>2, <1>2 DEF Enter, Poll, AtCall, GoesTo, BeginLook
    <3>4. QED BY <2>1, <2>7, <3>1, <3>2, <3>3 DEF LiveGates
  <2>10. QED BY <2>1, <2>2, <2>3, <2>4, <2>5, <2>9 DEF Chosen, Procs
<1>3. QED BY <1>1, <1>2 DEF Enter, Poll

\* A look at a slot, and the probe of its holder.
LEMMA LookStep ==
    ASSUME SlotsInv, NEW p \in Procs, LookAt(p) \/ Probe(p)
    PROVE  SlotsInv'
<1> USE DEF SlotsInv, SlotsTypeOK
<1>1. /\ next[p] \in {"look", "probe"} /\ UNCHANGED <<slot, aside, waiting, late, ahead, lost>>
      BY DEF LookAt, Probe, AtCall
<1>2. \/ \E empty \in BOOLEAN : Looked(p, empty)
      \/ GoesTo(p, "probe") /\ UNCHANGED <<index, free>>
      \/ GoesTo(p, "reclaim") /\ UNCHANGED <<index, free>>
      BY DEF LookAt, Probe
<1>3. read' \in [Procs -> Files]
      BY DEF LookAt, Probe, Files
<1>4. /\ free' \in [Procs -> BOOLEAN] /\ index' \in [Procs -> Slots]
      /\ next' \in [Procs -> Calls] /\ next'[p] \in {"look", "choose", "probe", "reclaim"}
      /\ \A q \in Procs \ {p} : next'[q] = next[q] /\ index'[q] = index[q]
      BY <1>2, LookedStep DEF GoesTo, Calls, Acquiring
<1>5. QED BY <1>1, <1>3, <1>4, SearchKeeps DEF Using, Holding, Acquiring, Dead

\* The gates' queue: a step that adds no wait file and takes no gate's time back
\* keeps what is known of it, if a worker that begins to take has looked at it.
LEMMA QueueKeeps ==
    ASSUME SlotsInv, NEW p \in Procs, next[p] # Dead,
           \A q \in Procs \ {p} : next'[q] = next[q],
           next'[p] # "enter", waiting' \subseteq waiting,
           p \in waiting' => next'[p] \in (Acquiring \ {"enter"}) \cup {"unwait", Dead},
           \A g \in late : g \in late' \/ g \notin waiting,
           \A w \in Procs : ahead'[w] \in {ahead[w], {}},
           next'[p] = "take" => next[p] = "take" \/ (p \in Workers => LiveGates \ late = {})
    PROVE  Waits' /\ Entered' /\ Chosen'
<1> USE DEF SlotsInv, SlotsTypeOK
<1>1. Waits'
      BY DEF Waits, Procs
<1>2. Entered'
      BY DEF Entered, Procs
<1>3. \A g \in Gates : g \in (LiveGates \ late)' => g \in LiveGates \ late
      BY DEF LiveGates, isAlive, Procs
<1>4. \A w \in Workers : AtCall(w, "take")' => AtCall(w, "take") \/ LiveGates \ late = {}
      BY DEF AtCall, Procs
<1>5. \A w \in Workers : \A g \in ahead'[w] : g \in ahead[w] /\ g \in Gates
      BY DEF Procs
<1>6. Chosen'
      BY <1>3, <1>4, <1>5 DEF Chosen
<1>7. QED BY <1>1, <1>2, <1>6

\* What is at the path is moved aside, and its holder finds it there.
LEMMA ReclaimStep ==
    ASSUME SlotsInv, NEW p \in Procs, ReclaimSlot(p)
    PROVE  SlotsInv'
<1> USE DEF SlotsInv, SlotsTypeOK
<1>1. next[p] = "reclaim" /\ UNCHANGED <<waiting, late, read, ahead, lost>> /\ aside[p] = Nobody
      BY DEF ReclaimSlot, AtCall, SetAside
<1>2. CASE Looked(p, TRUE) /\ UNCHANGED <<slot, aside>>
  <2>1. /\ free' \in [Procs -> BOOLEAN] /\ index' \in [Procs -> Slots]
        /\ next' \in [Procs -> Calls] /\ next'[p] \in {"look", "choose"}
        /\ \A q \in Procs \ {p} : next'[q] = next[q] /\ index'[q] = index[q]
        BY <1>2, LookedStep
  <2>2. QED BY <1>1, <1>2, <2>1, SearchKeeps DEF Using, Holding, Acquiring, Dead
<1>3. CASE /\ slot[index[p]] # Nobody /\ UNCHANGED <<index, free>>
           /\ aside' = [aside EXCEPT ![p] = slot[index[p]]]
           /\ slot' = [slot EXCEPT ![index[p]] = Nobody] /\ GoesTo(p, "inspect")
  <2>1. /\ next' = [next EXCEPT ![p] = "inspect"] /\ next' \in [Procs -> Calls]
        /\ slot' \in [Slots -> Files] /\ aside' \in [Procs -> Files]
        BY <1>3 DEF GoesTo, Calls, Acquiring, Files
  <2>2. SetAside'
        BY <1>3, <2>1 DEF SetAside
  <2>3. HasItsSlot'
    <3>1. SUFFICES ASSUME NEW q \in Procs \ lost, next'[q] \in Holding
                   PROVE  \/ slot'[index[q]] = q
                          \/ \E r \in Procs : aside'[r] = q /\ index[r] = index[q]
          BY <1>1, <1>3 DEF HasItsSlot, Using
    <3>2. q # p /\ next[q] \in Holding
          BY <2>1, <3>1 DEF Holding
    <3>3. CASE slot[index[q]] = q
          BY <1>3, <3>3
    <3>4. CASE \E r \in Procs : aside[r] = q /\ index[r] = index[q]
      <4>1. PICK r \in Procs : aside[r] = q /\ index[r] = index[q]
            BY <3>4
      <4>2. r # p
            BY <4>1, <1>1, ProcsAssumption
      <4>3. QED BY <1>3, <4>1, <4>2
    <3>5. QED BY <3>2, <3>3, <3>4 DEF HasItsSlot, Using
  <2>4. Waits' /\ Entered' /\ Chosen'
        BY <1>1, <2>1, QueueKeeps DEF Acquiring, Dead, Waits
  <2>5. QED BY <1>1, <1>3, <2>1, <2>2, <2>3, <2>4
<1>4. QED BY <1>2, <1>3 DEF ReclaimSlot

\* A live holder's file is linked back, or its run is lost.
LEMMA InspectStep ==
    ASSUME SlotsInv, NEW p \in Procs, Inspect(p)
    PROVE  SlotsInv'
<1> USE DEF SlotsInv, SlotsTypeOK
<1>1. /\ next[p] = "inspect" /\ UNCHANGED <<waiting, late, read, ahead>>
      /\ aside' = [aside EXCEPT ![p] = Nobody] /\ Looked(p, TRUE)
      BY DEF Inspect, AtCall
<1>2. /\ free' \in [Procs -> BOOLEAN] /\ index' \in [Procs -> Slots]
      /\ next' \in [Procs -> Calls] /\ next'[p] \in {"look", "choose"}
      /\ \A q \in Procs \ {p} : next'[q] = next[q] /\ index'[q] = index[q]
      BY <1>1, LookedStep
<1>3. /\ slot' \in [Slots -> Files] /\ lost' \in SUBSET Procs
      /\ aside' \in [Procs -> Files] /\ lost \ {p} \subseteq lost'
      BY <1>1 DEF Inspect, Losers, Files
<1>4. SetAside'
      BY <1>1, <1>2 DEF SetAside
<1>5. HasItsSlot'
  <2>1. SUFFICES ASSUME NEW q \in Procs \ lost', next'[q] \in Holding
                 PROVE  \/ slot'[index'[q]] = q
                        \/ \E r \in Procs : aside'[r] = q /\ index'[r] = index'[q]
        BY DEF HasItsSlot, Using
  <2>2. q # p /\ next[q] \in Holding /\ index'[q] = index[q] /\ q \notin lost /\ Using(q)
        BY <1>2, <1>3, <2>1 DEF Holding, Using
  <2>3. CASE slot[index[q]] = q
        BY <2>2, <2>3, ProcsAssumption DEF Inspect
  <2>4. CASE aside[p] = q /\ index[p] = index[q]
    <3>1. isAlive(aside[p])
          BY <2>2, <2>4 DEF isAlive, Holding, Dead
    <3>2. slot[index[p]] # Nobody => q \in lost'
          BY <2>2, <2>4, <3>1 DEF Inspect, Losers
    <3>3. QED BY <2>1, <2>2, <2>4, <3>1, <3>2 DEF Inspect
  <2>5. CASE \E r \in Procs \ {p} : aside[r] = q /\ index[r] = index[q]
        BY <1>1, <1>2, <2>2, <2>5
  <2>6. QED BY <2>2, <2>3, <2>4, <2>5 DEF HasItsSlot
<1>6. Waits' /\ Entered' /\ Chosen'
      BY <1>1, <1>2, QueueKeeps DEF Acquiring, Dead
<1>7. QED BY <1>1, <1>2, <1>3, <1>4, <1>5, <1>6

\* A process that holds nothing aside and begins to use no slot takes no other's.
LEMMA SlotsKeep ==
    ASSUME SlotsInv, NEW p \in Procs, aside[p] = Nobody,
           next' \in [Procs -> Calls], index' \in [Procs -> Slots], next'[p] # "inspect",
           \A q \in Procs \ {p} : next'[q] = next[q] /\ index'[q] = index[q],
           Using(p)' => Using(p) /\ index'[p] = index[p],
           UNCHANGED <<slot, aside, lost>>
    PROVE  SetAside' /\ HasItsSlot'
<1> USE DEF SlotsInv, SlotsTypeOK
<1>1. SetAside'
      BY DEF SetAside
<1>2. \A q \in Procs : Using(q)' => Using(q) /\ index'[q] = index[q]
      BY DEF Using
<1>3. \A r \in Procs : aside[r] # Nobody => index'[r] = index[r]
      OBVIOUS
<1>4. HasItsSlot'
      BY <1>2, <1>3, ProcsAssumption DEF HasItsSlot
<1>5. QED BY <1>1, <1>4

\* The decision to take, the end of a wait, and of what ran without a slot.
LEMMA WaitStep ==
    ASSUME SlotsInv, NEW p \in Procs, Choose(p) \/ Expire(p) \/ Interrupt(p)
    PROVE  SlotsInv'
<1> USE DEF SlotsInv, SlotsTypeOK
<1>1. /\ next[p] \in {"choose", "poll"} /\ UNCHANGED <<slot, aside, late, read, free, ahead, lost>>
      /\ next'[p] \in {"take", "poll", "unslotted", "over"}
      /\ next' = [next EXCEPT ![p] = next'[p]]
      /\ index' \in {index, [index EXCEPT ![p] = 1]}
      /\ waiting' \subseteq waiting
      BY DEF Choose, Expire, Interrupt, AtCall, GoesTo, LiveGates
<1>2. aside[p] = Nobody
      BY <1>1 DEF SetAside
<1>3. /\ next' \in [Procs -> Calls] /\ index' \in [Procs -> Slots]
      /\ \A q \in Procs \ {p} : next'[q] = next[q] /\ index'[q] = index[q]
  <2>1. next' \in [Procs -> Calls]
        BY <1>1 DEF Calls, Acquiring
  <2>2. 1 \in Slots
        BY NSlotsAssumption DEF Slots
  <2>3. index' \in [Procs -> Slots]
        BY <1>1, <2>2
  <2>4. \A q \in Procs \ {p} : next'[q] = next[q] /\ index'[q] = index[q]
        BY <1>1
  <2>5. QED BY <2>1, <2>3, <2>4
<1>4. SetAside' /\ HasItsSlot'
      BY <1>1, <1>2, <1>3, SlotsKeep DEF Using, Holding
<1>5. p \in waiting' => next'[p] \in {"take", "poll"}
      BY <1>1 DEF Choose, Expire, Interrupt, GoesTo
<1>6. next'[p] = "take" => (p \in Workers => LiveGates \ late = {})
      BY <1>1, ProcsAssumption DEF Choose, Expire, Interrupt, GoesTo, AtCall, GatesAhead
<1>7. Waits' /\ Entered' /\ Chosen'
      BY <1>1, <1>3, <1>5, <1>6, QueueKeeps DEF Acquiring, Dead
<1>8. QED BY <1>1, <1>3, <1>4, <1>7

\* One exclusive link.
LEMMA TryTakeStep ==
    ASSUME SlotsInv, NEW p \in Procs, TryTake(p)
    PROVE  SlotsInv'
<1> USE DEF SlotsInv, SlotsTypeOK
<1>1. /\ next[p] = "take" /\ aside[p] = Nobody
      /\ UNCHANGED <<aside, waiting, late, read, free, ahead, lost>>
      BY DEF TryTake, AtCall, SetAside
<1>2. CASE /\ slot[index[p]] = Nobody /\ slot' = [slot EXCEPT ![index[p]] = p]
           /\ GoesTo(p, "unwait") /\ UNCHANGED index
  <2>1. next' = [next EXCEPT ![p] = "unwait"] /\ next' \in [Procs -> Calls] /\ slot' \in [Slots -> Files]
        BY <1>2 DEF GoesTo, Calls, Holding, Files
  <2>2. SetAside'
        BY <1>1, <2>1 DEF SetAside
  <2>3. slot'[index[p]] = p
        BY <1>2
  <2>4. \A q \in Procs : slot[index[q]] = q => slot'[index[q]] = q
        BY <1>2, ProcsAssumption
  <2>5. HasItsSlot'
        BY <1>1, <1>2, <2>1, <2>3, <2>4 DEF HasItsSlot, Using, Holding
  <2>6. Waits' /\ Entered' /\ Chosen'
        BY <1>1, <2>1, QueueKeeps DEF Acquiring, Dead
  <2>7. QED BY <1>1, <1>2, <2>1, <2>2, <2>5, <2>6
<1>3. CASE /\ index[p] < NSlots /\ index' = [index EXCEPT ![p] = @ + 1] /\ UNCHANGED <<slot, next>>
  <2>1. index' \in [Procs -> Slots]
        BY <1>3, NSlotsAssumption DEF Slots
  <2>2. SetAside' /\ HasItsSlot'
        BY <1>1, <1>3, <2>1, SlotsKeep DEF Using, Holding
  <2>3. Waits' /\ Entered' /\ Chosen'
        BY <1>1, <1>3, QueueKeeps DEF Acquiring, Dead
  <2>4. QED BY <1>1, <1>3, <2>1, <2>2, <2>3
<1>4. CASE GoesTo(p, "poll") /\ UNCHANGED <<slot, index>>
  <2>1. next' = [next EXCEPT ![p] = "poll"] /\ next' \in [Procs -> Calls]
        BY <1>4 DEF GoesTo, Calls, Acquiring
  <2>2. SetAside' /\ HasItsSlot'
        BY <1>1, <1>4, <2>1, SlotsKeep DEF Using, Holding
  <2>3. Waits' /\ Entered' /\ Chosen'
        BY <1>1, <1>4, <2>1, QueueKeeps DEF Acquiring, Dead
  <2>4. QED BY <1>1, <1>4, <2>1, <2>2, <2>3
<1>5. QED BY <1>2, <1>3, <1>4 DEF TryTake

\* The wait file goes, the suite runs and ends.
LEMMA RunStep ==
    ASSUME SlotsInv, NEW p \in Procs, Unwait(p) \/ Settle(p)
    PROVE  SlotsInv'
<1> USE DEF SlotsInv, SlotsTypeOK
<1>1. /\ next[p] \in {"unwait", "run", "unslotted"} /\ aside[p] = Nobody
      /\ UNCHANGED <<slot, aside, late, index, read, lost>>
      /\ next'[p] \in {"run", "release", "over"} /\ next' = [next EXCEPT ![p] = next'[p]]
      /\ (Using(p)' => Using(p))
      BY DEF Unwait, Settle, AtCall, GoesTo, SetAside, Using, Holding
<1>2. /\ free' \in [Procs -> BOOLEAN] /\ ahead' \in [Procs -> SUBSET Gates]
      /\ waiting' \subseteq waiting /\ \A w \in Procs : ahead'[w] \in {ahead[w], {}}
      BY DEF Unwait, Settle
<1>3. next' \in [Procs -> Calls] /\ \A q \in Procs \ {p} : next'[q] = next[q]
      BY <1>1 DEF Calls, Holding
<1>4. SetAside' /\ HasItsSlot'
      BY <1>1, <1>3, SlotsKeep
<1>5. p \notin waiting'
      BY <1>1 DEF Unwait, Settle, AtCall, Waits, Acquiring, Dead
<1>6. Waits' /\ Entered' /\ Chosen'
      BY <1>1, <1>2, <1>3, <1>5, QueueKeeps DEF Dead
<1>7. QED BY <1>1, <1>2, <1>3, <1>4, <1>6

\* The release reads its own token and then unlinks what is there by then.
LEMMA ReleaseStep ==
    ASSUME SlotsInv, NEW p \in Procs, ReleaseSlot(p) \/ Unlink(p)
    PROVE  SlotsInv'
<1> USE DEF SlotsInv, SlotsTypeOK
<1>1. /\ next[p] \in {"release", "unlink"}
      /\ UNCHANGED <<aside, waiting, late, index, read, free, ahead>>
      /\ next'[p] \in {"unlink", "over"} /\ next' = [next EXCEPT ![p] = next'[p]]
      /\ slot' \in {slot, [slot EXCEPT ![index[p]] = Nobody]}
      /\ lost \ {p} \subseteq lost' /\ lost' \in SUBSET Procs
      BY DEF ReleaseSlot, Unlink, AtCall, GoesTo, Losers
<1>2. /\ next' \in [Procs -> Calls] /\ slot' \in [Slots -> Files]
      /\ \A q \in Procs \ {p} : next'[q] = next[q]
      BY <1>1 DEF Calls, Holding, Files
<1>3. SetAside'
      BY <1>1, <1>2 DEF SetAside
<1>4. ASSUME NEW q \in Procs \ lost', next'[q] \in Holding
      PROVE  \/ slot'[index[q]] = q
             \/ \E r \in Procs : aside[r] = q /\ index[r] = index[q]
  <2>1. CASE q = p
        BY <1>1, <1>4, <2>1 DEF ReleaseSlot, Unlink, GoesTo, Holding
  <2>2. CASE q # p
    <3>1. next[q] \in Holding /\ q \notin lost
          BY <1>1, <1>2, <1>4, <2>2
    <3>2. slot[index[q]] = q => slot'[index[q]] = q
          BY <1>4, <2>2, <3>1 DEF ReleaseSlot, Unlink, Losers, Using
    <3>3. QED BY <3>1, <3>2 DEF HasItsSlot, Using
  <2>3. QED BY <2>1, <2>2
<1>5. HasItsSlot'
      BY <1>1, <1>4 DEF HasItsSlot, Using
<1>6. Waits' /\ Entered' /\ Chosen'
      BY <1>1, <1>2, QueueKeeps DEF Waits, Acquiring, Dead
<1>7. QED BY <1>1, <1>2, <1>3, <1>5, <1>6

\* A process exits or is killed: what it had aside is lost to its run.
LEMMA LeaveStep ==
    ASSUME SlotsInv, NEW p \in Procs, next[p] # Dead, Leave(p)
    PROVE  SlotsInv'
<1> USE DEF SlotsInv, SlotsTypeOK
<1>1. /\ next' = [next EXCEPT ![p] = Dead] /\ late' = late \ ({p} \ waiting)
      /\ lost' = Losers(aside[p], p) /\ aside' = [aside EXCEPT ![p] = Nobody]
      /\ read' = [read EXCEPT ![p] = Nobody] /\ free' = [free EXCEPT ![p] = FALSE]
      /\ index' = [index EXCEPT ![p] = 1] /\ ahead' = [ahead EXCEPT ![p] = {}]
      /\ UNCHANGED <<slot, waiting>>
      BY DEF Leave, GoesTo
<1>2. /\ next' \in [Procs -> Calls] /\ aside' \in [Procs -> Files] /\ read' \in [Procs -> Files]
      /\ index' \in [Procs -> Slots] /\ lost' \in SUBSET Procs
      BY <1>1, NSlotsAssumption DEF Calls, Files, Slots, Losers
<1>3. SetAside'
      BY <1>1 DEF SetAside
<1>4. ASSUME NEW q \in Procs \ lost', next'[q] \in Holding
      PROVE  \/ slot[index'[q]] = q
             \/ \E r \in Procs : aside'[r] = q /\ index'[r] = index'[q]
  <2>1. q # p /\ next[q] \in Holding /\ q \notin lost /\ index'[q] = index[q] /\ aside[p] # q
        BY <1>1, <1>4 DEF Holding, Dead, Losers, Using
  <2>2. \/ slot[index[q]] = q
        \/ \E r \in Procs \ {p} : aside[r] = q /\ index[r] = index[q]
        BY <2>1 DEF HasItsSlot, Using
  <2>3. QED BY <1>1, <2>1, <2>2
<1>5. HasItsSlot'
      BY <1>1, <1>4 DEF HasItsSlot, Using
<1>6. Waits' /\ Entered' /\ Chosen'
      BY <1>1, QueueKeeps DEF Dead, Acquiring
<1>7. QED BY <1>1, <1>2, <1>3, <1>5, <1>6

\* Each step of a process or of the clock.
LEMMA SlotsInvStep == SlotsInv /\ [SlotsNext]_slotVars => SlotsInv'
<1> SUFFICES ASSUME SlotsInv, [SlotsNext]_slotVars PROVE SlotsInv'
    OBVIOUS
<1>1. CASE UNCHANGED slotVars
      BY <1>1 DEF slotVars, SlotsInv, SlotsTypeOK, SetAside, HasItsSlot, Using, Waits, Entered, Chosen, AtCall,
                  LiveGates, isAlive
<1>2. ASSUME NEW g \in Gates, GateIsLate(g) PROVE SlotsInv'
      BY <1>2 DEF GateIsLate, SlotsInv, SlotsTypeOK, SetAside, HasItsSlot, Using, Waits, Entered, Chosen,
                  AtCall, LiveGates, isAlive
<1>3. ASSUME NEW p \in Procs, ProcStep(p) \/ Interrupt(p) \/ KillProc(p) PROVE SlotsInv'
  <2>1. CASE Exit(p) \/ KillProc(p)
        BY <2>1, LeaveStep DEF Exit, KillProc, AtCall, Dead
  <2>2. CASE ~(Exit(p) \/ KillProc(p))
        BY <1>3, <2>2, LookBegins, LookStep, ReclaimStep, InspectStep, WaitStep, TryTakeStep, RunStep,
           ReleaseStep DEF ProcStep
  <2>3. QED BY <2>1, <2>2
<1>4. QED BY <1>1, <1>2, <1>3 DEF SlotsNext

\* The invariant, in every state.
THEOREM IInvHolds == SlotsSpec => []SlotsInv
<1> QED BY SlotsInvInit, SlotsInvStep, PTL DEF SlotsSpec
-----------------------------------------------------------------------------
\* The files, the processes and what each has read keep their types.
THEOREM SlotsTypeCorrect == SlotsSpec => []SlotsTypeOK
<1>1. SlotsInv => SlotsTypeOK
      BY DEF SlotsInv
<1> QED BY <1>1, IInvHolds, PTL

\* A run that took a slot has its file there, or one reclaimer has it aside at the
\* same slot, unless it was lost in one of the three ways (reclaim, release).
THEOREM SlotIsHeld == SlotsSpec => []HasItsSlot
<1>1. SlotsInv => HasItsSlot
      BY DEF SlotsInv
<1> QED BY <1>1, IInvHolds, PTL

\* The wait file of a gate that is past its wait is gone, unless the gate was
\* killed (acquire's finally).
THEOREM WaitFilesAreOfWaits == SlotsSpec => []WaitFilesAreWaits
<1>1. SlotsInv => WaitFilesAreWaits
      BY DEF SlotsInv, Waits, WaitFilesAreWaits
<1> QED BY <1>1, IInvHolds, PTL

\* Runs that are not over-subscribed are on slots of their own.
LEMMA SlotsBound == SlotsInv => Bounded
<1> SUFFICES ASSUME SlotsInv PROVE Bounded
    OBVIOUS
<1> DEFINE R == {p \in Procs : AtCall(p, "run")}
           L == lost \cup {q \in Procs : \E p \in Procs : aside[p] = q}
           F == [p \in R \ L |-> index[p]]
<1>1. R \subseteq Procs /\ L \subseteq Procs
      BY DEF SlotsInv, SlotsTypeOK
<1>2. IsFiniteSet(R) /\ IsFiniteSet(L) /\ IsFiniteSet(R \cap L) /\ IsFiniteSet(R \ L)
      BY <1>1, FiniteAssumption, FS_Subset
<1>3. \A p \in R \ L : slot[index[p]] = p
      BY DEF SlotsInv, HasItsSlot, Using, Holding, AtCall
<1>4. F \in Injection(R \ L, Slots)
      BY <1>1, <1>3 DEF SlotsInv, SlotsTypeOK, Injection, IsInjective
<1>5. IsFiniteSet(Slots) /\ Cardinality(Slots) = NSlots
      BY NSlotsAssumption, FS_Interval DEF Slots
<1>6. Cardinality(R \ L) <= NSlots
      BY <1>2, <1>4, <1>5, FS_Injection
<1>7. Cardinality(R \cap L) <= Cardinality(L)
      BY <1>2, FS_Subset
<1>8. Cardinality(R) <= Cardinality(R \cap L) + Cardinality(R \ L)
  <2>1. (R \cap L) \cup (R \ L) = R /\ (R \cap L) \cap (R \ L) = {}
        OBVIOUS
  <2>2. Cardinality((R \cap L) \cup (R \ L))
          = Cardinality(R \cap L) + Cardinality(R \ L) - Cardinality((R \cap L) \cap (R \ L))
        BY <1>2, FS_Union
  <2>3. Cardinality((R \cap L) \cap (R \ L)) = 0
        BY <2>1, FS_EmptySet
  <2>4. Cardinality(R \cap L) \in Nat /\ Cardinality(R \ L) \in Nat
        BY <1>2, FS_CardinalityType
  <2>5. Cardinality(R) = Cardinality((R \cap L) \cup (R \ L))
        BY <2>1, Zenon
  <2> HIDE DEF R, L
  <2>6. QED BY <2>2, <2>3, <2>4, <2>5
<1>9. /\ Cardinality(R) \in Nat /\ Cardinality(L) \in Nat
      /\ Cardinality(R \cap L) \in Nat /\ Cardinality(R \ L) \in Nat
      BY <1>2, FS_CardinalityType
<1>10. Cardinality(R) <= NSlots + Cardinality(L)
       BY <1>6, <1>7, <1>8, <1>9, NSlotsAssumption
<1>11. QED BY <1>10 DEF Bounded

\* No more suites run than there are slots, plus one for each run whose file was
\* lost or is aside, however many processes there are.
THEOREM SuitesAreBounded == SlotsSpec => []Bounded
<1> QED BY SlotsBound, IInvHolds, PTL

\* No worker takes a slot while a gate that was waiting as its look began, and is
\* alive, still waits within its time (waitingGates).
THEOREM NobodyOvertakes == SlotsSpec => NoOvertaking
<1>1. SlotsInv => \A w \in Workers : AtCall(w, "take") /\ next'[w] = "unwait" =>
                    \A g \in ahead[w] : ~(g \in LiveGates \ late)
      BY DEF SlotsInv, Chosen
<1> QED BY <1>1, IInvHolds, PTL DEF NoOvertaking
=============================================================================
