----------------------------- MODULE MergeLock -----------------------------
(***************************************************************************)
(* The per-repository merge lock of merge-gate.service.ts (decision 88): a  *)
(* directory `.git/pup-merge.lock`, which one mkdir makes, holding a file   *)
(* with the taker's pid. `pup merge`, `pup land` and `pup fix` each run one *)
(* section under it. Every system call that another run can observe, on the *)
(* lock's path and on `pup-merge.lock.reclaim`, is an action of its own:    *)
(* runs are processes that share nothing but the file system, and each may  *)
(* be killed between any two of them. A pid is not reused while a lock      *)
(* names it.                                                                *)
(*                                                                          *)
(* A directory's identity (dev, ino) is written as the run that made it: a  *)
(* run makes a second one only after its first was renamed aside, where no  *)
(* run looks.                                                               *)
(***************************************************************************)
CONSTANTS
    Runs,    \* the processes, by pid, that call withMergeLock, one call each
    NoRun,   \* no pid, no maker
    Stalls   \* a reclaim may outlast RECLAIM_STALE_MS (the machine sleeps)

ASSUME RunsAssumption == NoRun \notin Runs
ASSUME StallsAssumption == Stalls \in BOOLEAN

VARIABLES
    lock,        \* the directory at the lock path and the pid in it
    reclaiming,  \* who made the directory at the reclaim path, NoRun for none
    aged,        \* that directory is older than RECLAIM_STALE_MS
    pc,          \* the next system call of each run
    identity,    \* the directory a taker found at the path after its mkdir
    holder,      \* the pid a run last read from the lock
    pidless,     \* how long ago the run first found a lock with no pid
    intruded     \* history: a reclaim lock was taken from a run still using it

vars == <<lock, reclaiming, aged, pc, identity, holder, pidless, intruded>>

Lock == [maker : Runs \cup {NoRun}, pid : Runs \cup {NoRun}]
NoLock == [maker |-> NoRun, pid |-> NoRun]

Taking == {"identify", "write"}
Owning == {"recheck", "held"}
Reclaim == {"reread", "drop", "unreclaim", "throw"}
Looking == {"mkdir", "read", "gone", "live", "reclaim", "stat", "replace",
            "remake", "sleep"}
Ended == {"done", "refused", "failed", "killed"}
Steps == Looking \cup Taking \cup Owning \cup Reclaim \cup Ended

TypeOK ==
    /\ lock \in Lock
    /\ reclaiming \in Runs \cup {NoRun}
    /\ aged \in BOOLEAN
    /\ pc \in [Runs -> Steps]
    /\ identity \in [Runs -> Runs \cup {NoRun}]
    /\ holder \in [Runs -> Runs \cup {NoRun}]
    /\ pidless \in [Runs -> {"no", "seen", "graced"}]
    /\ intruded \in BOOLEAN

Locked == lock.maker # NoRun
isLiveProcess(r) == r \in Runs /\ pc[r] \notin Ended
InReclaim(r) == pc[r] \in Reclaim

Init ==
    /\ lock = NoLock
    /\ reclaiming = NoRun
    /\ aged = FALSE
    /\ pc = [r \in Runs |-> "mkdir"]
    /\ identity = [r \in Runs |-> NoRun]
    /\ holder = [r \in Runs |-> NoRun]
    /\ pidless = [r \in Runs |-> "no"]
    /\ intruded = FALSE

At(r, step) == pc[r] = step
Goto(r, step) == pc' = [pc EXCEPT ![r] = step]
Remember(r, pid) == holder' = [holder EXCEPT ![r] = pid]

\* The run is over, and what it remembered goes with it.
End(r, how) ==
    /\ Goto(r, how)
    /\ identity' = [identity EXCEPT ![r] = NoRun]
    /\ Remember(r, NoRun)
    /\ pidless' = [pidless EXCEPT ![r] = "no"]

(***************************************************************************)
(* withMergeLock's own loop: what a run does with an answer of              *)
(* tryMergeLock that is not a take. `answer` is a pid, or NoRun for null.   *)
(* The deadline is any time: `pup fix` gives no wait and refuses at the     *)
(* first answer, `pup merge` and `pup land` at the first after theirs. A    *)
(* lock with no pid is looked at again for a second and then refused.       *)
(***************************************************************************)
Answered(r, answer) ==
    \/ End(r, "refused")
    \/ /\ answer # NoRun \/ pidless[r] # "graced"
       /\ Goto(r, "sleep")
       /\ identity' = [identity EXCEPT ![r] = NoRun]
       /\ Remember(r, NoRun)
       /\ pidless' = [pidless EXCEPT ![r] =
                         IF answer # NoRun THEN "no"
                         ELSE IF @ = "no" THEN "seen" ELSE @]

Grace(r) ==
    /\ pc[r] \in Looking /\ pidless[r] = "seen"
    /\ pidless' = [pidless EXCEPT ![r] = "graced"]
    /\ UNCHANGED <<lock, reclaiming, aged, pc, identity, holder, intruded>>

Wake(r) ==
    /\ At(r, "sleep")
    /\ Goto(r, "mkdir")
    /\ UNCHANGED <<lock, reclaiming, aged, identity, holder, pidless, intruded>>

-----------------------------------------------------------------------------
(***************************************************************************)
(* tryMergeLock.                                                            *)
(***************************************************************************)
Mkdir(r) ==
    /\ At(r, "mkdir")
    /\ \/ /\ ~Locked
          /\ lock' = [maker |-> r, pid |-> NoRun]
          /\ Goto(r, "identify")
       \/ /\ Locked
          /\ Goto(r, "read")
          /\ UNCHANGED lock
    /\ UNCHANGED <<reclaiming, aged, identity, holder, pidless, intruded>>

Identify(r) ==
    /\ At(r, "identify")
    /\ \/ /\ Locked
          /\ identity' = [identity EXCEPT ![r] = lock.maker]
          /\ Goto(r, "write")
          /\ UNCHANGED <<holder, pidless>>
       \/ ~Locked /\ Answered(r, NoRun)
    /\ UNCHANGED <<lock, reclaiming, aged, intruded>>

WritePid(r) ==
    /\ At(r, "write")
    /\ Locked /\ lock.pid = NoRun
    /\ lock' = [lock EXCEPT !.pid = r]
    /\ Goto(r, "recheck")
    /\ UNCHANGED <<reclaiming, aged, identity, holder, pidless, intruded>>

(***************************************************************************)
(* The exclusive write fails: the directory is gone, has a pid already, or  *)
(* the disk refuses. The take is undone where the path still is the         *)
(* directory this run made (removeLockDir), and the error is thrown.        *)
(***************************************************************************)
WriteFails(r) ==
    /\ At(r, "write")
    /\ lock' = IF lock.maker = identity[r] THEN NoLock ELSE lock
    /\ End(r, "failed")
    /\ UNCHANGED <<reclaiming, aged, intruded>>

Recheck(r) ==
    /\ At(r, "recheck")
    /\ \/ /\ lock.maker = identity[r]
          /\ Goto(r, "held")
          /\ UNCHANGED <<identity, holder, pidless>>
       \/ lock.maker # identity[r] /\ Answered(r, NoRun)
    /\ UNCHANGED <<lock, reclaiming, aged, intruded>>

\* mergeLockHolder, after an EEXIST.
ReadHolder(r) ==
    /\ At(r, "read")
    /\ Remember(r, lock.pid)
    /\ Goto(r, IF lock.pid = NoRun THEN "gone" ELSE "live")
    /\ UNCHANGED <<lock, reclaiming, aged, identity, pidless, intruded>>

\* No pid: released in between, tried again; otherwise null.
LookGone(r) ==
    /\ At(r, "gone")
    /\ \/ ~Locked /\ Goto(r, "mkdir") /\ UNCHANGED <<identity, holder, pidless>>
       \/ Locked /\ Answered(r, NoRun)
    /\ UNCHANGED <<lock, reclaiming, aged, intruded>>

ProbeHolder(r) ==
    /\ At(r, "live")
    /\ \/ isLiveProcess(holder[r]) /\ Answered(r, holder[r])
       \/ /\ ~isLiveProcess(holder[r])
          /\ Goto(r, "reclaim")
          /\ UNCHANGED <<identity, holder, pidless>>
    /\ UNCHANGED <<lock, reclaiming, aged, intruded>>

-----------------------------------------------------------------------------
(***************************************************************************)
(* reclaimMergeLock: make the reclaim lock, replacing one that is stale;    *)
(* under it read the pid again; rename the directory that is at the lock    *)
(* path by then aside; remove the reclaim lock.                             *)
(***************************************************************************)
MakeReclaimLock(r) ==
    /\ reclaiming = NoRun
    /\ reclaiming' = r
    /\ aged' = FALSE
    /\ Goto(r, "reread")
    /\ UNCHANGED <<identity, holder, pidless>>

TakeReclaim(r) ==
    /\ At(r, "reclaim")
    /\ \/ MakeReclaimLock(r)
       \/ /\ reclaiming # NoRun
          /\ Goto(r, "stat")
          /\ UNCHANGED <<reclaiming, aged, identity, holder, pidless>>
    /\ UNCHANGED <<lock, intruded>>

StatReclaim_NeverStale(r) ==
    /\ At(r, "stat")
    /\ Answered(r, holder[r])
    /\ UNCHANGED <<lock, reclaiming, aged, intruded>>

StatReclaim(r) ==
    /\ At(r, "stat")
    /\ \/ /\ reclaiming # NoRun /\ aged
          /\ Goto(r, "replace")
          /\ UNCHANGED <<identity, holder, pidless>>
       \/ (reclaiming = NoRun \/ ~aged) /\ Answered(r, holder[r])
    /\ UNCHANGED <<lock, reclaiming, aged, intruded>>

\* rmdir of the reclaim path, whichever directory is there by now.
ReplaceReclaim(r) ==
    /\ At(r, "replace")
    /\ \/ /\ reclaiming # NoRun
          /\ reclaiming' = NoRun
          /\ aged' = FALSE
          /\ intruded' = (intruded \/ InReclaim(reclaiming))
          /\ Goto(r, "remake")
          /\ UNCHANGED <<identity, holder, pidless>>
       \/ /\ reclaiming = NoRun
          /\ Answered(r, holder[r])
          /\ UNCHANGED <<reclaiming, aged, intruded>>
    /\ UNCHANGED lock

RemakeReclaim(r) ==
    /\ At(r, "remake")
    /\ \/ MakeReclaimLock(r)
       \/ /\ reclaiming # NoRun
          /\ Answered(r, holder[r])
          /\ UNCHANGED <<reclaiming, aged>>
    /\ UNCHANGED <<lock, intruded>>

Reread_Skipped(r) ==
    /\ At(r, "reread")
    /\ Goto(r, "drop")
    /\ UNCHANGED <<lock, reclaiming, aged, identity, holder, pidless, intruded>>

Reread(r) ==
    /\ At(r, "reread")
    /\ Goto(r, IF lock.pid = holder[r] THEN "drop" ELSE "unreclaim")
    /\ UNCHANGED <<lock, reclaiming, aged, identity, holder, pidless, intruded>>

(***************************************************************************)
(* dropMergeLock 'reclaimed': the rename moves whatever directory is at the *)
(* path; its identity is compared only in the aside place, where no run     *)
(* looks, so the comparison decides what is deleted and never what the      *)
(* path loses. With nothing at the path the rename throws.                  *)
(***************************************************************************)
DropReclaimed(r) ==
    /\ At(r, "drop")
    /\ \/ Locked /\ lock' = NoLock /\ Goto(r, "unreclaim")
       \/ ~Locked /\ Goto(r, "throw") /\ UNCHANGED lock
    /\ UNCHANGED <<reclaiming, aged, identity, holder, pidless, intruded>>

\* The `finally` of the reclaim, then another try, or the rename's error.
Unreclaim(r) ==
    /\ \/ At(r, "throw") /\ End(r, "failed")
       \/ /\ At(r, "unreclaim") /\ Goto(r, "mkdir")
          /\ Remember(r, NoRun)
          /\ UNCHANGED <<identity, pidless>>
    /\ reclaiming' = NoRun
    /\ aged' = FALSE
    /\ UNCHANGED <<lock, intruded>>

-----------------------------------------------------------------------------
(***************************************************************************)
(* fn returns or throws, a forwarded signal included, and the finally       *)
(* renames the lock aside: again whichever directory is at the path.        *)
(***************************************************************************)
Release(r) ==
    /\ At(r, "held")
    /\ \/ Locked /\ lock' = NoLock /\ End(r, "done")
       \/ ~Locked /\ End(r, "failed") /\ UNCHANGED lock
    /\ UNCHANGED <<reclaiming, aged, intruded>>

\* SIGKILL, a crash, or, outside the locked section, a plain Ctrl-C.
Kill(r) ==
    /\ pc[r] \notin Ended
    /\ End(r, "killed")
    /\ UNCHANGED <<lock, reclaiming, aged, intruded>>

(***************************************************************************)
(* Ten seconds pass since the reclaim lock was made. Unless Stalls, the run *)
(* that made it has finished its few calls by then, or was killed.          *)
(***************************************************************************)
Age ==
    /\ reclaiming # NoRun /\ ~aged
    /\ Stalls \/ ~InReclaim(reclaiming)
    /\ aged' = TRUE
    /\ UNCHANGED <<lock, reclaiming, pc, identity, holder, pidless, intruded>>

Take(r) == Mkdir(r) \/ Identify(r) \/ WritePid(r) \/ WriteFails(r) \/ Recheck(r)
Look(r) == Wake(r) \/ ReadHolder(r) \/ LookGone(r) \/ ProbeHolder(r)
Reclaiming(r) ==
    \/ TakeReclaim(r) \/ StatReclaim(r) \/ ReplaceReclaim(r) \/ RemakeReclaim(r)
    \/ Reread(r) \/ DropReclaimed(r) \/ Unreclaim(r)
Step(r) == Take(r) \/ Look(r) \/ Reclaiming(r) \/ Release(r)

Next ==
    \/ \E r \in Runs : Step(r) \/ Grace(r) \/ Kill(r)
    \/ Age

Spec == Init /\ [][Next]_vars

(***************************************************************************)
(* A run that is not killed goes on (its calls return, fn ends: every stage *)
(* of the gate has a timeout), and clocks run. Nothing says that a deadline *)
(* passes: a waiter that needs its deadline to end is not let off.          *)
(***************************************************************************)
Fairness ==
    /\ \A r \in Runs : WF_vars(Step(r)) /\ WF_vars(Grace(r))
    /\ WF_vars(Age)

FairSpec == Spec /\ Fairness

-----------------------------------------------------------------------------
(***************************************************************************)
(* At most one run is inside the section the lock guards, as decision 88    *)
(* and reclaimMergeLock's comment promise.                                  *)
(***************************************************************************)
MutualExclusion ==
    \A r, q \in Runs : pc[r] = "held" /\ pc[q] = "held" => r = q

(***************************************************************************)
(* What of it the code keeps whatever is killed and however long it stalls: *)
(* two runs are inside only after a reclaim lock was taken from a live run  *)
(* that was using it.                                                       *)
(***************************************************************************)
ExclusiveUnlessIntruded == ~intruded => MutualExclusion

(***************************************************************************)
(* A lock that names no pid refuses every later run for good, so it is only *)
(* ever that of a taker about to write, or of one killed before it could: a *)
(* failed write, a release and a reclaim leave none behind.                 *)
(***************************************************************************)
PidlessOnlyBeforeWrite ==
    ~intruded /\ Locked /\ lock.pid = NoRun =>
        pc[lock.maker] \in Taking \cup {"killed"}

(***************************************************************************)
(* A lock that names a live run leaves the path by that run's own release   *)
(* and by nothing else, a reclaim that read a dead pid earlier included.    *)
(***************************************************************************)
LiveLockStays ==
    [][\A r \in Runs :
         ~intruded /\ lock.pid = r /\ isLiveProcess(r) /\ lock' # lock =>
             pc[r] = "held" /\ pc'[r] = "done" /\ lock' = NoLock]_vars

(***************************************************************************)
(* Every run that calls withMergeLock ends, without its deadline's help: a  *)
(* lock a killed run left with its pid is reclaimed, a reclaim lock a       *)
(* killed run left is replaced, and a lock with no pid is refused. (After   *)
(* an intrusion a run may meet its own pid in a lock another run made, and  *)
(* only its deadline ends its wait.)                                        *)
(***************************************************************************)
EveryRunEnds == \A r \in Runs : <>(pc[r] \in Ended \/ intruded)
=============================================================================
