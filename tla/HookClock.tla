----------------------------- MODULE HookClock -----------------------------
(***************************************************************************)
(* The deadline of a hook's reads: the shell functions in_time and bounded  *)
(* of profile-compiler.service.ts. A read runs in the background beside a   *)
(* watcher, which kills it at the deadline unless it is stopped before. A   *)
(* hook that outlives the session's timeout is taken for one that allows.   *)
(* Time goes by in half seconds, and only while every script waits: a step  *)
(* of theirs takes none.                                                    *)
(***************************************************************************)
EXTENDS Subject, Integers, Sequences

CONSTANTS
    Timeout,    \* HOOK_TIMEOUT_SECONDS
    MaxReads    \* bound: the reads of one hook

ASSUME HookClockAssumption == Timeout \in Nat /\ Timeout > 2 /\ MaxReads \in Nat

VARIABLES
    now,        \* half seconds since the second the hook began in
    hook,       \* where the hook's script is
    readsAnswered,   \* how many of its reads were
    readJob,        \* the read's process
    watcher,    \* where its watcher is
    stop,       \* BOUND_STOP
    wakes,      \* when the watcher's sleep ends; Never, if there is none
    answer      \* the hook's, or "open" when the timeout came first

readVars == <<readsAnswered, readJob>>
watcherVars == <<watcher, stop, wakes>>
hookClockVars == <<now, hook, readVars, watcherVars, answer>>

Never == -1
SecondsOf(t) == t \div 2
Began == given.phase
TimesOut == Began + 2 * Timeout

HookClockTypeOK ==
    /\ now \in 0 .. TimesOut
    /\ hook \in {"next", "forked", "waits", "stops", "reaps", "returns", "out"}
    /\ readsAnswered \in 0 .. Len(given.reads) /\ readJob \in {"none", "runs", "ended", "killed"}
    /\ watcher \in {"gone", "born", "trapped", "sleeps", "tested", "waits", "woken"}
    /\ stop \in BOOLEAN /\ wakes \in {Never} \cup 0 .. TimesOut
    /\ answer \in {"none", "allow", "refuse", "open"}

HookClockStart ==
    /\ hook = "next" /\ readsAnswered = 0 /\ readJob = "none"
    /\ watcher = "gone" /\ stop = FALSE /\ wakes = Never /\ answer = "none"

\* A hook fails closed (the scope of an Edit, the check after a Bash call) or
\* open (the read guard). A read ends when it likes, or blocks on a fifo.
HookClockInit ==
    /\ given \in [reads : UNION {[1 .. n -> {"ends", "blocks"}] : n \in 1 .. MaxReads},
                  closed : BOOLEAN, phase : {0, 1}]
    /\ now = Began /\ HookClockStart

HookClockRests == now = 0 /\ HookClockStart
-----------------------------------------------------------------------------
(* The hook.                                                                *)

\* MUTANT: the deadline is the timeout's
Deadline_Timeout == SecondsOf(Began) + Timeout

\* HOOK_READ_DEADLINE_SECONDS past the hook's start, in whole seconds
Deadline == SecondsOf(Began) + (Timeout - 2)

in_time == SecondsOf(now) < Deadline

\* The command is exec'd in the background, then its watcher
ForkRead ==
    \/ /\ hook = "next" /\ readsAnswered < Len(given.reads) /\ in_time
       /\ hook' = "forked" /\ readJob' = "runs"
       /\ UNCHANGED <<now, readsAnswered, watcherVars, answer>>
    \/ /\ hook = "forked"
       /\ hook' = "waits" /\ watcher' = "born" /\ stop' = FALSE /\ wakes' = Never
       /\ UNCHANGED <<now, readVars, answer>>

Reap ==
    /\ hook = "waits" /\ readJob # "runs" /\ hook' = "stops"
    /\ UNCHANGED <<now, readVars, watcherVars, answer>>

Trapped == {"trapped", "sleeps", "tested", "waits", "woken"}

\* The watcher is told to stop. Its trap only sets the flag, and ends a wait; one
\* that has none yet dies of it.
StopWatcher ==
    /\ hook = "stops" /\ hook' = "reaps"
    /\ stop' = (stop \/ watcher \in Trapped)
    /\ watcher' = IF watcher \notin Trapped THEN "gone"
                  ELSE IF watcher = "waits" THEN "woken" ELSE watcher
    /\ UNCHANGED <<now, readVars, wakes, answer>>

\* 137
failed == readJob = "killed"

\* It waits for the watcher; then a killed read fails with 124, which ends a hook
\* that fails closed and is no answer to one that fails open
Return ==
    /\ hook = "reaps" /\ watcher = "gone"
    /\ IF failed /\ given.closed
       THEN hook' = "out" /\ answer' = "refuse" /\ UNCHANGED readsAnswered
       ELSE hook' = "next" /\ readsAnswered' = readsAnswered + 1 /\ UNCHANGED answer
    /\ UNCHANGED <<now, readJob, watcherVars>>

\* Nothing is begun once the deadline has passed
OutOfTime ==
    /\ hook = "next" /\ readsAnswered < Len(given.reads) /\ ~in_time
    /\ IF given.closed
       THEN hook' = "out" /\ answer' = "refuse" /\ UNCHANGED readsAnswered
       ELSE readsAnswered' = readsAnswered + 1 /\ UNCHANGED <<hook, answer>>
    /\ UNCHANGED <<now, readJob, watcherVars>>

Allow ==
    /\ hook = "next" /\ readsAnswered = Len(given.reads) /\ hook' = "out" /\ answer' = "allow"
    /\ UNCHANGED <<now, readVars, watcherVars>>

ReadEnds ==
    /\ readJob = "runs" /\ given.reads[readsAnswered + 1] = "ends" /\ readJob' = "ended"
    /\ UNCHANGED <<now, hook, readsAnswered, watcherVars, answer>>
-----------------------------------------------------------------------------
(* The watcher, and time.                                                   *)

Asleep == wakes # Never /\ now < wakes

Watcher ==
    /\ \/ watcher = "born" /\ watcher' = "trapped" /\ UNCHANGED <<wakes, readJob>>
       \/ /\ watcher = "trapped" /\ watcher' = "sleeps"
          /\ wakes' = now + 2 * (Deadline - SecondsOf(now)) /\ UNCHANGED readJob
       \/ /\ watcher = "sleeps" /\ watcher' = IF stop THEN "woken" ELSE "tested"
          /\ UNCHANGED <<wakes, readJob>>
       \* a stop between the test and the wait is slept through
       \/ watcher = "tested" /\ watcher' = "waits" /\ UNCHANGED <<wakes, readJob>>
       \/ watcher = "waits" /\ ~Asleep /\ watcher' = "woken" /\ UNCHANGED <<wakes, readJob>>
       \/ /\ watcher = "woken" /\ watcher' = "gone" /\ wakes' = Never
          /\ readJob' = IF ~stop /\ readJob = "runs" THEN "killed" ELSE readJob
    /\ UNCHANGED <<now, hook, readsAnswered, stop, answer>>

ScriptsWait ==
    /\ watcher = "waits" /\ Asleep
    /\ \/ hook = "waits" /\ readJob = "runs"
       \/ hook = "reaps"

\* The session's timeout, which fails open
Tick ==
    /\ ScriptsWait /\ now' = now + 1
    /\ IF now' = TimesOut THEN hook' = "out" /\ answer' = "open" ELSE UNCHANGED <<hook, answer>>
    /\ UNCHANGED <<readVars, watcherVars>>

HookClockNext ==
    \/ ForkRead \/ Reap \/ StopWatcher \/ Return \/ OutOfTime \/ Allow
    \/ ReadEnds \/ Watcher \/ Tick
-----------------------------------------------------------------------------
(* Properties.                                                              *)

Hooks == subject = "hookclock"

\* Whatever its reads block on, and from wherever in a second it starts, a hook
\* answers before the timeout that would let the call pass
\* (HOOK_READ_DEADLINE_SECONDS).
AnswersInTime == Hooks => answer # "open"

\* A hook that fails closed allows nothing unless each of its reads ended by
\* itself: not one that was killed, nor one that was not begun (bounded).
PassIsAnswered ==
    Hooks => (answer = "allow" /\ given.closed => \A i \in DOMAIN given.reads : given.reads[i] = "ends")

\* A hook that has answered has left no read, no watcher and no sleep behind
\* (bounded).
NothingIsLeft ==
    Hooks => (hook = "out" => readJob # "runs" /\ watcher = "gone" /\ ~Asleep)
=============================================================================
