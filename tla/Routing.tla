------------------------------ MODULE Routing ------------------------------
(***************************************************************************)
(* The model ladder (routing.utils.ts): which rung a task's next window     *)
(* runs on, at a relaunch, a respawn or a fix round, from what the window   *)
(* before it ran into. That is read off the session's events, which other   *)
(* commands append (session-lifecycle.service.ts, fix-round.service.ts).    *)
(*                                                                          *)
(* One task of one tier. A step is a command up to its last write, or what  *)
(* the gate or the watchdog puts in the event log.                          *)
(***************************************************************************)
EXTENDS Subject, Integers, Sequences

CONSTANTS
    MaxLog  \* bound: events of one session

ASSUME MaxLogAssumption == MaxLog \in Nat

VARIABLES
    rung,         \* sessions.rung of the task's newest session
    reason,       \* sessions.rung_reason: why it last climbed
    events,       \* the session's events, oldest first
    state,        \* sessions.state
    quiet,        \* the events file is past the stall bar, as the window ends
    hit,          \* history: what the window that is up, or was last, ran into
    roundRan,     \* history: a fix round's window opened since the newest merge
    repeats,      \* history: a merge ended a round whose window had opened
    torn          \* history: a command was killed between two of its writes

routingVars == <<rung, reason, events, state, quiet, hit, roundRan, repeats, torn>>

Tiers == {"standard", "critical"}
ClimbReason == {"gate-rejection", "repeat-fix-round", "turn-death", "stall"}
EventType == {"rejected", "blocked", "turn_died", "respawn", "undelivered", "fix_round", "merge"}

\* The tier is given; its ladder has four rungs or two, the lowest 0.
Top == IF given = "standard" THEN 3 ELSE 1

RoutingTypeOK ==
    /\ rung \in 0 .. Top
    /\ reason \in ClimbReason \cup {"none"}
    /\ events \in Seq(EventType)
    /\ state \in {"running", "blocked", "killed", "merged"}
    /\ quiet \in BOOLEAN
    /\ hit \in {"nothing", "failure", "block"}
    /\ {roundRan, repeats, torn} \subseteq BOOLEAN

RoutingRests ==
    /\ rung = 0 /\ reason = "none" /\ events = <<>> /\ state = "running"
    /\ quiet = FALSE /\ hit = "nothing"
    /\ roundRan = FALSE /\ repeats = FALSE /\ torn = FALSE

RoutingInit == given \in Tiers /\ RoutingRests
-----------------------------------------------------------------------------
(* What the events say.                                                     *)

\* The respawns: each opens a window, whether or not its paste landed
respawns(log) == {i \in DOMAIN log : log[i] \in {"respawn", "undelivered"}}

\* MUTANT: a respawn does not bound what came before it
sinceOpened_All(log, openings) == DOMAIN log

\* The events of a window: those since the last of the respawns that open one
sinceOpened(log, openings) == {i \in DOMAIN log : \A j \in openings : j < i}

\* failureOf: a rejection or a dead turn
failureOf(event) == IF event = "turn_died" THEN "turn-death" ELSE "gate-rejection"

\* windowFailure's loop: a block wins, then the first failure, then a stall
ranInto(log, openings, stalledAtEnd) ==
    LET mine == sinceOpened(log, openings)
        failures == {i \in mine : log[i] \in {"rejected", "turn_died"}}
        isBlocked == \E i \in mine : log[i] = "blocked"
    IN CASE isBlocked -> "blocked"
         [] ~isBlocked /\ failures # {} ->
                failureOf(log[CHOOSE i \in failures : \A j \in failures : i <= j])
         [] OTHER -> IF stalledAtEnd THEN "stall" ELSE "none"

windowFailure(log, stalledAtEnd) == ranInto(log, respawns(log), stalledAtEnd)

\* The first respawn after a fix_round opens the round's window, if delivered
opensRound(log, i) ==
    /\ i \in respawns(log)
    /\ \E j \in 1 .. i - 1 : /\ log[j] = "fix_round"
                             /\ \A k \in j + 1 .. i - 1 :
                                    log[k] \notin {"respawn", "undelivered", "merge"}
ranRound(log, i) == opensRound(log, i) /\ log[i] = "respawn"

\* The respawns that count for a round: not that of one that was undone
ofRounds(log) == {i \in respawns(log) : ~(opensRound(log, i) /\ log[i] = "undelivered")}

\* A round's window opened since the newest merge; one opened that a merge ended
roundOpened(log) ==
    \E i \in DOMAIN log : ranRound(log, i) /\ \A m \in DOMAIN log : log[m] = "merge" => m < i
roundRepeated(log) ==
    \E i \in DOMAIN log : ranRound(log, i) /\ \E m \in DOMAIN log : log[m] = "merge" /\ i < m

\* fixRoundFailure: what a window opened since the newest merge ran into, or
\* that this is a round after one a merge ended
fixRoundFailure(log) ==
    IF roundOpened(log) THEN ranInto(log, ofRounds(log), FALSE)
    ELSE IF roundRepeated(log) THEN "repeat-fix-round" ELSE "none"

\* nextRung, climbFrom: one rung up after a failure, none for a block
climbs(failure) == failure \notin {"none", "blocked"}
topReached(failure) == climbs(failure) /\ rung = Top
-----------------------------------------------------------------------------
(* The commands.                                                            *)

Log(list) == Len(events) + Len(list) <= MaxLog /\ events' = events \o list

\* Who names a model for the next window
By == {"nobody", "operator", "conductor"}

\* nextWindowRoute: a failure on the top rung is the operator's to decide
decides(by) == by = "operator"

\* MUTANT: a task on the top rung climbs on
RecordRoute_PastTop(failure) ==
    /\ rung' = IF climbs(failure) THEN rung + 1 ELSE rung
    /\ reason' = IF climbs(failure) THEN failure ELSE reason

\* recordSessionRoute
RecordRoute(failure) ==
    /\ rung' = IF climbs(failure) /\ rung < Top THEN rung + 1 ELSE rung
    /\ reason' = IF climbs(failure) /\ rung < Top THEN failure ELSE reason

WindowOpens == hit' = "nothing" /\ quiet' = FALSE

\* launchTask, of a task whose newest session was killed
Relaunch(by) ==
    /\ state = "killed"
    /\ LET failure == windowFailure(events, quiet)
       IN /\ topReached(failure) => decides(by)
          /\ RecordRoute(failure)
    /\ events' = <<>> /\ state' = "running" /\ roundRan' = FALSE /\ repeats' = FALSE
    /\ WindowOpens
    /\ UNCHANGED torn

\* The window is open whether or not the paste lands
Respawned(isDelivered) == IF isDelivered THEN <<"respawn">> ELSE <<"undelivered">>

\* relaunchWindow: the route, the window, then the event that bounds it
Respawn(by, isDelivered) ==
    /\ state = "running"
    /\ LET failure == windowFailure(events, quiet)
       IN /\ topReached(failure) => by # "nobody"
          /\ RecordRoute(failure)
    /\ Log(Respawned(isDelivered))
    /\ WindowOpens
    /\ UNCHANGED <<state, roundRan, repeats, torn>>

\* It is killed after the route and before the event: the failure still counts
RespawnDies ==
    /\ state = "running"
    /\ LET failure == windowFailure(events, quiet)
       IN ~topReached(failure) /\ RecordRoute(failure)
    /\ torn' = TRUE
    /\ WindowOpens
    /\ UNCHANGED <<events, state, roundRan, repeats>>

\* relaunchWorker: the event, and the route only once the kickoff landed
FixRound(by) ==
    /\ state = "merged"
    /\ LET failure == fixRoundFailure(events)
       IN /\ topReached(failure) => decides(by)
          /\ RecordRoute(failure)
    /\ Log(<<"fix_round", "respawn">>)
    /\ state' = "running" /\ roundRan' = TRUE
    /\ WindowOpens
    /\ UNCHANGED <<repeats, torn>>

\* A round whose kickoff never landed is undone, back to merged
FixRoundUndone(by) ==
    /\ state = "merged"
    /\ topReached(fixRoundFailure(events)) => decides(by)
    /\ Log(<<"fix_round", "undelivered">>)
    /\ UNCHANGED <<rung, reason, state, quiet, hit, roundRan, repeats, torn>>

\* killSession: a round's goes back to merged. windowFailureOf measures a stall
\* at the kill of a window that was running
Kill ==
    /\ state \in {"running", "blocked"}
    /\ state' = IF \E i \in DOMAIN events : events[i] = "fix_round"
                   /\ \A j \in i .. Len(events) : events[j] # "merge"
                THEN "merged" ELSE "killed"
    /\ quiet' = (quiet /\ state = "running")
    /\ UNCHANGED <<rung, reason, events, hit, roundRan, repeats, torn>>

\* The gate and the watchdog append what a window ran into
Reject ==
    /\ state = "running" /\ Log(<<"rejected">>)
    /\ hit' = IF hit = "nothing" THEN "failure" ELSE hit
    /\ UNCHANGED <<rung, reason, state, quiet, roundRan, repeats, torn>>

TurnDied ==
    /\ state = "running" /\ Log(<<"turn_died">>)
    /\ hit' = IF hit = "nothing" THEN "failure" ELSE hit
    /\ UNCHANGED <<rung, reason, state, quiet, roundRan, repeats, torn>>

Park ==
    /\ state = "running" /\ Log(<<"rejected", "blocked">>)
    /\ state' = "blocked" /\ hit' = "block"
    /\ UNCHANGED <<rung, reason, quiet, roundRan, repeats, torn>>

Unblock ==
    /\ state = "blocked" /\ state' = "running"
    /\ UNCHANGED <<rung, reason, events, quiet, hit, roundRan, repeats, torn>>

MergePr ==
    /\ state = "running" /\ Log(<<"merge">>)
    /\ state' = "merged" /\ repeats' = (repeats \/ roundRan) /\ roundRan' = FALSE
    /\ UNCHANGED <<rung, reason, quiet, hit, torn>>

\* The hooks stop firing for ten minutes, or fire again
Quieten ==
    /\ state = "running" /\ quiet' = ~quiet
    /\ UNCHANGED <<rung, reason, events, state, hit, roundRan, repeats, torn>>

RoutingNext ==
    \/ \E by \in By : \/ Relaunch(by) \/ FixRound(by) \/ FixRoundUndone(by)
                      \/ \E isDelivered \in BOOLEAN : Respawn(by, isDelivered)
    \/ RespawnDies \/ Kill \/ Reject \/ TurnDied \/ Park \/ Unblock \/ MergePr \/ Quieten
-----------------------------------------------------------------------------
(* Properties.                                                              *)

Routes == subject = "routing"

\* A relaunch or a respawn runs one rung higher exactly when the window it
\* replaces failed or stalled, was not parked, and was not on the top rung: no
\* failure is paid for twice, and none is forgotten, whatever respawns, rounds
\* and unblocks came between. Told from what happened to the window, not from
\* the events read back. A command killed between the route and its event pays
\* twice, which is left out (windowFailure, relaunchWindow).
OneFailureOneRung ==
    [][(Routes /\ ~torn /\ (\/ state = "killed" /\ state' = "running"
                           \/ events' \in {Append(events, "respawn"),
                                          Append(events, "undelivered")})) =>
          rung' - rung = IF (hit = "failure" \/ (hit = "nothing" /\ quiet)) /\ rung < Top
                         THEN 1 ELSE 0]_routingVars

\* A fix round climbs when it repeats one a merge ended, or retries one whose
\* window opened and failed, and a round that was undone before its kickoff
\* landed never costs a rung (fixRoundFailure; decision 92).
RoundsClimbOnRepeats ==
    [][(Routes /\ ~torn /\ state = "merged" /\ state' = "running") =>
          rung' - rung = IF (IF roundRan THEN hit = "failure" ELSE repeats) /\ rung < Top
                         THEN 1 ELSE 0]_routingVars

\* No window opens on the top rung after a failure there but by an operator
\* who names its model: not the conductor, and not a respawn that keeps the
\* model it had (nextWindowRoute).
TopRungIsTheOperators ==
    [][(Routes /\ ~torn /\ rung = Top) => \A who \in By \ {"operator"} :
          /\ state = "killed" /\ hit = "failure" => ~Relaunch(who)
          /\ state = "merged" /\ repeats /\ ~roundRan => ~FixRound(who)]_routingVars

\* A rung is paid for by the window it is about, once, and the top one is the
\* operator's to repeat (nextWindowRoute).
RungsAreEarned == OneFailureOneRung /\ RoundsClimbOnRepeats /\ TopRungIsTheOperators
=============================================================================
