------------------------------- MODULE Inbox -------------------------------
(***************************************************************************)
(* What `pup status` and `pup ui` say of a session (dashboard.service.ts):  *)
(* the line of the needs-you inbox, read off its row, its log of events,    *)
(* the age of its events file and, for an open pull request, git. Nothing   *)
(* stores that a session waits on somebody: each reader works it out.       *)
(* A command is one step, or is killed between two of its writes (Cut).     *)
(***************************************************************************)
EXTENDS Subject, Integers, Sequences, SequencesExt, FiniteSetsExt

CONSTANTS
    MaxLogged,  \* bound: events added to the log
    MaxTip      \* bound: commits of others on the target

ASSUME InboxAssumption == {MaxLogged, MaxTip} \subseteq Nat

VARIABLES
    rowState,        \* the session's state
    eventLog,        \* its events, oldest first
    silent,      \* no hook has fired for as long as the stall bar
    conductor,  \* does a conductor run
    targetAt,     \* the target's tip: others' commits, and the gated ones it holds
    cache,      \* LANDING_CACHE: what git said of each gated commit
    line,       \* the inbox's line at the last look, "unread" once anything moved
    unanswered, \* history: a question stands, and nobody has typed since
    bumped,     \* history: but a resume or a request for a handoff was
    standing,   \* history: the gate's refusal on debt stands
    why,        \* history: the reason of the block
    wounds,     \* history: what the session's window ran into
    pinned,     \* history: the gated commit of the PR that is open, 0 for none
    odd         \* history: a command was cut, or the target rewound

storeVars == <<rowState, eventLog>>
worldVars == <<silent, conductor, targetAt>>
seenVars == <<cache, line>>
truthVars == <<unanswered, bumped, standing, why, wounds, pinned, odd>>
inboxVars == <<storeVars, worldVars, seenVars, truthVars>>

Gated == 1 .. 2
Before == IF given \in {"merged", "lifted"} THEN 1 ELSE 0
Kind == {"question", "blocked", "top-rung", "stalled", "awaiting-review", "pr-open"}
Tip == [others : 0 .. MaxTip, holds : SUBSET Gated]
NoTip == [others |-> -1, holds |-> {}]
Unasked == [landed |-> FALSE, tip |-> NoTip]

InboxTypeOK ==
    /\ rowState \in {"running", "awaiting-review", "blocked", "rejected", "merged", "killed",
                "relaunched"}
    /\ Len(eventLog) <= MaxLogged + Before
    /\ {silent, conductor} \subseteq BOOLEAN
    /\ targetAt \in Tip
    /\ cache \in [Gated -> [landed : BOOLEAN, tip : Tip \cup {NoTip}]]
    /\ \A n \in Gated : n \notin cache[n].tip.holds  \* what is kept of a tip is what git says of it
    /\ line \in Kind \cup {"none", "unread"}
    /\ {unanswered, bumped, standing} \subseteq BOOLEAN
    /\ why \in {"none", "cap", "unreached"}
    /\ wounds \subseteq {"failed", "blocked"}
    /\ pinned \in Gated \cup {0} /\ odd \subseteq {"cut", "rewound"}

InboxStart(state, events, pr, hurt) ==
    /\ rowState = state /\ eventLog = events /\ pinned = pr /\ wounds = hurt /\ silent = FALSE /\ conductor = FALSE
    /\ targetAt = [others |-> 0, holds |-> {}] /\ cache = [n \in Gated |-> Unasked]
    /\ line = "unread"
    /\ unanswered = FALSE /\ bumped = FALSE /\ standing = FALSE /\ why = "none"
    /\ odd = {}

InboxRests == InboxStart("killed", <<>>, 0, {})

\* The session works on its ladder's top rung or below it, after a block that was
\* lifted, or has a PR open
InboxInit ==
    \/ given \in {"top", "below"} /\ InboxStart("running", <<>>, 0, {})
    \/ given = "merged" /\ InboxStart("merged", <<<<"merge", 1>>>>, 1, {})
    \/ given = "lifted" /\ InboxStart("running", <<<<"gate_result", "cap">>>>, 0, {"blocked"})
-----------------------------------------------------------------------------
(* The log, read from its newest event.                                     *)

NoEvent == <<"none", "none">>
newest(types) ==
    LET found == {i \in DOMAIN eventLog : eventLog[i][1] \in types}
    IN IF found = {} THEN NoEvent ELSE eventLog[Max(found)]

openQuestion == newest({"question", "steer"})[1] = "question"

\* MUTANT: new work leaves a refusal standing
newestGateRefused_Done == newest({"steer", "gate_result"}) = <<"gate_result", "refused">>

\* A steer answers it, new work is gated anew, any transition ends it
newestGateRefused ==
    newest({"steer", "session_done", "gate_result"}) = <<"gate_result", "refused">>

\* The gated commit of the PR that the newest merge opened; 0 when it opened none
openPullRequest ==
    LET merge == newest({"merge", "landed"}) IN IF merge[1] = "merge" THEN merge[2] ELSE 0

blocks == {i \in DOMAIN eventLog : eventLog[i] \in {<<"gate_result", "cap">>, <<"gate_result", "unreached">>}}

blockedReason == IF blocks = {} THEN "none" ELSE eventLog[Max(blocks)][2]

\* topRungFailure: a block is not the ladder's to climb from
topRungFailure ==
    /\ rowState = "killed" /\ given = "top"
    /\ blockedReason = "none"
    /\ \/ \E i \in DOMAIN eventLog : eventLog[i] = <<"gate_result", "rejected">> \/ eventLog[i][1] = "turn_died"
       \/ <<"gate_result", "killed, stalled">> \in Range(eventLog)
-----------------------------------------------------------------------------
(* What git says of an open PR.                                             *)

\* landedShaLookup: a landing is final; what is open is open until the tip moves
knownLanding(n) == cache[n].landed \/ cache[n].tip = targetAt

\* A walk that times out says the PR is open, and is asked again
isLanded(n, answers) == IF knownLanding(n) THEN cache[n].landed ELSE answers /\ n \in targetAt.holds

\* MUTANT: a walk that timed out is an answer
remembered_Always(n, answers) ==
    IF n = 0 \/ knownLanding(n) THEN cache
    ELSE [cache EXCEPT ![n] = IF isLanded(n, answers) THEN [landed |-> TRUE, tip |-> NoTip]
                              ELSE [landed |-> FALSE, tip |-> targetAt]]

remembered(n, answers) ==
    IF n = 0 \/ knownLanding(n) \/ ~answers THEN cache
    ELSE [cache EXCEPT ![n] = IF isLanded(n, answers) THEN [landed |-> TRUE, tip |-> NoTip]
                              ELSE [landed |-> FALSE, tip |-> targetAt]]
-----------------------------------------------------------------------------
\* needsYou: a review is the conductor's while one runs, but a refusal on debt is not
isOperators == newestGateRefused \/ ~conductor

\* What is read of a session, by the state it is in
dashboardSession ==
    [question |-> rowState = "running" /\ openQuestion,
     stalled |-> rowState = "running" /\ silent,
     review |-> rowState = "awaiting-review" /\ isOperators,
     pr |-> IF rowState = "merged" THEN openPullRequest ELSE 0]

\* needOf: the first of NEED_ORDER that holds
needOf(answers) ==
    LET session == dashboardSession
    IN IF session.question THEN "question"
       ELSE IF rowState = "blocked" THEN "blocked"
       ELSE IF topRungFailure THEN "top-rung"
       ELSE IF session.stalled THEN "stalled"
       ELSE IF session.review THEN "awaiting-review"
       ELSE IF session.pr # 0 /\ ~isLanded(session.pr, answers) THEN "pr-open"
       ELSE "none"

\* buildDashboardSnapshot, needsYou; git answers in time or not
Look(answers) ==
    /\ line = "unread"
    /\ line' = IF ~answers /\ needOf(answers) = "pr-open" THEN "unread" ELSE needOf(answers)
    /\ cache' = remembered(dashboardSession.pr, answers)
    /\ UNCHANGED <<storeVars, worldVars, truthVars>>
-----------------------------------------------------------------------------
(* The session, its window and its steers.                                  *)

Moves == line' = "unread" /\ UNCHANGED cache
Logs(events) == Len(eventLog) + Len(events) <= MaxLogged + Before /\ eventLog' = eventLog \o events
GateResult(to) == <<"gate_result", to>>
InRound == newest({"fix_round", "merge", "landed"})[1] = "fix_round"
Live == rowState \notin {"merged", "killed", "relaunched"}

\* pup session ask: a running session's, while it waits for the answer
AskOperator ==
    /\ rowState = "running" /\ ~unanswered /\ Logs(<<<<"question", "none">>>>)
    /\ unanswered' = TRUE /\ bumped' = FALSE
    /\ Moves /\ UNCHANGED <<rowState, worldVars, standing, why, wounds, pinned, odd>>

\* steerSession, recordSteerMessage
SteerSession ==
    /\ Live /\ Logs(<<<<"steer", "none">>>>)
    /\ unanswered' = FALSE /\ bumped' = FALSE /\ standing' = FALSE
    /\ Moves /\ UNCHANGED <<rowState, worldVars, why, wounds, pinned, odd>>

\* The watchdog's resume of a dead turn, or a request for a handoff
Resume(delivered) ==
    /\ rowState = "running" /\ silent
    /\ Logs(<<<<"turn_died", "none">>>> \o IF delivered THEN <<<<"steer", "none">>>> ELSE <<>>)
    /\ wounds' = wounds \cup {"failed"} /\ bumped' = (bumped \/ delivered)
    /\ Moves /\ UNCHANGED <<rowState, worldVars, unanswered, standing, why, pinned, odd>>

requestHandoff ==
    /\ rowState = "running" /\ unanswered /\ Logs(<<<<"steer", "none">>>>)
    /\ bumped' = TRUE
    /\ Moves /\ UNCHANGED <<rowState, worldVars, unanswered, standing, why, wounds, pinned, odd>>

\* pup session done: its event, then the transition, which a block refuses
Done ==
    /\ rowState \in {"running", "awaiting-review", "blocked"}
    /\ Logs(<<<<"session_done", "none">>>> \o
            IF rowState = "running" THEN <<GateResult("awaiting-review")>> ELSE <<>>)
    /\ rowState' = IF rowState = "running" THEN "awaiting-review" ELSE rowState
    /\ standing' = FALSE
    /\ Moves /\ UNCHANGED <<worldVars, unanswered, bumped, why, wounds, pinned, odd>>

Hook ==
    /\ silent /\ silent' = FALSE
    /\ Moves /\ UNCHANGED <<storeVars, conductor, targetAt, truthVars>>

Ages == ~silent /\ silent' = TRUE /\ Moves
        /\ UNCHANGED <<storeVars, conductor, targetAt, truthVars>>

ConductorTurns == conductor' = ~conductor /\ Moves
                  /\ UNCHANGED <<storeVars, silent, targetAt, truthVars>>
-----------------------------------------------------------------------------
(* The gate and the operator's commands.                                    *)

Refuse ==
    /\ rowState = "awaiting-review" /\ Logs(<<GateResult("refused")>>) /\ standing' = TRUE
    /\ Moves /\ UNCHANGED <<rowState, worldVars, unanswered, bumped, why, wounds, pinned, odd>>

\* rejectOrBlock: the cap, a re-steer that failed, or one that is an answer
RejectOrBlock(to) ==
    /\ rowState = "awaiting-review"
    /\ Logs(<<GateResult("rejected")>> \o (CASE to \in {"cap", "unreached"} -> <<GateResult(to)>>
                                       [] to = "running" -> <<<<"steer", "none">>, GateResult("running")>>
                                       [] to = "cut" -> <<>>))
    /\ rowState' = CASE to = "running" -> "running" [] to = "cut" -> "rejected" [] OTHER -> "blocked"
    /\ why' = IF to \in {"cap", "unreached"} THEN to ELSE why
    /\ wounds' = wounds \cup (IF to \in {"cap", "unreached"} THEN {"blocked"} ELSE {"failed"})
    /\ unanswered' = (unanswered /\ to # "running") /\ bumped' = (bumped /\ to # "running")
    /\ odd' = IF to = "cut" THEN odd \cup {"cut"} ELSE odd
    /\ standing' = FALSE
    /\ Moves /\ UNCHANGED <<worldVars, pinned>>

\* mergeSession: the transition, then recordMerge; a round's is of its PR
MergeSession(n, recorded) ==
    /\ rowState = "awaiting-review"
    /\ n = 0 => ~InRound
    /\ n # 0 => n = 1 + Cardinality({i \in DOMAIN eventLog : eventLog[i][1] = "merge" /\ eventLog[i][2] # 0})
    /\ Logs(<<GateResult("merged")>> \o IF recorded THEN <<<<"merge", n>>>> ELSE <<>>)
    /\ rowState' = "merged" /\ pinned' = n /\ standing' = FALSE
    /\ odd' = IF recorded THEN odd ELSE odd \cup {"cut"}
    /\ Moves /\ UNCHANGED <<worldVars, unanswered, bumped, why, wounds>>

\* pup fix: back to running, for the PR that is open
Fix ==
    /\ rowState = "merged" /\ openPullRequest # 0 /\ pinned # 0
    /\ Logs(<<GateResult("running"), <<"fix_round", "none">>>>) /\ rowState' = "running"
    /\ Moves /\ UNCHANGED <<worldVars, truthVars>>

UnblockSession ==
    /\ rowState = "blocked" /\ Logs(<<GateResult("running")>>) /\ rowState' = "running" /\ why' = "none"
    /\ Moves /\ UNCHANGED <<worldVars, unanswered, bumped, standing, wounds, pinned, odd>>

\* killSession: a round's goes back to merged, where its PR is still open
KillSession ==
    /\ Live
    /\ rowState' = IF InRound THEN "merged" ELSE "killed"
    /\ Logs(<<GateResult(IF InRound THEN "merged"
                   ELSE IF rowState = "running" /\ silent THEN "killed, stalled" ELSE "killed")>>)
    /\ wounds' = IF rowState = "running" /\ silent THEN wounds \cup {"failed"} ELSE wounds
    /\ standing' = FALSE
    /\ Moves /\ UNCHANGED <<worldVars, unanswered, bumped, why, pinned, odd>>

\* The task is launched again: this session is not its newest
LaunchAgain ==
    /\ rowState = "killed" /\ rowState' = "relaunched"
    /\ Moves /\ UNCHANGED <<eventLog, worldVars, truthVars>>

\* pup land, of a PR whose commits GitHub put on the target as they are or not
Land(asIs) ==
    /\ rowState = "merged" /\ pinned # 0 /\ openPullRequest # 0
    /\ Logs(<<<<"landed", "none">>>>)
    /\ targetAt' = IF asIs THEN [targetAt EXCEPT !.holds = @ \cup 1 .. pinned] ELSE targetAt
    /\ pinned' = 0
    /\ Moves /\ UNCHANGED <<rowState, silent, conductor, unanswered, bumped, standing, why,
                            wounds, odd>>

\* The operator clicks, then pulls; others land; the target is set back
Pull ==
    /\ rowState = "merged" /\ pinned # 0
    /\ targetAt' = [targetAt EXCEPT !.holds = @ \cup 1 .. pinned] /\ pinned' = 0
    /\ Moves /\ UNCHANGED <<storeVars, silent, conductor, unanswered, bumped, standing,
                            why, wounds, odd>>

Others ==
    /\ targetAt.others < MaxTip /\ targetAt' = [targetAt EXCEPT !.others = @ + 1]
    /\ Moves /\ UNCHANGED <<storeVars, silent, conductor, truthVars>>

Rewind ==
    /\ targetAt.others > 0 /\ "rewound" \notin odd
    /\ \E held \in SUBSET targetAt.holds : targetAt' = [others |-> targetAt.others - 1, holds |-> held]
    /\ odd' = odd \cup {"rewound"}
    /\ Moves /\ UNCHANGED <<storeVars, silent, conductor, unanswered, bumped, standing,
                            why, wounds, pinned>>

InboxNext ==
    \/ \E answers \in BOOLEAN : Look(answers)
    \/ AskOperator \/ SteerSession \/ requestHandoff \/ Done \/ Hook \/ Ages \/ ConductorTurns
    \/ \E delivered \in BOOLEAN : Resume(delivered)
    \/ Refuse \/ \E to \in {"running", "cap", "unreached", "cut"} : RejectOrBlock(to)
    \/ \E n \in Gated \cup {0}, recorded \in BOOLEAN : MergeSession(n, recorded)
    \/ Fix \/ UnblockSession \/ KillSession \/ LaunchAgain
    \/ \E asIs \in BOOLEAN : Land(asIs)
    \/ Pull \/ Others \/ Rewind
-----------------------------------------------------------------------------
(* Properties.                                                              *)

LookedAt == subject = "inbox" /\ line # "unread"

\* Whoever waits on the operator has a line that says so: a question nobody has
\* answered, a block, a stall, a refusal on debt or a review nobody else will
\* do, an open PR, a task that failed on its top rung. Excepted are a question
\* that a resume or a request for a handoff was typed onto, and a session whose
\* command was killed between two writes (needOf, NEED_ORDER; decision 83).
NobodyWaitsUnseen ==
    LookedAt /\ "cut" \notin odd =>
        /\ rowState = "running" /\ unanswered /\ ~bumped => line = "question"
        /\ rowState = "running" /\ silent => line \in {"question", "stalled"}
        /\ rowState = "blocked" => line = "blocked"
        /\ rowState = "awaiting-review" /\ (standing \/ ~conductor) => line = "awaiting-review"
        /\ rowState = "merged" /\ pinned # 0 /\ "rewound" \notin odd => line = "pr-open"
        /\ rowState = "killed" /\ given = "top" /\ wounds = {"failed"} => line = "top-rung"

\* And nobody is sent to what is settled: a question that was answered, a
\* refusal that work or a steer came after, a PR that has landed or that the
\* target holds, whatever git said of it before (openQuestion,
\* newestGateRefused, landedShaLookup).
NothingSettledIsSeen ==
    LookedAt =>
        /\ line = "question" => unanswered
        /\ line = "awaiting-review" => standing \/ ~conductor
        /\ line = "pr-open" /\ "rewound" \notin odd =>
              pinned # 0 /\ openPullRequest \notin targetAt.holds
        /\ line = "top-rung" => "failed" \in wounds

\* `pup unblock` and the dashboard tell the reason of the block the session is
\* in, not of one it was lifted from (blockedReason).
BlockIsTold ==
    subject = "inbox" /\ rowState = "blocked" => blockedReason = why

\* The inbox lists whoever waits on the operator, nobody else, and says why
\* (needsYou, blockedReason).
InboxIsTrue == NobodyWaitsUnseen /\ NothingSettledIsSeen /\ BlockIsTold
=============================================================================
