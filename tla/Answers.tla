------------------------------ MODULE Answers ------------------------------
(***************************************************************************)
(* The answers a gated fix round posts on GitHub (answerFixRoundThreads in  *)
(* fix-round.service.ts, called by the gate's replyOnFixRoundThreads): which *)
(* round the newest merge ended, what the worker's summaries said of each   *)
(* thread, which files the round changed, and the calls those come to, any  *)
(* of which the budget can cut off. A file's content is the set of changes  *)
(* it holds, the worker's and the target's, so a merge of two is a union.   *)
(***************************************************************************)
EXTENDS Subject, Integers, Sequences, SequencesExt, FiniteSets, FiniteSetsExt

CONSTANTS
    Threads,      \* the threads of the PR, each on the file of its number
    Instances,    \* bound: how many of them the reviews open, and fix rounds
    MaxSummaries, \* bound: `pup session done` in a round
    MaxCommits    \* bound: commits of the worker

ASSUME AnswersAssumption ==
    /\ Threads \in Nat \ {0} /\ {MaxSummaries, MaxCommits} \subseteq Nat
    /\ Instances \subseteq [threads : 0 .. Threads, rounds : Nat]

VARIABLES
    tip,      \* the branch: its sha and the content of its files
    target,   \* the content of the target's files
    gated,    \* the PR's head, which the gate pinned
    review,   \* the newest review: the sha it is on and the threads it opened
    prEvents,   \* its fix_round, session_done and merge events since the newest round
    rounds,   \* bound: how many so far
    inRound,  \* the session is out of merged, in a fix round
    answers,  \* the answering of the gate: its calls to come
    replies,  \* the replies pup posted on each thread
    resolved, \* the threads pup resolved
    summed,   \* the summary comments pup posted
    own,      \* history: the files the worker changed in the round, reverts undone
    cut       \* bound: a call was cut off

gitVars == <<tip, target, gated, own>>
onGitHub == <<replies, resolved, summed>>
answersVars == <<gitVars, onGitHub, review, prEvents, rounds, inRound, answers, cut>>

Thread == 1 .. Threads
ThreadContent == [Thread -> SUBSET {"worker", "target"}]
Word == {"nothing", "named", "fixed", "declined"}
Verdict == {"addressed", "unverified", "declined", "unanswered"}
NoContent == [f \in Thread |-> {}]

Event ==
    [type : {"fix_round"}, start : [sha : Nat, files : ThreadContent], threads : SUBSET Thread]
        \cup [type : {"session_done"}, says : [Thread -> Word]]
        \cup [type : {"merge"}, sha : Nat]

AnswersTypeOK ==
    /\ tip \in [sha : Nat, files : ThreadContent] /\ gated \in [sha : Nat, files : ThreadContent]
    /\ target \in ThreadContent /\ own \subseteq Thread
    /\ review \in [on : Nat, threads : SUBSET Thread]
    /\ prEvents \in Seq(Event) /\ rounds \in Nat /\ inRound \in BOOLEAN /\ cut \in BOOLEAN
    /\ \A next \in answers : next.call \in {"read", "reply", "resolve", "comment"}
    /\ replies \in [Thread -> Seq([sha : Nat, verdict : Verdict])]
    /\ resolved \subseteq Thread /\ summed \in Seq([sha : Nat, addressed : Nat])

AnswersRests ==
    /\ tip = [sha |-> 1, files |-> NoContent] /\ gated = tip
    /\ target = NoContent /\ own = {}
    /\ replies = [t \in Thread |-> <<>>] /\ resolved = {} /\ summed = <<>>
    /\ review = [on |-> 0, threads |-> {}]
    /\ prEvents = <<>> /\ rounds = 0 /\ inRound = FALSE /\ answers = {} /\ cut = FALSE

\* The gate opened the PR
AnswersInit ==
    /\ given \in Instances
    /\ AnswersRests
-----------------------------------------------------------------------------
(* The branch, the target and the review.                                   *)

Merged(a, b) == [f \in Thread |-> a[f] \cup b[f]]

Toggled(s, e) == IF e \in s THEN s \ {e} ELSE s \cup {e}

\* The worker commits: a change of a file or its revert, or one of the target's
\* it takes in by hand
WorkerCommits ==
    /\ inRound /\ answers = {} /\ tip.sha <= MaxCommits
    /\ \E f \in 1 .. given.threads :
          \/ /\ tip' = [sha |-> tip.sha + 1,
                        files |-> [tip.files EXCEPT ![f] = Toggled(@, "worker")]]
             /\ own' = Toggled(own, f)
          \/ /\ target[f] # {} /\ target[f] \notin SUBSET tip.files[f]
             /\ tip' = [sha |-> tip.sha + 1,
                        files |-> [tip.files EXCEPT ![f] = @ \cup target[f]]]
             /\ UNCHANGED own
    /\ UNCHANGED <<rounds, target, gated, onGitHub, review, prEvents, inRound, answers, cut>>

\* Another session's change lands on the target
TargetAdvances ==
    /\ \E f \in 1 .. given.threads : target[f] = {} /\ target' = [target EXCEPT ![f] = {"target"}]
    /\ UNCHANGED <<rounds, tip, gated, own, onGitHub, review, prEvents, inRound, answers, cut>>

\* The review bot reviews the head, and opens threads no review opened before
BotReviews ==
    /\ review.on # gated.sha /\ ~inRound
    /\ \E opened \in SUBSET {t \in 1 .. given.threads : t > Max(review.threads \cup {0})} :
          review' = [on |-> gated.sha, threads |-> opened]
    /\ UNCHANGED <<rounds, gitVars, onGitHub, prEvents, inRound, answers, cut>>

\* `pup fix`: the open threads of the newest review, which is of the head
StartRound ==
    /\ ~inRound /\ answers = {} /\ rounds < given.rounds /\ rounds' = rounds + 1
    /\ review.on = gated.sha /\ ~(review.threads \subseteq resolved)
    /\ prEvents' = <<[type |-> "fix_round", start |-> gated,
                  threads |-> review.threads \ resolved]>>
    /\ tip' = gated /\ inRound' = TRUE /\ own' = {}
    /\ UNCHANGED <<target, gated, onGitHub, review, answers, cut>>

Summaries(from) == {i \in DOMAIN prEvents : i > from /\ prEvents[i].type = "session_done"}

NewestOf(types) ==
    Max({i \in DOMAIN prEvents : prEvents[i].type \in types} \cup {0})

\* `pup session done`, with a word on one thread of the round, or on none
SessionDone ==
    /\ inRound /\ answers = {}
    /\ Cardinality(Summaries(NewestOf({"fix_round"}))) < MaxSummaries
    /\ \E t \in prEvents[NewestOf({"fix_round"})].threads, word \in Word :
          prEvents' = Append(prEvents, [type |-> "session_done",
                                    says |-> [u \in Thread |-> IF u = t THEN word ELSE "nothing"]])
    /\ UNCHANGED <<rounds, gitVars, onGitHub, review, inRound, answers, cut>>

\* `pup kill` undoes the round, and the branch is the pin again
KillRound ==
    /\ inRound /\ answers = {}
    /\ inRound' = FALSE /\ tip' = gated /\ own' = {}
    /\ UNCHANGED <<rounds, target, gated, onGitHub, review, prEvents, answers, cut>>

\* The fresh base takes the target in, then the gate pins the branch
Pinned(branch) ==
    LET files == Merged(branch.files, target)
    IN IF files = branch.files THEN branch ELSE [sha |-> branch.sha + 1, files |-> files]

Recorded(branch) ==
    /\ tip' = Pinned(branch) /\ gated' = Pinned(branch)
    /\ prEvents' = Append(prEvents, [type |-> "merge", sha |-> Pinned(branch).sha])

\* The gate of a session in its round, which answers next
GateRound ==
    /\ inRound /\ answers = {} /\ Last(prEvents).type = "session_done"
    /\ Recorded(tip) /\ inRound' = FALSE
    /\ answers' = {[call |-> "read", target |-> target]}
    /\ UNCHANGED <<rounds, target, own, onGitHub, review, cut>>

\* `pup merge --pr` of a merged session, which answers nothing
ReGate ==
    /\ ~inRound /\ answers = {} /\ Pinned(gated) # gated
    /\ Recorded(gated)
    /\ UNCHANGED <<rounds, target, own, onGitHub, review, inRound, answers, cut>>
-----------------------------------------------------------------------------
(* What the newest merge ended, and what the worker said in it.             *)

\* Where the round it ended begins among the events, or 0
roundTheNewestMergeEnded ==
    LET kinds == {"fix_round", "merge"}
        newest == NewestOf(kinds)
        before == Max({i \in 1 .. newest - 1 : prEvents[i].type \in kinds} \cup {0})
    IN IF before # 0 /\ prEvents[before].type = "fix_round" THEN before ELSE 0

\* MUTANT: the newest answer stands, whatever a later summary says of the thread
threadAnswers_Older(summaries, t) ==
    LET answering == {i \in summaries : prEvents[i].says[t] \in {"fixed", "declined"}}
    IN IF answering = {} THEN "unanswered" ELSE prEvents[Max(answering)].says[t]

\* The newest summary that names the thread answers for it, by its answer there
threadAnswers(summaries, t) ==
    LET naming == {i \in summaries : prEvents[i].says[t] # "nothing"}
    IN IF naming = {} \/ prEvents[Max(naming)].says[t] = "named" THEN "unanswered"
       ELSE prEvents[Max(naming)].says[t]

\* By content, against the target it was gated on merged into the round's start
filesTheRoundChanged(start, onTarget) ==
    {f \in Thread : gated.files[f] # Merged(start.files, onTarget)[f]}

threadVerdict(answered, isChanged) ==
    IF answered # "fixed" THEN answered ELSE IF isChanged THEN "addressed" ELSE "unverified"
-----------------------------------------------------------------------------
(* The calls.                                                               *)

\* A post carries a marker that names the sha, and is read back
isMarked(posts, sha) == \E i \in DOMAIN posts : posts[i].sha = sha

\* What the reading of GitHub and of git leaves to post: a reply on each thread of
\* the round, its resolution, and one comment
CallsFor(onTarget) ==
    LET round == prEvents[roundTheNewestMergeEnded]
        said == Summaries(roundTheNewestMergeEnded)
        changed == filesTheRoundChanged(round.start, onTarget)
        Answered(t) == threadVerdict(threadAnswers(said, t), t \in changed)
        addressed == {t \in round.threads : Answered(t) = "addressed"}
        unmarked == {t \in round.threads : ~isMarked(replies[t], gated.sha)}
    IN {[call |-> "reply", thread |-> t, verdict |-> Answered(t)] : t \in unmarked}
          \cup {[call |-> "resolve", thread |-> t] : t \in addressed \ resolved}
          \cup (IF isMarked(summed, gated.sha) THEN {}
                ELSE {[call |-> "comment", addressed |-> Cardinality(addressed)]})

\* Thread by thread, the reply first, and the comment last
Turn(call) ==
    CASE call.call = "reply" -> 2 * call.thread - 1
      [] call.call = "resolve" -> 2 * call.thread
      [] call.call = "comment" -> 2 * Threads + 1
IsNext(call) == \A other \in answers : Turn(call) <= Turn(other)

\* readThreadAnswers, once the round is known
Read(call) ==
    /\ call.call = "read"
    /\ answers' = IF roundTheNewestMergeEnded = 0 THEN {} ELSE CallsFor(call.target)
    /\ UNCHANGED <<rounds, gitVars, onGitHub, review, prEvents, inRound, cut>>

\* One call is answered
Posted(call) ==
    /\ replies' = IF call.call # "reply" THEN replies
                  ELSE [replies EXCEPT ![call.thread] =
                           Append(@, [sha |-> gated.sha, verdict |-> call.verdict])]
    /\ resolved' = IF call.call = "resolve" THEN resolved \cup {call.thread} ELSE resolved
    /\ summed' = IF call.call # "comment" THEN summed
                 ELSE Append(summed, [sha |-> gated.sha, addressed |-> call.addressed])

Post(call) ==
    /\ call.call # "read" /\ IsNext(call)
    /\ Posted(call) /\ answers' = answers \ {call}
    /\ UNCHANGED <<rounds, gitVars, review, prEvents, inRound, cut>>

\* No call follows one that was cut off
afterCut == {}

\* The budget, the buffer, a failing gh or a kill cuts a call off, which may have
\* reached GitHub
CutOff(call) ==
    /\ ~cut /\ cut' = TRUE
    /\ answers' = afterCut
    /\ \/ call.call # "read" /\ IsNext(call) /\ Posted(call)
       \/ UNCHANGED onGitHub
    /\ UNCHANGED <<rounds, gitVars, review, prEvents, inRound>>

AnswersNext ==
    \/ WorkerCommits \/ TargetAdvances \/ BotReviews
    \/ StartRound \/ SessionDone \/ KillRound \/ GateRound \/ ReGate
    \/ \E call \in answers : Read(call) \/ Post(call) \/ CutOff(call)
-----------------------------------------------------------------------------
(* Properties.                                                              *)

\* A thread is resolved under the operator's login only when the worker's last
\* word on it in the round was `fixed`, and the worker's own changes of that
\* round left its file other than they found it: neither a change of the target,
\* merged or taken by hand, nor one that was reverted, is enough
\* (filesTheRoundChanged, threadAnswers).
ResolvedIsEarned ==
    [][\A t \in resolved' \ resolved :
          /\ t \in own
          /\ \E i \in DOMAIN prEvents :
                /\ prEvents[i].type = "session_done" /\ prEvents[i].says[t] = "fixed"
                /\ \A j \in i + 1 .. Len(prEvents) :
                      prEvents[j].type = "session_done" => prEvents[j].says[t] = "nothing"]_answersVars

\* A thread gets one reply a head, and the PR one comment, however often the
\* head is gated and wherever an answering was cut (the marker).
AnsweredOncePerHead ==
    \A posts \in {summed} \cup {replies[t] : t \in Thread} :
        \A i, j \in DOMAIN posts : posts[i].sha = posts[j].sha => i = j

\* The comment that sums a round up is the last word on it: the threads it counts
\* as addressed have their reply and are resolved, though a call before it may
\* have been cut off (withinBudget).
SummaryIsTrue ==
    \A i \in DOMAIN summed :
        summed[i].addressed <=
            Cardinality({t \in resolved : \E j \in DOMAIN replies[t] :
                            replies[t][j] = [sha |-> summed[i].sha, verdict |-> "addressed"]})

\* What a round's answers say on GitHub is so, and is said once
\* (answerFixRoundThreads).
AnswersAreTrue == ResolvedIsEarned /\ []AnsweredOncePerHead /\ []SummaryIsTrue
=============================================================================
