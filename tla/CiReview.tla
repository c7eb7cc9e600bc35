------------------------------ MODULE CiReview ------------------------------
(***************************************************************************)
(* The CI's review of a pull request and what pup reads of it: the workflow *)
(* (tools/review: preflight, poster, metrics) reviews a head in full or the *)
(* delta since a head it reviewed, posts a review, pins a status to the     *)
(* head and records the run; `pup ci wait` (ci-wait.service.ts) and `pup    *)
(* fix` (fix-round.service.ts) read the PR through github.client.ts and say *)
(* what comes next. Pushes and the owner's comments come meanwhile. The PR  *)
(* stays open: its end is in PullRequest.                                   *)
(***************************************************************************)
EXTENDS Subject, Integers, Sequences, SequencesExt, FiniteSets, FiniteSetsExt

CONSTANTS
    MaxPushes,   \* bound: heads the PR has
    MaxComments,  \* bound: `@claude review` comments of the owner
    MaxMishaps,   \* bound: runs, posts and calls that fail, findings edited
    MaxFindings   \* bound: findings a review can anchor

ASSUME CiReviewAssumption ==
    MaxPushes \in Nat \ {0} /\ {MaxComments, MaxMishaps, MaxFindings} \subseteq Nat

VARIABLES
    pull,        \* the PR: its head, and the commit the gate pinned
    commits,     \* its commits so far: the parent of each and what it changes
    reviews,     \* the bot's, since the one with a body before the newest
    headStatus,  \* the claude-review status of the head
    asked,       \* the head's status is older than a comment that asks
    untrusted,   \* the findings hidden, or edited by an account that is not the bot's
    ciRun,       \* the run that holds the concurrency group, or IdleRun
    pendingRun,  \* the one run that waits for it, or "none"
    prior,       \* ci/review-metrics: the head of the newest complete record, or 0
    posted,      \* history: a run of the head has posted its review
    read,        \* history: the commits a posted, complete review has read
    shown,        \* history: the findings the newest posted review anchored
    unsaid,      \* history: a verdict that was recorded could not be posted
    mishaps,     \* bound: what MaxMishaps counts
    comments     \* bound: what MaxComments counts

prVars == <<pull, commits>>
githubVars == <<reviews, headStatus, asked, untrusted>>
ciVars == <<ciRun, pendingRun, prior, posted, read, shown, unsaid>>
reviewVars == <<prVars, githubVars, ciVars, mishaps, comments>>

Commit == 1 .. MaxPushes
Trigger == {"push", "comment", "full", "partial"}
StatusWord == {"clean", "important", "partial", "no verdict", "comment-only"}
IdleRun == [place |-> "idle"]
NoStatus == [state |-> "none", word |-> "none"]
Finding == 1 .. MaxFindings

CiReviewTypeOK ==
    /\ {pull.head, pull.pin} \subseteq DOMAIN commits
    /\ commits \in Seq([parent : 0 .. MaxPushes, kind : {"code", "prose"}])
    /\ reviews \in Seq([on : Commit, body : BOOLEAN, threads : SUBSET Finding])
    /\ headStatus \in [state : {"none", "PENDING", "SUCCESS", "FAILURE"}, word : StatusWord \cup {"none"}]
    /\ asked \in BOOLEAN /\ posted \in BOOLEAN /\ read \subseteq Commit /\ unsaid \in BOOLEAN
    /\ {shown, untrusted} \subseteq SUBSET Finding
    /\ ciRun.place \in {"idle", "start", "review", "post", "each", "body", "status", "record"}
    /\ pendingRun \in Trigger \cup {"none"}
    /\ prior \in 0 .. MaxPushes
    /\ mishaps \in 0 .. MaxMishaps /\ comments \in 0 .. MaxComments

\* A set of commits with the parents of each
HoldsParents(past) == \A c \in past : commits[c].parent \in past \cup {0}

\* A commit and all it was made on: what is in every such set with it
Ancestors(c) ==
    {a \in DOMAIN commits :
        \A past \in SUBSET DOMAIN commits :
            HoldsParents(past) /\ c \in past \cup {0} => a \in past}

CiReviewInit ==
    /\ given = "cireview"
    /\ commits = <<[parent |-> 0, kind |-> "code"]>>
    /\ pull = [head |-> 1, pin |-> 1]
    /\ reviews = <<>> /\ headStatus = NoStatus /\ asked = FALSE /\ untrusted = {}
    /\ ciRun = [place |-> "start", trigger |-> "push", waited |-> FALSE] /\ pendingRun = "none" /\ prior = 0
    /\ posted = FALSE /\ read = {} /\ shown = {} /\ unsaid = FALSE /\ mishaps = 0 /\ comments = 0

CiReviewRests ==
    /\ pull = [head |-> 1, pin |-> 1] /\ commits = <<>>
    /\ reviews = <<>> /\ headStatus = NoStatus /\ asked = FALSE /\ untrusted = {}
    /\ ciRun = IdleRun /\ pendingRun = "none" /\ prior = 0
    /\ posted = FALSE /\ read = {} /\ shown = {} /\ unsaid = FALSE
    /\ mishaps = 0 /\ comments = 0
-----------------------------------------------------------------------------
(* The PR, and the runs it triggers. The group keeps one run that waits.     *)

Triggered(trigger) ==
    IF ciRun = IdleRun
    THEN ciRun' = [place |-> "start", trigger |-> trigger, waited |-> FALSE] /\ UNCHANGED pendingRun
    ELSE pendingRun' = trigger /\ UNCHANGED ciRun

\* A push on the head, or a rewrite of it; the gate's own pins what it pushes
Push ==
    /\ Len(commits) < MaxPushes
    /\ \E kind \in {"code", "prose"}, parent \in {pull.head, commits[pull.head].parent} :
          commits' = Append(commits, [parent |-> parent, kind |-> kind])
    /\ \E pin \in {pull.pin, Len(commits')} : pull' = [head |-> Len(commits'), pin |-> pin]
    /\ Triggered("push") /\ headStatus' = NoStatus /\ asked' = FALSE /\ posted' = FALSE
    /\ UNCHANGED <<reviews, untrusted, prior, read, shown, unsaid, mishaps, comments>>

\* The owner's comment: of a standard review, a full one, or of some areas
Comment ==
    /\ comments < MaxComments /\ comments' = comments + 1
    /\ asked' = (headStatus # NoStatus)
    /\ \E trigger \in {"comment", "full", "partial"} : Triggered(trigger)
    /\ UNCHANGED <<prVars, reviews, headStatus, untrusted, prior, posted, read, shown, unsaid, mishaps>>

\* Somebody with write access edits or hides a finding of the bot's
EditFinding ==
    /\ mishaps < MaxMishaps /\ mishaps' = mishaps + 1
    /\ \E i \in DOMAIN reviews : \E finding \in reviews[i].threads \ untrusted :
          untrusted' = untrusted \cup {finding}
    /\ UNCHANGED <<prVars, reviews, headStatus, asked, ciVars, comments>>

\* The run that waits takes the group
RunEnded ==
    /\ ciRun' = IF pendingRun = "none" THEN IdleRun
               ELSE [place |-> "start", trigger |-> pendingRun, waited |-> TRUE]
    /\ pendingRun' = "none"
-----------------------------------------------------------------------------
(* The preflight.                                                           *)

\* What the newest complete head leaves to read
Delta == Ancestors(pull.head) \ Ancestors(prior)

\* decideMode. A merge of the target is taken for a rewrite: both are read anew.
decideMode(trigger) ==
    IF prior = 0 THEN "full"
    ELSE IF prior = pull.head THEN (IF trigger = "push" THEN "skip-duplicate" ELSE "full")
    ELSE IF trigger = "full" \/ prior \notin Ancestors(pull.head) THEN "full"
    ELSE IF trigger = "push" /\ \A c \in Delta : commits[c].kind = "prose" THEN "skip-comment-only"
    ELSE "incremental"

Mishap == mishaps < MaxMishaps /\ mishaps' = mishaps + 1

MaybeMishap(fails) == IF fails THEN Mishap ELSE UNCHANGED mishaps

\* setCommitStatus: the newest status of the commit, or a warning
setCommitStatus(c, status, fails) ==
    /\ MaybeMishap(fails)
    /\ IF fails \/ c # pull.head THEN UNCHANGED <<headStatus, asked>>
       ELSE headStatus' = status /\ asked' = FALSE

\* A run past its preflight, with what it is to read
Run(place, sha, reads) ==
    [place |-> place, trigger |-> ciRun.trigger, waited |-> ciRun.waited, sha |-> sha,
     partial |-> ciRun.trigger = "partial", reads |-> reads, verdict |-> FALSE, found |-> FALSE,
     anchored |-> {}, isPosted |-> FALSE]

\* A head that waits for the next code push
markNotReviewed ==
    \E fails \in BOOLEAN : setCommitStatus(pull.head, [state |-> "PENDING", word |-> "comment-only"], fails)

\* The head is checked out, and what to review of it decided
Preflight ==
    /\ ciRun.place = "start"
    /\ LET mode == decideMode(ciRun.trigger)
       IN CASE mode = "skip-duplicate" -> RunEnded /\ UNCHANGED <<headStatus, asked, mishaps>>
            [] mode = "skip-comment-only" ->
                  RunEnded /\ markNotReviewed
            [] OTHER ->
                  /\ ciRun' = Run("review", pull.head, IF mode = "full" THEN Ancestors(pull.head)
                                                       ELSE Delta)
                  /\ UNCHANGED <<pendingRun, headStatus, asked, mishaps>>
    /\ UNCHANGED <<prVars, reviews, untrusted, prior, posted, read, shown, unsaid, comments>>

\* A run whose runner is lost says nothing
RunLost ==
    /\ ciRun # IdleRun /\ Mishap /\ RunEnded
    /\ UNCHANGED <<prVars, githubVars, prior, posted, read, shown, unsaid, comments>>

\* A push races the preflight, which fails before it names a head
PreflightFails ==
    /\ ciRun.place = "start" /\ Mishap
    /\ ciRun' = Run("post", 0, {})
    /\ UNCHANGED <<prVars, githubVars, pendingRun, prior, posted, read, shown, unsaid, comments>>

\* The review step: what it finds, and which of its findings have a line in the
\* diff (noVerdictReason, prepare). One that did not succeed anchors nothing.
Review ==
    /\ ciRun.place = "review"
    /\ \E verdict \in BOOLEAN, found \in BOOLEAN, n \in 0 .. MaxFindings :
          /\ ~verdict => ~found
          /\ ~found => n = 0
          /\ MaybeMishap(~verdict)
          /\ ciRun' = [ciRun EXCEPT !.place = "post", !.verdict = verdict, !.found = found,
                                    !.anchored = 1 .. n]
    /\ UNCHANGED <<prVars, githubVars, pendingRun, prior, posted, read, shown, unsaid, comments>>
-----------------------------------------------------------------------------
(* The poster: the only writer.                                             *)

Reviewed(on, body, threads) ==
    /\ reviews' = Append(IF reviews # <<>> /\ Last(reviews).body THEN <<>> ELSE reviews,
                         [on |-> on, body |-> body, threads |-> threads])
    /\ untrusted' = untrusted \ threads

\* The review as one call, on whatever head the PR has by then
PostReview ==
    /\ ciRun.place = "post"
    /\ Reviewed(pull.head, TRUE, ciRun.anchored)
    /\ ciRun' = [ciRun EXCEPT !.place = "status", !.isPosted = TRUE]
    /\ shown' = ciRun.anchored /\ posted' = (posted \/ ciRun.sha = pull.head)
    /\ UNCHANGED <<prVars, headStatus, asked, pendingRun, prior, read, unsaid, mishaps, comments>>

\* It fails: each comment goes alone, on the reviewed head
PostFails ==
    /\ ciRun.place = "post" /\ Mishap
    /\ ciRun' = [ciRun EXCEPT !.place = "each"]
    /\ UNCHANGED <<prVars, githubVars, pendingRun, prior, posted, read, shown, unsaid, comments>>

\* postEach: one more comment is accepted, in order, or the rest are not
PostEach ==
    /\ ciRun.place = "each"
    /\ \/ /\ ciRun.anchored # {}
          /\ Reviewed(ciRun.sha, FALSE, {Min(ciRun.anchored)})
          /\ ciRun' = [ciRun EXCEPT !.anchored = @ \ {Min(@)}, !.isPosted = TRUE]
          /\ shown' = (IF ciRun.isPosted THEN shown ELSE {}) \cup {Min(ciRun.anchored)}
       \/ ciRun' = [ciRun EXCEPT !.place = "body"] /\ UNCHANGED <<reviews, untrusted, shown>>
    /\ UNCHANGED <<prVars, headStatus, asked, pendingRun, prior, posted, read, unsaid, mishaps, comments>>

\* The body alone, with the findings that were not accepted; or nothing
PostBody ==
    /\ ciRun.place = "body"
    /\ \E fails \in BOOLEAN :
          /\ MaybeMishap(fails)
          /\ IF fails THEN UNCHANGED <<reviews, untrusted, shown, posted>>
             ELSE /\ posted' = (posted \/ ciRun.sha = pull.head)
                  /\ Reviewed(pull.head, TRUE, {})
                  /\ shown' = IF ciRun.isPosted /\ pull.head = ciRun.sha THEN shown ELSE {}
          /\ ciRun' = [ciRun EXCEPT !.place = "status", !.isPosted = ~fails]
    /\ UNCHANGED <<prVars, headStatus, asked, pendingRun, prior, read, unsaid, comments>>

\* MUTANT: a review that could not be posted gets the status of its findings
failed_Unread == ~ciRun.verdict

failed == ~ciRun.verdict \/ ~ciRun.isPosted

\* The status of the round, on the head it reviewed when it knows it
Outcome ==
    IF failed THEN [state |-> "FAILURE", word |-> "no verdict"]
    ELSE [state |-> "SUCCESS",
          word |-> IF ciRun.partial THEN "partial" ELSE IF ciRun.found THEN "important" ELSE "clean"]

SetStatus ==
    /\ ciRun.place = "status"
    /\ IF ciRun.sha = 0 THEN UNCHANGED <<headStatus, asked, mishaps>>
       ELSE \E fails \in BOOLEAN : setCommitStatus(ciRun.sha, Outcome, fails)
    /\ read' = read \cup (IF ciRun.verdict /\ ciRun.isPosted /\ ~ciRun.partial THEN ciRun.reads ELSE {})
    /\ unsaid' = (unsaid \/ (ciRun.verdict /\ ~ciRun.isPosted))
    /\ ciRun' = [ciRun EXCEPT !.place = "record"]
    /\ UNCHANGED <<prVars, reviews, untrusted, pendingRun, prior, posted, shown, comments>>

\* newestCleanRecord: no prior without a verdict, nor of some areas alone
complete == ciRun.sha # 0 /\ ciRun.verdict /\ ~ciRun.partial

\* priorRecords: the group does not hold the job that persists the record, and
\* one that comes too late for the next run is as if it never came
priorRecords == IF complete THEN {prior, ciRun.sha} ELSE {prior}

\* review-metrics, and the job that persists its record
Record ==
    /\ ciRun.place = "record"
    /\ prior' \in priorRecords
    /\ RunEnded
    /\ UNCHANGED <<prVars, githubVars, posted, read, shown, unsaid, mishaps, comments>>

CiReviewNext ==
    \/ Push \/ Comment \/ EditFinding
    \/ Preflight \/ PreflightFails \/ RunLost \/ Review
    \/ PostReview \/ PostFails \/ PostEach \/ PostBody \/ SetStatus \/ Record
-----------------------------------------------------------------------------
(* What pup reads, in one query.                                            *)

\* newestReviewRun: the newest, and those without a body just before it on the
\* same commit
newestReviewRun ==
    {i \in DOMAIN reviews :
        \A j \in i .. Len(reviews) : j = Len(reviews)
            \/ (~reviews[j].body /\ reviews[j].on = reviews[Len(reviews)].on)}

openThreads == UNION {reviews[i].threads : i \in newestReviewRun}
isOnHead == reviews # <<>> /\ reviews[Len(reviews)].on = pull.head

isRereviewAsked == headStatus # NoStatus /\ asked

\* reviewDigest: what `pup ci wait` ends with, or that it waits
reviewDigest ==
    IF pull.head # pull.pin THEN "re-gate"
    ELSE IF isRereviewAsked THEN "waits"
    ELSE IF headStatus.word = "comment-only" THEN "not reviewed"
    ELSE IF headStatus.state = "FAILURE" THEN "re-run"
    ELSE IF headStatus.state # "SUCCESS" \/ ~isOnHead THEN "waits"
    ELSE IF openThreads # {} THEN "fix"
    ELSE IF headStatus.word = "clean" THEN "ready" ELSE "read the PR"

isTrusted == openThreads \cap untrusted = {}

\* reviewVerdict: the threads `pup fix` hands a worker, none when the head is
\* clean; {0} stands for a refusal
reviewVerdict ==
    IF /\ pull.head = pull.pin /\ isOnHead /\ isTrusted
       /\ headStatus.state = "SUCCESS" /\ (openThreads # {} \/ headStatus.word = "clean")
    THEN openThreads ELSE {0}
-----------------------------------------------------------------------------
(* Properties.                                                              *)

Reviewing == subject = "cireview"

\* The wait calls a head ready for its merge only when every commit of it was
\* read by a complete review that was posted, whatever was reviewed piecemeal,
\* skipped, rewritten or asked for in part. A verdict that could not be posted
\* is recorded as if it had been, and breaks this (decideMode, newestCleanRecord).
ReadyIsRead ==
    Reviewing /\ reviewDigest = "ready" /\ ~unsaid => Ancestors(pull.head) \subseteq read

\* A run that halts never reads as a clean review: a run of a head with a
\* final status has posted its review (main's finally).
StatusHasItsReview ==
    Reviewing /\ headStatus.state = "SUCCESS" => posted

\* The wait never ends on a verdict that a review the owner asked for is about
\* to replace (isReviewAskedSince). One asked for while another run is under way
\* is forgotten once that run sets its status, so those are not among them.
AnswerIsTheLastWord ==
    Reviewing /\ ciRun.place \notin {"idle", "record"} /\ ciRun.trigger # "push" /\ ~ciRun.waited =>
        reviewDigest \notin {"fix", "ready", "read the PR", "not reviewed"}

\* The step the wait names is one the next command takes: `pup fix` refuses
\* neither a fix nor a head it is told is clean (reviewDigest, reviewVerdict). But
\* where a finding was edited or hidden the wait names a fix all the same, and it
\* is refused: no such text is handed to a worker.
NamedStepIsTaken ==
    Reviewing =>
        /\ reviewDigest = "fix" => reviewVerdict # {} /\ (reviewVerdict = {0} <=> ~isTrusted)
        /\ reviewVerdict = {0} \/ reviewVerdict \cap untrusted = {}
        /\ reviewDigest = "ready" => reviewVerdict = {}

\* A fix round gets every finding the newest review anchored, though GitHub took
\* them one at a time, and a wait passes none over (newestReviewRun): unless that
\* review is being posted, on a head that has its status from a run before. A round
\* is started with all of them or, where one was edited or hidden, not at all.
RoundGetsTheWholeRun ==
    Reviewing /\ ciRun.place \notin {"each", "body", "status"} =>
        /\ reviewDigest = "fix" => shown \subseteq reviewVerdict \/ reviewVerdict = {0}
        /\ reviewDigest \in {"ready", "read the PR"} => shown = {}

\* What `pup ci wait` says of a head is true of the reviews that were given, and
\* what it says comes next is what `pup fix` takes (reviewDigest, reviewVerdict).
WaitIsTrue ==
    /\ ReadyIsRead /\ StatusHasItsReview /\ AnswerIsTheLastWord
    /\ NamedStepIsTaken /\ RoundGetsTheWholeRun
=============================================================================
