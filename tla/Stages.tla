------------------------------- MODULE Stages -------------------------------
(***************************************************************************)
(* A measurement of a branch (measureBranch, merge-gate.service.ts): the    *)
(* build alone, then the test runs one after another in a test slot with    *)
(* everything else beside them, and the results read in one fixed order.    *)
(* A command is a child of GateChild; a slot is one of TestSlots.           *)
(***************************************************************************)
EXTENDS Subject, Integers, Sequences, SequencesExt, FiniteSets

CONSTANTS
    Packages  \* bound: nested packages the branch touches

ASSUME PackagesAssumption == Packages \in Nat

VARIABLES
    at,          \* the place of measureBranch, or its outcome
    job,         \* each job: "none", "queued", "runs", "reruns" or its result
    slot,        \* the test slot: "none", "waiting", "held", "without"
    coverage,    \* covered's scratch directory is there
    struck,      \* history: an interrupt reached a job or a wait
    first,       \* history: what a test run that runs again ended with
    reported     \* stages, as the judge leaves them

stagesVars == <<at, job, slot, coverage, struck, first, reported>>

\* A job is a command or a capability's measurement; a nested package, a number,
\* has a test run and a typecheck of its own.
Nested == {"test", "typecheck"} \X (1 .. Packages)
Root == {<<s, 0>> : s \in {"build", "test", "lint", "debt", "complexity"}}
Tests == {j \in Root \cup Nested : j[1] = "test"}
Measures == {<<s, 0>> : s \in {"debt", "complexity"}}
Running == {"runs", "reruns"}
Results == {"pass", "flaky", "fail", "interrupted", "threw"}
Outcomes == {"passed", "failed", "interrupted", "threw"}

StagesTypeOK ==
    /\ at \in {"build", "load", "measure"} \cup Outcomes
    /\ job \in [Root \cup Nested -> {"none", "queued"} \cup Running \cup Results]
    /\ slot \in {"none", "waiting", "held", "without"}
    /\ coverage \in BOOLEAN /\ struck \in BOOLEAN
    /\ first \in [Tests -> {"nothing", "plain", "other"}]
    /\ reported \in Seq((Root \cup Nested \cup {<<"scope-audit", 0>>, <<"diff-size", 0>>}) \X
                        {"pass", "flaky", "fail", "skipped", "flagged"})

\* What the project and the branch are: which commands the adapter names, how
\* many nested packages are touched and which scripts they do not declare,
\* whether the caller waits, and whether the scope audit finds a violation.
Branch ==
    [test : BOOLEAN, lint : {TRUE}, nested : {0}, bare : {{}}, wait : BOOLEAN, scope : BOOLEAN]
        \cup [test : {TRUE}, lint : {FALSE}, nested : {Packages}, bare : {{<<"test", 1>>}},
              wait : {FALSE}, scope : {TRUE}]
        \cup [test : BOOLEAN, lint : {TRUE}, nested : {Packages},
              bare : {{<<"typecheck", Packages>>}}, wait : {TRUE}, scope : {TRUE}]

\* gateCommands, and touchedNestedPackages with each package's commands
Declared(b) ==
    {<<"build", 0>>} \cup Measures
        \cup (IF b.test THEN {<<"test", 0>>} ELSE {}) \cup (IF b.lint THEN {<<"lint", 0>>} ELSE {})
        \cup {j \in Nested : j[2] <= b.nested /\ j \notin b.bare}

StagesInit ==
    /\ given \in Branch
    /\ at = "build" /\ slot = "none" /\ coverage = FALSE /\ struck = FALSE
    /\ job = [j \in Root \cup Nested |->
                 IF j \notin Declared(given) THEN "none"
                 ELSE IF j = <<"build", 0>> THEN "runs" ELSE "queued"]
    /\ first = [j \in Tests |-> "nothing"] /\ reported = <<>>

StagesRests ==
    /\ at = "threw" /\ slot = "none" /\ coverage = FALSE /\ struck = FALSE
    /\ job = <<>> /\ first = <<>> /\ reported = <<>>
-----------------------------------------------------------------------------
(* One command.                                                             *)

\* Exit status 1 and no signal or code: the runner said so itself
isRerunnable(failure) == failure = "plain"

\* commandStage: the command ends, and a test run may run once more. A
\* measurement that fails says it is unavailable, or throws.
CommandEnds(j) ==
    /\ job[j] \in Running
    /\ \/ \E r \in IF j \in Measures THEN {"pass", "threw"} ELSE {"pass"} :
             /\ job' = [job EXCEPT ![j] = IF job[j] = "reruns" THEN "flaky" ELSE r]
             /\ UNCHANGED first
       \/ /\ j \notin Measures
          /\ \E failure \in {"plain", "other"} :
                IF job[j] = "runs" /\ j \in Tests /\ isRerunnable(failure)
                THEN job' = [job EXCEPT ![j] = "reruns"] /\ first' = [first EXCEPT ![j] = failure]
                ELSE job' = [job EXCEPT ![j] = "fail"] /\ UNCHANGED first
    /\ UNCHANGED <<at, slot, coverage, struck, reported>>

End(outcome) == at' = outcome /\ UNCHANGED <<job, slot, coverage, first>>

Said(results) == reported' = results

\* The build has ended: the first result, and the last one if it failed
Built ==
    /\ at = "build"
    /\ CASE job[<<"build", 0>>] = "fail" ->
              End("failed") /\ Said(<<<<<<"build", 0>>, "fail">>>>) /\ UNCHANGED struck
         [] job[<<"build", 0>>] = "interrupted" -> End("interrupted") /\ UNCHANGED <<struck, reported>>
         [] job[<<"build", 0>>] = "pass" ->
              /\ at' = "load"
              /\ UNCHANGED <<job, slot, coverage, struck, first, reported>>
         [] OTHER -> FALSE

\* waitForLoad is over: at once, after a while, or at its deadline. Everything
\* starts, the suites once they have a slot or have waited long enough for one.
HasSuite == \E j \in Tests : job[j] # "none"

Measure ==
    /\ at = "load" /\ at' = "measure"
    /\ job' = [j \in DOMAIN job |->
                  IF job[j] = "queued" /\ j \notin Tests THEN "runs" ELSE job[j]]
    /\ slot' = IF HasSuite THEN "waiting" ELSE "none"
    /\ coverage' = given.test
    /\ UNCHANGED <<struck, first, reported>>

LoadInterrupted ==
    /\ at = "load" /\ HasSuite /\ given.wait
    /\ struck' = TRUE /\ End("interrupted") /\ UNCHANGED reported
-----------------------------------------------------------------------------
(* runSuites, under withTestSlot.                                           *)

\* A slot, or none after GATE_SLOT_WAIT_MS or for one that cannot be used
GetSlot ==
    /\ slot = "waiting" /\ slot' \in {"held", "without"}
    /\ UNCHANGED <<at, job, coverage, struck, first, reported>>

\* The order: the root's test run, then each package's
Before(j, k) == j[2] < k[2]

\* Each starts when the one before it passed
Due(j) ==
    /\ slot \in {"held", "without"}
    /\ \A k \in Tests : Before(k, j) => job[k] \in {"none", "pass", "flaky"}

RunSuite(j) ==
    /\ at = "measure" /\ j \in Tests /\ job[j] = "queued" /\ Due(j)
    /\ job' = [job EXCEPT ![j] = "runs"]
    /\ UNCHANGED <<at, slot, coverage, struck, first, reported>>

\* The root's test run has ended: its report is read and its directory removed
Dispose ==
    /\ coverage /\ slot # "waiting" /\ job[<<"test", 0>>] \in Results
    /\ coverage' = FALSE
    /\ UNCHANGED <<at, job, slot, struck, first, reported>>

\* A test run that did not pass ends the chain; so does the last of them
Over ==
    \/ \E j \in Tests : job[j] \in {"fail", "interrupted"}
    \/ \A j \in Tests : job[j] # "queued"

SuitesDone ==
    /\ slot \in {"held", "without"} /\ ~coverage
    /\ \A j \in Tests : job[j] \notin Running
    /\ Over
    /\ slot' = "none"
    /\ UNCHANGED <<at, job, coverage, struck, first, reported>>

waited == FALSE

\* The signal marks every child that runs, and ends the wait for a slot
Interrupt ==
    /\ \/ at = "build" /\ job[<<"build", 0>>] \in Running
       \/ at = "measure" /\ (slot = "waiting" \/ \E j \in DOMAIN job : job[j] \in Running)
    /\ struck' = TRUE
    /\ job' = [j \in DOMAIN job |-> IF job[j] \in Running THEN "interrupted" ELSE job[j]]
    /\ slot' = IF slot = "waiting" THEN "none" ELSE slot
    /\ coverage' = IF slot = "waiting" THEN waited ELSE coverage
    /\ UNCHANGED <<at, first, reported>>
-----------------------------------------------------------------------------
(* The results.                                                             *)

\* MUTANT: the first rejection ends the measurement
Settled_First ==
    \/ \E j \in DOMAIN job : job[j] \in {"interrupted", "threw"}
    \/ slot = "none" /\ \A j \in DOMAIN job : job[j] \notin Running

\* Promise.allSettled: of the suites and of everything beside them
Settled == slot = "none" /\ \A j \in DOMAIN job : job[j] \notin Running

\* The suites are interrupted in a run, or in the wait for their slot
Interrupted ==
    \/ \E j \in DOMAIN job : job[j] = "interrupted"
    \/ HasSuite /\ \A j \in Tests : job[j] \in {"none", "queued"}

\* The order they are read in, whatever order they ended in: the root's, then the
\* typecheck and the test run of each package
Order(b) ==
    [i \in 1 .. 2 + 2 * b.nested |->
        CASE i = 1 -> <<"test", 0>>
          [] i = 2 -> <<"lint", 0>>
          [] OTHER -> <<IF i % 2 = 1 THEN "typecheck" ELSE "test", (i - 1) \div 2>>]

\* notMeasured for a stage of the root, a flag for one of a package
Result(j) ==
    <<j, IF job[j] # "none" THEN job[j] ELSE IF j[2] = 0 THEN "skipped" ELSE "flagged">>

\* What is pushed before the first failure, and the failure
UpToFailure(results) ==
    IF \E i \in DOMAIN results : results[i][2] = "fail"
    THEN SubSeq(results, 1, CHOOSE i \in DOMAIN results :
                    results[i][2] = "fail" /\ \A k \in 1 .. (i - 1) : results[k][2] # "fail")
    ELSE results

Judge ==
    /\ at = "measure" /\ Settled
    /\ IF Interrupted THEN End("interrupted") /\ UNCHANGED <<struck, reported>>
       ELSE LET results == UpToFailure(<<<<<<"build", 0>>, "pass">>>> \o
                               [i \in DOMAIN Order(given) |-> Result(Order(given)[i])] \o
                               <<<<<<"scope-audit", 0>>, IF given.scope THEN "pass" ELSE "fail">>>>)
                failed == results[Len(results)][2] = "fail"
                threw == \E j \in Measures : job[j] = "threw"
            IN \E size \in IF failed THEN {"pass"} ELSE {"pass", "flagged"} :
                 /\ Said(IF failed THEN results ELSE Append(results, <<<<"diff-size", 0>>, size>>))
                 /\ End(IF failed THEN "failed" ELSE IF threw THEN "threw" ELSE "passed")
                 /\ UNCHANGED struck

StagesNext ==
    \/ Built \/ Measure \/ LoadInterrupted \/ GetSlot \/ Dispose \/ SuitesDone \/ Interrupt \/ Judge
    \/ \E j \in Root \cup Nested : CommandEnds(j) \/ RunSuite(j)

\* Children have a time limit, waits a deadline, and promises are awaited
StagesFair ==
    /\ WF_stagesVars(/\ subject = "stages" /\ UNCHANGED <<subject, given>>
                     /\ Built \/ Measure \/ GetSlot \/ Dispose \/ SuitesDone \/ Judge)
    /\ \A j \in Root \cup Nested :
          WF_stagesVars(subject = "stages" /\ (CommandEnds(j) \/ RunSuite(j)) /\ UNCHANGED <<subject, given>>)
-----------------------------------------------------------------------------
(* Properties.                                                              *)

Measuring == subject = "stages"

\* A pass is of every command the branch's packages declare, each of which ran
\* in this measurement, though they ended in any order and one that fails keeps
\* others from running (runSuites, the reads after allSettled).
PassIsOfEveryCommand ==
    Measuring /\ at = "passed" =>
        /\ \A j \in Declared(given) : job[j] \in {"pass", "flaky"}
        /\ \A p \in 1 .. given.nested, s \in {"test", "typecheck"} :
              \E i \in DOMAIN reported : reported[i] \in {<<<<s, p>>, "pass">>, <<<<s, p>>, "flaky">>,
                                                          <<<<s, p>>, "flagged">>}

\* An interrupt is never read as a verdict, whatever else failed beside what it
\* stopped (the find over the settled outcomes).
InterruptIsNoVerdict == Measuring /\ struck => at \notin {"passed", "failed", "threw"}

\* A measurement that is over leaves no command running, no slot held and no
\* coverage directory (allSettled, the two disposes).
NothingIsLeftRunning ==
    Measuring /\ at \in Outcomes =>
        Settled /\ ~coverage /\ \A j \in DOMAIN job : job[j] \notin Running

\* A test suite is never run beside another of the same gate, and only once a
\* slot was had or waited out.
OneSuiteAtATime ==
    Measuring =>
        /\ Cardinality({j \in Tests : job[j] \in Running}) <= 1
        /\ \A j \in Tests : job[j] \in Running => slot \in {"held", "without"}

\* A pass on a second run is of a failure the runner itself reported, not of
\* one a timeout, a flood or a signal made of it (isRerunnable).
OnlyItsOwnFailureIsRetried == Measuring => \A j \in Tests : first[j] # "other"

\* What is reported ends at its first failure, and that one is really a failure
\* of the branch: a result nobody waited for is not read (the early returns).
FailureIsReported ==
    Measuring /\ at = "failed" =>
        /\ reported # <<>>
        /\ \A i \in DOMAIN reported : reported[i][2] = "fail" <=> i = Len(reported)
        /\ \A i \in DOMAIN reported : reported[i][2] \notin {"queued", "interrupted"}

\* Every measurement comes to an end, whatever does not pass, and whoever holds
\* the slots (the deadline of each wait, and of each command).
MeasurementEnds == Measuring ~> (at \in Outcomes)
=============================================================================
