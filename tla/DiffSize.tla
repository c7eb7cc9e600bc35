------------------------------ MODULE DiffSize ------------------------------
(***************************************************************************)
(* Which changed tests count as source in the diff-size split               *)
(* (countChangedLines and reachableTestFiles, merge-gate.service.ts): a test *)
(* that anything but a test can load is code the split must not leave out.  *)
(* The search asks git, a round at a time, which files name those of the    *)
(* round before, and then follows what was found back to the changed ones.  *)
(***************************************************************************)
EXTENDS Subject, Integers, FiniteSets, Sequences, SequencesExt

CONSTANTS
    TestFile, \* bound: the branch's test files
    MaxNamed  \* bound: the test files one file names, but for the document

ASSUME SizeAssumption ==
    IsFiniteSet(TestFile) /\ {"source", "doc"} \cap TestFile = {} /\ MaxNamed \in Nat

VARIABLES
    round,      \* the test files the next git grep asks for
    seen,       \* the tests asked for so far
    imports,    \* importsOf: what each test was found to name
    reached,    \* the tests something else than a test can load
    queue,      \* what is left to follow back; nothing before the rounds end
    counted,    \* the split is made
    tests       \* the changed tests that count as tests in it

sizeVars == <<round, seen, imports, reached, queue, counted, tests>>

\* A source file and a document name tests too; a Docusaurus site compiles the
\* document's kind as source.
Importers == TestFile \cup {"source", "doc"}

SizeTypeOK ==
    /\ round \subseteq TestFile /\ seen \subseteq TestFile
    /\ imports \in [TestFile -> SUBSET TestFile] /\ reached \subseteq TestFile
    /\ queue \in Seq(TestFile)
    /\ counted \in BOOLEAN /\ tests \subseteq TestFile

\* Which files name which, which tests the branch changed, and what a symlink
\* reaches or the operator renamed, which is source whatever its name.
Naming == {n \in SUBSET (Importers \X TestFile) :
               /\ \A p \in n : p[1] # p[2]
               /\ \A f \in Importers \ {"doc"} :
                     Cardinality({t \in TestFile : <<f, t>> \in n}) <= MaxNamed
               /\ {t \in TestFile : <<"doc", t>> \in n} \in {{}, TestFile}}

SizeInit ==
    /\ \E n \in Naming, c \in SUBSET TestFile \ {{}}, m \in BOOLEAN :
          \E k \in {{}} \cup {{t} : t \in TestFile \ c} :
              given = [names |-> n, changed |-> c, linked |-> k, markdownIsCode |-> m]
    /\ round = given.changed /\ seen = given.changed
    /\ imports = [t \in TestFile |-> {}] /\ reached = {} /\ queue = <<>>
    /\ counted = FALSE /\ tests = {}

SizeRests ==
    /\ round = {} /\ seen = {} /\ imports = <<>> /\ reached = {} /\ queue = <<>>
    /\ counted = FALSE /\ tests = {}
-----------------------------------------------------------------------------
\* diffSizeKind
kindOf(file) ==
    IF file = "doc" THEN (IF given.markdownIsCode THEN "source" ELSE "docs")
    ELSE IF file = "source" \/ file \in given.linked THEN "source" ELSE "test"

\* filesNaming, but for the documents it skips
filesNaming(targets) ==
    [f \in {f \in Importers : kindOf(f) # "docs" /\ \E t \in targets : <<f, t>> \in given.names} |->
        {t \in targets : <<f, t>> \in given.names}]

\* MUTANT: a test that was asked for before is not asked about again
noted_Once(naming, t) == IF t \in seen THEN {} ELSE naming[t]

\* importsOf grows, whether or not the importer was seen
noted(naming, t) == naming[t]

\* A test is asked for once
fresh(found) == found \ seen

Round ==
    /\ ~counted /\ round # {}
    /\ LET naming == filesNaming(round)
           found == {f \in DOMAIN naming : kindOf(f) = "test"}
       IN /\ reached' = reached \cup UNION {naming[f] : f \in DOMAIN naming \ found}
          /\ imports' = [t \in TestFile |-> imports[t] \cup (IF t \in found THEN noted(naming, t) ELSE {})]
          /\ round' = fresh(found) /\ seen' = seen \cup found
          /\ queue' = IF fresh(found) = {} THEN SetToSeq(reached') ELSE queue
    /\ UNCHANGED <<counted, tests>>

\* What a reached test imports is reached
Followed(t) == imports[t] \ reached

FollowBack ==
    /\ ~counted /\ round = {} /\ queue # <<>>
    /\ reached' = reached \cup Followed(Last(queue))
    /\ queue' = Front(queue) \o SetToSeq(Followed(Last(queue)))
    /\ UNCHANGED <<round, seen, imports, counted, tests>>

\* countChangedLines
Split ==
    /\ ~counted /\ round = {} /\ queue = <<>>
    /\ counted' = TRUE
    /\ tests' = {t \in given.changed : t \notin reached}
    /\ UNCHANGED <<round, seen, imports, reached, queue>>

SizeNext == Round \/ FollowBack \/ Split

\* git answers
SizeFair ==
    WF_sizeVars(subject = "diffsize" /\ SizeNext /\ UNCHANGED <<subject, given>>)
-----------------------------------------------------------------------------
(* Properties.                                                              *)

Sizing == subject = "diffsize"

\* Nobody else names a file of these, but through something that is no test.
NamedWithin(files) ==
    \A u \in files \cap TestFile, f \in Importers :
        <<f, u>> \in given.names /\ kindOf(u) = "test" => f \in files

\* The files from which a chain of names, through tests alone, leads to a test:
\* the least such set it is in.
Loaders(t) ==
    {f \in Importers : \A files \in SUBSET Importers : t \in files /\ NamedWithin(files) => f \in files}

\* A changed test counts as one exactly when no chain of tests leads to it from
\* a file that is neither a test nor a document, however long the chain is and
\* in whatever round it was found (reachableTestFiles).
OnlyUnloadedTestsAreTests ==
    Sizing /\ counted =>
        tests = {t \in given.changed : \A f \in Loaders(t) : kindOf(f) # "source"}

\* The search ends, though tests may name each other in a ring.
SearchEnds == Sizing ~> counted
=============================================================================
