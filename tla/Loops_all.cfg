\* Two rows, two sessions, two packages, three test files, hooks of three reads.
CONSTANTS
    Rows = 2
    MaxOutside = 3
    MaxRuns = 1
    Fleet = 2
    MaxFaults = 3
    Packages = 2
    TestFile = {"t1", "t2", "t3"}
    MaxNamed = 1
    Timeout = 4
    MaxReads = 3
SPECIFICATION Spec
INVARIANTS
    LoopsTypeOK
    VerdictsAreMeasured
    RunsAreHeld
    ReportIsTrue
PROPERTIES
    ScreenActsAsAsked
    EverythingComesRound
CHECK_DEADLOCK FALSE
