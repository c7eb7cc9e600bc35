SPECIFICATION Spec
CONSTANTS
    Cmds = {c1, c2}
    NoOne = NoOne
    MaxRejects = 1
    FirstRejects = 1
    MaxCommits = 2
    MaxBegun = 3
    MaxFails = 3
    MaxPulls = 2
    MaxCrashes = 1
SYMMETRY Symmetry
INVARIANTS
    TypeOK
    LandsOnlyMeasured
    CommitsAreKept
    MergedIsStopped
PROPERTIES
    CommandsKeepToTheRecord
CHECK_DEADLOCK FALSE
