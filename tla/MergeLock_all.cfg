\* Three runs, any of them killed anywhere, and a reclaim that may stall: two dead ones and the last to end.
CONSTANTS
    Runs = {r1, r2, r3}
    NoRun = NoRun
    Stalls = TRUE
SPECIFICATION FairSpec
INVARIANTS
    ExclusiveUnlessIntruded
PROPERTIES
    LiveLockStays
    EveryRunEnds
CHECK_DEADLOCK FALSE
