SPECIFICATION Spec
CONSTANTS
    Tasks = {t1, t2}
    Commands = {c1}
    NoWindow = NoWindow
    NoSession = NoSession
    Cap = 1
    MaxRejects = 1
    MaxSessions = 2
    MaxEdits = 1
    MaxFails = 3
SYMMETRY Symmetry
INVARIANTS
    CapRespected
    SpecFrozen
    KilledIsStopped
    BoundedResteers
CHECK_DEADLOCK FALSE
