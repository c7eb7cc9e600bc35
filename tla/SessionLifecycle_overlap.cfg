SPECIFICATION Spec
CONSTANTS
    Tasks = {t1}
    Commands = {c1, c2}
    NoWindow = NoWindow
    NoSession = NoSession
    Cap = 2
    MaxRejects = 1
    MaxSessions = 2
    MaxEdits = 0
    MaxFails = 1
SYMMETRY Symmetry
INVARIANT OneClaim
CHECK_DEADLOCK FALSE
