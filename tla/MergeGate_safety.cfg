SPECIFICATION Spec
CONSTANTS
    Mine = {m1, m2}
    Theirs = {t1}
    MaxCommits = 4
SYMMETRY Symmetry
INVARIANTS
    WorkIsKept
    DebtFollowsLandings
    LeftBehindIsTold
PROPERTIES
    KeepsPromise
    ReviewedCommitsStay
CHECK_DEADLOCK FALSE
