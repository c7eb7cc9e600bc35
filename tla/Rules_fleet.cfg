\* The fleet: each part on the smallest instance its properties can fail on.
CONSTANTS
    MaxLog = 6
    Starts = 2
    MaxTips = 2
    MaxKills = 1
    StaleSweeps = 1
    MaxDup = 1
    MaxUpsets = 2
    MaxTarget = 3
    MaxPushes = 2
    MaxComments = 1
    MaxMishaps = 2
    MaxFindings = 2
    Threads = 2
    Instances <- Rounds
    MaxSummaries = 2
    MaxCommits = 2
    Files = {f1, f2}
    Peers = {p1, p2}
    MaxCalls = 2
    MaxOwn = 2
    MaxLanded = 2
    Respawns = {1, 2}
    MaxEvents = 3
    MaxDocs = 1
    MaxWork = 1
    Calls = {1, 2}
    MaxChurn = 1
    Makes <- Worktrees
    MaxLogged = 6
    MaxTip = 1
    Parts = {"routing", "conductor", "baseline", "handoff"}
SPECIFICATION Spec
INVARIANTS
    RulesTypeOK
    WindowIsAsSignalled
PROPERTIES
    RungsAreEarned
    StartIsWhole
    DebtIsJudgedOnce
CHECK_DEADLOCK FALSE
