SPECIFICATION Spec
CONSTANTS
    Mine = {m1}
    Theirs = {}
    MaxCommits = 2
PROPERTY
    LandsOnItsOwnCheckout
CHECK_DEADLOCK FALSE
