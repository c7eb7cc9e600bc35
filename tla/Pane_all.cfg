SPECIFICATION Spec
CONSTANTS
    Clients = {c1}
    Watcher = Watcher
    Human = Human
    ClearLimit = 3
    MaxSends = 1
    MaxDeaths = 1
    MaxUpsets = 1
INVARIANTS
    TypeOK
    MessageIsWholeOrNothing
PROPERTIES
    SeenIsLeftAlone
CHECK_DEADLOCK FALSE
