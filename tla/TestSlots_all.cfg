\* Two gates and a worker on two slots, dead holders' files left in some.
CONSTANTS
    Gates = {g1, g2}
    Workers = {w1}
    NSlots = 2
    Nobody = Nobody
    Stale = Stale
SPECIFICATION FairSlotsSpec
INVARIANTS
    Bounded
PROPERTIES
    NoOvertaking
    EveryRunGoesAhead
CHECK_DEADLOCK FALSE
