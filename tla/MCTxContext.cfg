\* Three operations over either substrate: they contend for two rows, fail and die.
SPECIFICATION Spec
CONSTANTS
    o1 = o1
    o2 = o2
    o3 = o3
    k1 = k1
    k2 = k2
    e1 = e1
    e2 = e2
    e3 = e3
    e4 = e4
    e5 = e5
    Nobody = Nobody
    Op = {o1, o2, o3}
    Key = {k1, k2}
    Event = {e1, e2, e3, e4, e5}
    Plan <- Opposite
    Faulty = {o1, o2}
    Crashes = TRUE
INVARIANTS
    TypeOK
    EventsFollowWrites
    AllOrNothing
PROPERTIES
    RefinesAtomic
CHECK_DEADLOCK FALSE
