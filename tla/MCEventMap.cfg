CONSTANTS
    w1 = w1
    w2 = w2
    e1 = e1
    e2 = e2
    n1 = n1
    n2 = n2
    Waits = {w1, w2}
    Events = {e1, e2}
    Notifiers = {n1, n2}
    Nobody = Nobody
SPECIFICATION FairSpec
INVARIANTS
    NoLostEvent
    OneReason
PROPERTIES
    EventReachesWait
CHECK_DEADLOCK FALSE
