CONSTANTS
    c1 = c1
    c2 = c2
    a1 = a1
    a2 = a2
    z1 = z1
    z2 = z2
    Nobody = Nobody
    Clients = {c1, c2}
    Acceptors = {a1}
    Closers = {z1, z2}
    Duplicates = FALSE
    Faulty = TRUE
SPECIFICATION FairSpec
INVARIANTS
    ConnIsRead
    QueuedOnce
    NoLostIncoming
PROPERTIES
    AcceptEnds
CHECK_DEADLOCK FALSE
