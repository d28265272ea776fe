CONSTANTS
    f1 = f1
    f2 = f2
    b1 = b1
    b2 = b2
    Null = Null
    Fds = {f1, f2}
    Boxes = {b1, b2}
    MaxData = 2
    Addresses = 2
    Rounds = 2
    MaxProbes = 2
    Junk = TRUE
SPECIFICATION ClientFairSpec
INVARIANTS
    NoStaleBuffer
    NoLeak
PROPERTIES
    EverySocketIsRead
    ConnectEnds
CHECK_DEADLOCK FALSE
