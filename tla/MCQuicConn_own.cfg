CONSTANTS
    FirstStream = 4
    MyStreams = {4}
    PeerStreams = {5}
    Used <- UsedOwn
    MaxPackets = 1
SPECIFICATION FairSpec
INVARIANTS
    NoLostStreamEvent
    
    HalfClosedIsDrained
PROPERTIES
    CloseReachesWaiters
CHECK_DEADLOCK FALSE
