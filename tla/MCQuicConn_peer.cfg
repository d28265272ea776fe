CONSTANTS
    FirstStream = 4
    MyStreams = {}
    PeerStreams = {5, 9}
    Used <- UsedOne
    MaxPackets = 2
SPECIFICATION FairSpec
INVARIANTS
    AcceptedOnce
PROPERTIES
    ReadableIsServed
CHECK_DEADLOCK FALSE
