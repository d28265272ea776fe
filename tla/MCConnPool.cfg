CONSTANTS
    t1 = t1
    t2 = t2
    c1 = c1
    Tasks = {t1, t2}
    Nobody = Nobody
    MaxEntries = 2
    Conns = {c1}
    NoConn = NoConn
    MaxConns = 1
    MaxStreams = 3
    MaxGone = 2
SPECIFICATION PoolFairSpec
INVARIANTS
    NoLostWakeup
    StreamCanSend
    OpenIsPooled
PROPERTIES
    PendingIsPolled
