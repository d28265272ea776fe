CONSTANTS
    f1 = f1
    f2 = f2
    Futures = {f1, f2}
    MaxPending = 1
    MaxWakes <- MCMaxWakes
SPECIFICATION BatcherFairSpec
INVARIANTS
    NoLostWake
    NoFutureForgotten
    ResultOnce
PROPERTIES
    EveryFutureReady
    CloseIsSeen
CHECK_DEADLOCK FALSE
