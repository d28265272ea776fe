CONSTANTS
    t1 = t1
    t2 = t2
    t3 = t3
    a = a
    b = b
    Threads = {t1, t2, t3}
    Values = {a, b}
    None = None
    MaxPush = 2
    Suspended = t1
SPECIFICATION QueueFairSpec
INVARIANTS
    NoValueLost
PROPERTIES
    RefinesFifo
    EveryCallReturns
