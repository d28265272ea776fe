CONSTANTS
    a = a
    other = other
    poll_thread = poll_thread
    Timers = {a, other}
    Tickers = {poll_thread}
    Calls = {a}
    Tick = 2
    Durations = {2, 3}
    LastStart = 0
    LastOther = 0
    MaxNow = 6
    Prompt = TRUE
SPECIFICATION FairSpec
INVARIANTS
    NoStrandedTimer
    GoneIsExpired
    NoLostExpiry
PROPERTIES
    TimeoutReturns
CHECK_DEADLOCK FALSE
