CONSTANTS
    m1 = m1
    m2 = m2
    m3 = m3
    a1 = a1
    a2 = a2
    Ids <- TwoTimers
    Addrs <- TheAddrs
    Intervals <- OnceOrEvery
    MinDelay = 1
    Modulus = 100
    MaxTime = 4
    Horizon = 3
    MaxPosted = 1
SPECIFICATION TimersFairSpec
INVARIANTS
    TimersSafe
PROPERTIES
    CancelIsExact
    TimerRuns
CHECK_DEADLOCK FALSE
