CONSTANTS
    w1 = w1
    w2 = w2
    w3 = w3
    w4 = w4
    Workers <- FourWorkers
    LoopNum = 2
SPECIFICATION FairSpec
INVARIANTS
    PoolIsSafe
PROPERTIES
    StopReturnsOnceLooping
CHECK_DEADLOCK FALSE
