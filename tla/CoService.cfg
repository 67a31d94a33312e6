CONSTANTS
    t1 = t1
    t2 = t2
    t3 = t3
    i1 = i1
    i2 = i2
    Threads <- Threads2
    Items <- Items2
    Listener = i1
    Nullptr = Nullptr
    Capacity = 1
SPECIFICATION FairSpec
INVARIANTS
    TokenSafe
    ItemSafe
    TimedWaitCovered
PROPERTIES
    TimedWaitEnds
    EventHandled
    ShutdownReturns
    SchedSafety
CHECK_DEADLOCK FALSE
