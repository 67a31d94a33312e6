CONSTANTS
    t1 = t1
    t2 = t2
    t3 = t3
    i1 = i1
    i2 = i2
    Threads <- Threads3
    Items <- Items1
    Listener = i1
    Nullptr = Nullptr
    Capacity = 1
SPECIFICATION FairSpec
PROPERTIES
    ShutdownReturns
CHECK_DEADLOCK FALSE
