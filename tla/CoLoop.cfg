CONSTANTS
    i1 = i1
    i2 = i2
    Loop = loop
    Items <- TheItems
    None = None
    Room = 1
SPECIFICATION FairSpec
INVARIANTS
    ItemsSafe
    TimedWaitCovered
PROPERTIES
    WaitEnds
CHECK_DEADLOCK FALSE
