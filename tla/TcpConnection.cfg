CONSTANTS
    c1 = c1
    c2 = c2
    m1 = m1
    m2 = m2
    m3 = m3
    Callers <- OneCaller
    Loop = Loop
    Messages <- TwoMessages
    Size <- Sizes
    Room = 1
    Watermark = 2
    MaxQueued = 1
SPECIFICATION FairSpec
INVARIANTS
    ConnectionSafe
    ThreadOrder
PROPERTIES
    StreamIntact
    OutputGoes
    EndIsNoticed
CHECK_DEADLOCK FALSE
