CONSTANTS
    p1 = p1
    p2 = p2
    p3 = p3
    r1 = r1
    r2 = r2
    r3 = r3
    r4 = r4
    Producers <- ThreeProducers
    Records <- FourRecords
    Size <- Sizes
    RingSize = 4
    Batch = 2
    Nobody = Nobody
SPECIFICATION FairSpec
CHECK_DEADLOCK FALSE
INVARIANTS
    RingSafe
PROPERTIES
    WritesInOrder
    AppendReturns
    EverythingWritten
