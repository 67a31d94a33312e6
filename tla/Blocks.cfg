CONSTANTS
    n1 = n1
    n2 = n2
    t1 = t1
    t2 = t2
    t3 = t3
    c1 = c1
    c2 = c2
    c3 = c3
    x1 = x1
    x2 = x2
    Nodes <- TheNodes
    None = None
    Wheels = 3
    MaxDelay = 7
    MaxTime = 8
    Modulus = 50
    CoThreads <- TheCoThreads
    Coroutines <- TheCoroutines
    Shared <- TheShared
    Depth = 2
    Channels <- TheCoroutines
    Fds <- TheFds
    kCheapPrepend = 2
    kInitialSize = 3
    Period = 3
    Junk = Junk
    MaxCall = 3
    MaxUsed = 5
    Threads <- TheThreads
    Items <- TheItems
    MaxQueue = 4
    SIZE = 8
    kMaxNumericSize = 5
    Bits = 5
    Texts <- TheTexts
    Numbers <- TheNumbers
    rollsize_ = 2
    Local <- TheLocal
    A = 1
    Z = 2
    a = 4
    Slash = 0
    CharMod = 5
    SizeMod = 8
    MaxRecord = 5
    MaxBytes = 7
    MaxFile = 3
    LastSecond = 3
SPECIFICATION BlocksSpec
INVARIANTS
    Exact
    CoroutineSafe
    RegistrationSafe
    BufferIntact
    ItemsAwaited
    ThreadSafe
    LogIntact
PROPERTIES
    OnDeadline
CHECK_DEADLOCK FALSE
