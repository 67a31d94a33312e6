CONSTANTS
    f1 = f1
    f2 = f2
    Fds <- TheFds
    Places <- ThePlaces
    Init0 = 1
    None = None
    MaxQueued = 1
    MaxStops = 1
SPECIFICATION ServerFairSpec
INVARIANTS
    PlacesSafe
    EntriesSafe
PROPERTIES
    ClosedIsReleased
CHECK_DEADLOCK FALSE
