CONSTANTS
    c1 = c1
    c2 = c2
    f1 = f1
    f2 = f2
    f3 = f3
    ch1 = ch1
    Callers <- TheCallers
    Tasks <- TheTasks
    Channels <- TheChannels
    Wakeup = Wakeup
SPECIFICATION FairSpec
INVARIANTS
    NoLostWakeup
    QuitDrains
PROPERTIES
    RunsTasksInOrder
    TaskExecuted
    QuitStops
CHECK_DEADLOCK FALSE
