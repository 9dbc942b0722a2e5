CONSTANTS
    main = main
    a = a
    b = b
    null = null
    mutex = mutex
    device = device
    noSem = noSem
    Threads <- MCThreads3
    Main <- main
    NoThread <- null
    Sems <- MCSems
    DeviceSems <- MCDevice
    InitialValue <- MCInitial
    MaxValue = 2
    NoSem <- noSem
SPECIFICATION FairSpec
INVARIANTS
    SemInv
PROPERTIES
    OnlyFinishedDestroyed
    ThreadsProgress
    UsesScheduler
    ImplementsSemaphore
