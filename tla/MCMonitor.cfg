\* Every thread may be in Wait with nobody left to signal: the clients decide.
CHECK_DEADLOCK FALSE
CONSTANTS
    a = a
    b = b
    c = c
    d = d
    null = null
    mutex = mutex
    Threads <- MCThreads4
    NoThread <- null
    Mutex <- mutex
SPECIFICATION FairSpec
INVARIANTS
    MonitorInv
PROPERTIES
    QueueChangedByHolder
    UsesSemaphores
    ImplementsMonitor
