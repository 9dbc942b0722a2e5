\* Every thread may wait for an item that nobody appends.
CHECK_DEADLOCK FALSE
CONSTANTS
    a = a
    b = b
    c = c
    null = null
    x = x
    y = y
    none = none
    NoThread <- null
    NoItem <- none
    Threads <- MCThreads3
    Items <- MCItems2
SPECIFICATION FairSpec
INVARIANTS
    SynchListInv
PROPERTIES
    ImplementsQueue
    ItemsDelivered
