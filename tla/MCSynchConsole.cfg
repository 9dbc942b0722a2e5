\* Every thread may wait for a key that nobody types.
CHECK_DEADLOCK FALSE
CONSTANTS
    a = a
    b = b
    c = c
    null = null
    x = x
    y = y
    eof = eof
    none = none
    in = in
    out = out
    Threads <- MCThreads
    NoThread <- null
    Keys <- MCKeys
    EOF <- eof
    NoChar <- none
    In <- in
    Out <- out
    MaxTyped = 1
SPECIFICATION FairSpec
INVARIANTS
    SynchConsoleInv
PROPERTIES
    ImplementsConsole
    ConsoleServes
