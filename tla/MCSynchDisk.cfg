CONSTANTS
    a = a
    b = b
    c = c
    null = null
    s1 = s1
    s2 = s2
    zero = zero
    one = one
    done = done
    Threads <- MCThreads
    NoThread <- null
    Sectors <- MCSectors
    Contents <- MCContents
    Blank <- zero
    Done <- done
SPECIFICATION FairSpec
INVARIANTS
    SynchDiskInv
PROPERTIES
    ReturnsAfterInterrupt
    ImplementsDisk
    DiskKeepsServing
