\* Every thread may wait for a message that nobody sends.
CHECK_DEADLOCK FALSE
CONSTANTS
    a = a
    b = b
    c = c
    null = null
    here = here
    there = there
    x = x
    none = none
    zero = zero
    one = one
    Threads <- MCThreads
    NoThread <- null
    Hosts <- MCHosts
    Host <- MCHost
    Boxes <- MCBoxes
    Letters <- MCLetters
    None <- none
    MaxMail = 2
SPECIFICATION FairSpec
INVARIANTS
    PostOfficeInv
PROPERTIES
    ImplementsPost
    PostServes
