CONSTANTS
    a = a
    b = b
    c = c
    none = none
    timer = timer
    network = network
    diskette = diskette
    console = console
    Threads <- MCThreads
    NoStatus <- none
    Timer <- timer
    Pollers <- MCPollers
    Devices <- MCDevices
    Delays <- MCDelays
    SystemTick = 2
    UserTick = 1
SPECIFICATION Spec
VIEW Shifted
INVARIANTS
    InterruptsInv
PROPERTIES
    ImplementsAgenda
