\* A crash ends the run of the kernel.
CHECK_DEADLOCK FALSE
CONSTANTS
    stdin = stdin
    stdout = stdout
    f = f
    null = null
    Names <- MCNames
    StdinName <- stdin
    StdoutName <- stdout
    Inodes <- MCInodes
    Null <- null
    Bytes = {1}
    TableSize = 4
    MaxLength = 1
    MaxIO = 1
    MaxInt = 31
    NumBuffer = 5
    PrintBuffer = 4
    CharBuffer = 3
    MaxString = 3
    Leftovers <- MCLeftovers
    Typed <- MCTyped
    Strings <- MCStrings
SPECIFICATION MCSpec
VIEW Kernel
INVARIANTS
    FileTableInv
PROPERTIES
    IdsAreStable
    NumbersReadBack
    FailedCallsChangeNothing
