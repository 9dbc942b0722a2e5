SPECIFICATION MSpec
CONSTANTS
  ByteBits = 2
  NumGPRegs = 5
  StackReg = 3
  RetAddrReg = 4
  TargetBits = 2
  PageSize = 4
  NumPhysPages = 3
  UserStackSize = 2
  StackGap = 1
  BitAnd <- MCBitAnd
  BitOr <- MCBitOr
  BitXor <- MCBitXor
  Instructions <- MCInstructions
  Results = {0, 7, 8}
  NoffFiles <- MCNoffFiles
  Running <- MCRunning
INVARIANTS
  MachineInv
  OneMemoryForBoth
PROPERTIES
  ChangesAreNoted
  ImplementsMips
CHECK_DEADLOCK FALSE
