SPECIFICATION FSSpec
CONSTANTS
  NumSectors = 11
  SectorSize = 2
  NumDirEntries = 4
  NumDirect = 2
  Straddling = 4
  FileNames = {"longname1", "longname2", "other"}
  Short <- MCShort
  InitialFiles <- MCInitialFiles
  Sizes = {1, 3, 5}
  Chunks <- MCChunks
  Positions <- MCPositions
  Counts = {2}
  Bytes = {1}
  Junk = Junk
  NULL = NULL
CHECK_DEADLOCK FALSE
INVARIANTS
  FileSystemInv
PROPERTIES
  OthersUntouched
  ImplementsFiles
