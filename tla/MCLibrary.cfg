SPECIFICATION LibrarySpec
CONSTANTS
  Cells = {1, 2, 3, 4}
  NULL = NULL
  Compare <- MCCompare
  Objects = {2, 3, 4, 5}
  KeyOf <- MCKeyOf
  Hash <- MCHash
  InitialBuckets = 1
  ResizeRatio = 1
  IncreaseSizeBy = 2
  MaxItems = 4
INVARIANTS
  LibraryInv
PROPERTIES
  ImplementsLibrary
