SPECIFICATION Spec
CONSTANTS
  BlockCount = 6
  Blank = Blank
  Torn = Torn
  a = a
  c = c
  Ids = {1}
  Names = {"m"}
  Blocks <- DistinctBlocks
  BlockSum <- DistinctSums
  Payloads <- DistinctPayloads
  MaxObjects = 1
  MaxGeneration = 2
  MaxFaults = 2
  ProcessCrash = FALSE
  ReadFaults = FALSE
INVARIANTS
  RecoverySafe
PROPERTIES
  CellSpec
CHECK_DEADLOCK FALSE
