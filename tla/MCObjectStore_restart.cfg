SPECIFICATION Spec
CONSTANTS
  BlockCount = 6
  Blank = Blank
  Torn = Torn
  a = a
  c = c
  Ids = {1}
  Names = {"m"}
  Blocks <- DistinctBlocks
  BlockSum <- DistinctSums
  Payloads <- DistinctPayloads
  MaxObjects = 1
  MaxGeneration = 3
  MaxFaults = 1
  ProcessCrash = TRUE
  ReadFaults = FALSE
INVARIANT RecoverySafe
CHECK_DEADLOCK FALSE
