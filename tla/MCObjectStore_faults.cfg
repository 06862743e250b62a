SPECIFICATION Spec
CONSTANTS
  BlockCount = 6
  Blank = Blank
  Torn = Torn
  a = a
  c = c
  Ids = {1, 2}
  Names = {"m", "n"}
  Blocks <- SmallBlocks
  BlockSum <- SmallSums
  Payloads <- SmallPayloads
  MaxObjects = 2
  MaxGeneration = 2
  MaxFaults = 1
  ProcessCrash = TRUE
  ReadFaults = TRUE
INVARIANTS SuperblocksConsistent
PROPERTY ActiveSlotUntouched
CHECK_DEADLOCK FALSE
