SPECIFICATION Spec
CONSTANTS
  q1 = q1
  q2 = q2
  t1 = t1
  t2 = t2
  t3 = t3
  t4 = t4
  Pids = {q1, q2}
  Holders = {q1, q2}
  Threads = {t1, t2, t3, t4}
  OwnerOf <- MCOwnerOf
  Loads <- MCLoads
  SetSlots = {0}
  Bits = {0, 1}
  NoHolder = NoHolder
  MaxSetGen = 3
  N = 3
  MaxGen = 3
  MaxDelegationDepth = 1
  Rights = {"read", "write", "delegate", "revoke"}
  RootOnly = {"write", "delegate", "revoke"}
  BufferSlots = {0, 1}
  MaxBufferGen = 2
  Sizes = {1, 2}
  PagesPerTable = 1
  MaxAttachments = 2
  Rows = {0, 1}
  MaxOwnerBuffers = 2
  MaxOwnerPages = 3
  TotalFrames = 8
  MaxPins = 2
  QueueDepth = 3
  HighWater = 2
  MaxDeviceGen = 2
  MaxEvents = 5
INVARIANTS NoStrandedWaiter BindingStaysWithHolder FramesAccounted MappingsAuthorised LossesInOrder
CHECK_DEADLOCK FALSE
SYMMETRY Symmetric
