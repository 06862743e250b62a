SPECIFICATION Spec
CONSTANTS
  s1 = s1  s2 = s2  c1 = c1  c2 = c2
  NoHolder = NoHolder
  Ports = {0}
  MaxSeq = 2
  EventDepth = 1
  RequestDepth = 2
  MaxConnections = 2
  MaxPerHolder = 1
  MaxTransfers = 1
  MaxConnTransfers = 1
  Bounds <- MCBounds
INVARIANTS QueuesServed NoLostWakeup DeliveredInOrder ChildrenAccounted
PROPERTIES EndsAreReported
CHECK_DEADLOCK FALSE
SYMMETRY ClientSymmetry
