SPECIFICATION Spec
CONSTANTS
  p1 = p1
  p2 = p2
  p3 = p3
  Pids = {p1, p2, p3}
  NoPid = NoPid
  SlotCount = 2
  HolderCount = 2
  SocketCount = 2
  MaxLive = 2
  SessionCount = 2
  ParkedCount = 1
  MaxIds = 15
  Bounds <- Mixes
INVARIANTS NoLostWakeup BridgeAccounted
PROPERTY ExitReclaimed
CHECK_DEADLOCK FALSE
