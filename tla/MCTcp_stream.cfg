SPECIFICATION Spec
CONSTANTS
  SeqSpace = 10
  Iss = 6
  Irs = 7
  RecvCap = 2
  SendCap = 2
  Mss = 2
  RtoTicks = 1
  ConnectTicks = 2
  TimeWaitTicks = 1
  MaxRetries = 1
  QueueCap = 2
  Bounds <- MCBounds
INVARIANTS StreamIntact EndIsReal NothingForgotten
PROPERTY CloseCompletes
CHECK_DEADLOCK FALSE
