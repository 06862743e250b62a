SPECIFICATION Spec
CONSTANTS
  TaskCount = 2
  PendingKeys = {netWork}
  RegisteredKeys = {workSet}
  MaxPid = 3
  MaxTime = 2
INVARIANTS WaitersMatchThreads NoLostWakeup OutcomeHonest
PROPERTIES ReadyThreadRuns TimedWaitEnds
CHECK_DEADLOCK FALSE
