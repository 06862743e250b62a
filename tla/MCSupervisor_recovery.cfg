SPECIFICATION Spec
CONSTANTS
  a = a
  b = b
  Services = {a, b}
  DependsOn <- MCDependsOn
  QueueSlots = 4
  MaxGeneration = 4
  StartTries = 2
  SpawnFails = TRUE
  Systems <- RecoverySystems
INVARIANT ViewsAgree
PROPERTIES RestartsJustified FailureHandled
CHECK_DEADLOCK FALSE
