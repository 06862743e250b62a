SPECIFICATION Spec
CONSTANTS
  c1 = c1
  c2 = c2
  Clients = {c1, c2}
  Holds <- MCHolds
  SlotCount = 2
  MaxRequests = 2
  MaxInstances = 2
  Nothing = Nothing
  NoClient = NoClient
INVARIANTS AcknowledgedKept
PROPERTIES DescriptorsStable PollReturns
CHECK_DEADLOCK FALSE
