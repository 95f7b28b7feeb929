CONSTANTS
  Updates = {u1, u2}
  Faults <- AllFaults
  MaxLost = 2
SPECIFICATION FairSpec
INVARIANTS
  InvocationOrder
PROPERTIES
  ImplementsStateStore
  UpdatesEnd
CHECK_DEADLOCK FALSE
