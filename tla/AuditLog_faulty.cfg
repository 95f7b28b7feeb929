CONSTANTS
  Calls = {c1, c2, c3}
  Genesis = Genesis
  NoCall = NoCall
  Faults <- AllFaults
SPECIFICATION FairSpec
INVARIANTS
  ChainIntact
  ReturnedIsDurable
  NoDanglingLink
PROPERTIES
  RecordsAreImmutable
  AppendsEnd
CHECK_DEADLOCK FALSE
