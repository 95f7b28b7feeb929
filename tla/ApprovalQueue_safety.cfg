CONSTANTS
  Operators = {o1, o2, o3}
  NoOperator = NoOperator
  Faults <- AllFaults
SPECIFICATION FairSpec
INVARIANTS
  OutcomeWasDecided
PROPERTIES
  OverwriteNeedsOverlap
  WaitEnds
CHECK_DEADLOCK FALSE
