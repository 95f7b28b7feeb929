CONSTANTS
  Deployments <- AllDeployments
  Faults <- NoFaults
  MaxAttempts = 3
SPECIFICATION FairSpec
INVARIANTS
  ExecutedIsAllowed
  CompletedIsAudited
  DurableAgrees
PROPERTIES
  TerminalIsFinal
  CallEnds
CHECK_DEADLOCK FALSE
