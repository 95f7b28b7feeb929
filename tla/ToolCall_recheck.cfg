CONSTANTS
  Deployments <- AllDeployments
  Faults <- StoreFaults
  MaxAttempts = 3
SPECIFICATION Spec
INVARIANTS
  ExecutedIsAllowed
CHECK_DEADLOCK FALSE
