CONSTANTS
  Deployments <- AllDeployments
  Faults <- AllFaults
  MaxAttempts = 3
SPECIFICATION Spec
INVARIANTS
  GateHolds
  NonIdempotentRunsOnce
  AnswerMatchesRecord
  AuditMatchesRecord
CHECK_DEADLOCK FALSE
