CONSTANTS
  j1 = j1  j2 = j2  j3 = j3  k1 = k1  k2 = k2  w1 = w1
  NoJob = NoJob
  Jobs <- MCJobs
  Keys <- MCKeys
  Key <- MCKey
  Attempt <- MCAttempt
  Mutations <- MCMutations
  Forged <- MCForged
  Workers <- MCWorkers
  Idempotent <- MCIdempotent
  QueueSize = 1
  FailureThreshold = 2
SPECIFICATION RemoteSpec
INVARIANTS
  DoubtIsTold
  RemoteSuccessIsReal
PROPERTIES
  SubmissionsEnd
  StopTerminates
  DrainCompletes
