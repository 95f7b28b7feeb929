CONSTANTS
  j1 = j1  j2 = j2  j3 = j3  j4 = j4  k1 = k1  k2 = k2  w1 = w1  w2 = w2
  NoJob = NoJob
  Jobs <- MCJobs
  Keys <- MCKeys
  Key <- MCKey
  Mutations <- MCMutations
  Forged <- MCForged
  Workers <- MCWorkers
  QueueSize = 1
  FailureThreshold = 2
SPECIFICATION Spec
SYMMETRY Symmetry
INVARIANTS
  AtMostOneSuccess
  NoConcurrentDuplicate
  SuccessIsReal
  UnsuccessfulMutationIsRecorded
  StoppedStaysStopped
  OpenExactlyAtThreshold
PROPERTIES
  ConfirmationIsFinal
