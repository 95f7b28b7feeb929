CONSTANTS
  Calls = {c1, c2, c3}
  Genesis = Genesis
  NoCall = NoCall
  Faults <- Cancels
SPECIFICATION Spec
INVARIANTS
  FileVerifies
CHECK_DEADLOCK FALSE
