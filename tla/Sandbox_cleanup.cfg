CONSTANT MaxAttempts = 2
SPECIFICATION FairSpec
INVARIANT OrphanNeedsExcuse
PROPERTY ContainersEnd
CHECK_DEADLOCK FALSE
