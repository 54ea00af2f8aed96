SPECIFICATION Spec
CONSTANTS
  Workers <- MCWorkers
  Overrides <- MCOverrides
  Deadline <- MCDeadline
  ReadTimeout = 2
  StageTimeout = 3
  RetryAttempts = 2
INVARIANTS TypeOK HeuristicIsLastResort 
PROPERTIES EverythingEnds
CHECK_DEADLOCK FALSE
