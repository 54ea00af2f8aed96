SPECIFICATION FairSpec
CONSTANTS
  Tasks = {"t1"}
  Commits = {"c0", "c1"}
  NoCommit = "unknown"
  Base = "c0"
  Target <- OneTarget
  DefaultTiming = TRUE
  WorkerRetryAttempts = 2
  MaxPosts = 1
  MaxRestarts = 1
CHECK_DEADLOCK FALSE
PROPERTY MonitoringIsDecided
