SPECIFICATION Spec
CONSTANTS
  RawModes = {"auto", "unknown"}
  DeployAfterSuccess = TRUE
  AutoRollback = TRUE
  RetryLimits = {1, 2}
  DailyLimit = 1
  SessionCycles = 2
  Goals = {{"auth"}, {"auth", "tiny_fix"}}
  MaxCycles = 2
  MaxTasks = 2
  MaxSessions = 1
  MaxDisturbances = 2
  MaxRestarts = 1
INVARIANT FollowedToCompletion
CHECK_DEADLOCK FALSE
