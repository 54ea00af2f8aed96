SPECIFICATION Spec
CONSTANTS
  Checks = {lint}
  MaxDebug = 1
  CILimits = {1, 2}
  Debuggers = {d1, d2}
  MaxTasks = 3
  CheckedTasks = {1, 2}
  MaxDisturbances = 1
INVARIANTS TypeOK FixesAreBounded SettledChecksAreAnsweredOnce
  InProgressIsMonitored
SYMMETRY Symmetry
CHECK_DEADLOCK FALSE
