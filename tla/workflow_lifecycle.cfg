SPECIFICATION FairSpec
CONSTANTS
  Tasks = {t1}
  Runs = {r1, r2}
  Requests <- GateRequests
  FlaggingNodes = {"review"}
  FailingNodes = {"coding"}
  Recommendations = {{}}
  RestartNodes = {"coding", "github"}
  RunImmediately = {TRUE, FALSE}
  PolicyMayChange = TRUE
  MaxEdits = 2
  Budget <- CoreBudget
PROPERTIES ImplementsLifecycle RunsTerminate
