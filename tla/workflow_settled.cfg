SPECIFICATION Spec
CONSTANTS
  Tasks = {t1}
  Runs = {r1, r2}
  Requests <- SettledRequests
  FlaggingNodes = {"review", "security"}
  FailingNodes = {"research", "coding", "github", "qa"}
  Recommendations = {{}, {"data"}, {"ux"}, {"data", "ux"}}
  RestartNodes = {"requirements", "github", "memory"}
  RunImmediately = {TRUE}
  PolicyMayChange = TRUE
  MaxEdits = 1
  Budget <- UncrashedBudget
SYMMETRY RunSymmetry
INVARIANTS RunsRestSettled
