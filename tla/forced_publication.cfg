SPECIFICATION Spec
CONSTANTS
  Tasks = {t1}
  Runs = {r1}
  Requests <- OnlyRiskyCompact
  FlaggingNodes = {}
  FailingNodes = {}
  Recommendations = {{}}
  RestartNodes = {}
  RunImmediately = {TRUE}
  PolicyMayChange = FALSE
  MaxEdits = 1
  Budget <- NoInterference
INVARIANTS ForcedPublicationIsApproved
