SPECIFICATION Spec
CONSTANTS
  Tasks = {t1}
  Runs = {r1, r2}
  Requests <- CoreRequests
  FlaggingNodes = {"review"}
  FailingNodes = {"testing", "github", "deploy"}
  Recommendations = {{}, {"data", "ux"}}
  RestartNodes = {"coding", "validation", "github", "deploy"}
  RunImmediately = {TRUE, FALSE}
  PolicyMayChange = FALSE
  MaxEdits = 2
  Budget <- CoreBudget
SYMMETRY RunSymmetry
INVARIANTS TypeOK OneRunPerTask CodingIsPermitted NoWorkBehindAnOpenGate ArchivedIsQuiescent
  OpenGateShowsInStatus RiskyPublicationIsApproved PublishedWorkIsChecked
  ResumeReplaysInterruptedStage RoutesStayConnected
PROPERTIES FinishedIsNotReopenedByRuns
