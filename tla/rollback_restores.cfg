SPECIFICATION Spec
CONSTANTS
    Absent = Absent
    Unreliable = {"edited"}
    Paths <- MCPaths
    Initial <- MCInitial
    Operations <- MCOperations
    MaxPlan = 2
    Batches = 1
    Executions <- MCExecutions
    WorkerRetryAttempts = 2
    Backends = {"llm", "readme", "timeout", "revert", "openhands"}
    Target = "edited"
    Mark <- MCMark
    Theirs <- MCTheirs
    TestOutputs <- MCTestOutputs
    MaxRestarts = 1
PROPERTY RollbackRestoresTree
CHECK_DEADLOCK FALSE
