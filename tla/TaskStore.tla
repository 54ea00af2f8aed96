------------------------------ MODULE TaskStore ------------------------------
(***************************************************************************)
(* TaskService (services/shared/agentic_lab/task_service.py): every write  *)
(* to a task row, as an operator from the old row to the new one.  Each    *)
(* method is one database session with one commit and no await, so a       *)
(* caller's step applies the whole operator at once.                       *)
(*                                                                         *)
(* Of a row only what routing and the gates read is kept: texts, events,   *)
(* snapshots, progress and timestamps are left out.  A worker result is    *)
(* reduced to whether it succeeded and whether it carried risk flags (for  *)
(* reviewer and security: whether it asked for a human, which those        *)
(* workers do exactly when they report flags).                             *)
(***************************************************************************)
EXTENDS WorkflowRouting

CONSTANT MaxEdits     \* bound on how often the coding worker edits a workspace

Gates == {"repository-modification", "risk-review"}
Decisions == {"APPROVE", "REJECT"}
Specialists == {"data", "ux"}
Outcomes == {"clean", "flagged", "failed"}
NoResult == "missing"

\* The part of a create request that is stored in metadata_json and never changes.
TaskRequest ==
    [ profile : Profiles, autoDeploy : BOOLEAN, forceDeploy : BOOLEAN,
      forcePublishApproval : BOOLEAN, target : {"staging", "self"},
      rollback : BOOLEAN, allowModifications : BOOLEAN ]

\* A task row.  Status "ABSENT" marks an id for which no row was created yet.
\* A commit is named by the edit whose content it holds; 0 is none.
TaskRecord ==
    [ status : Statuses \cup {"ABSENT"},
      resumeTarget : Nodes \cup {None},
      approvalRequired : BOOLEAN,
      gate : Gates \cup {None},                  \* current_approval_gate_name
      allowModifications : BOOLEAN,
      archived : BOOLEAN,
      req : TaskRequest,
      results : [Nodes -> Outcomes \cup {NoResult}],
      specialists : SUBSET Specialists,          \* human_resources recommended_workers
      riskFlags : BOOLEAN,                       \* risk_flags_json is not empty
      githubCommit : 0..MaxEdits,              \* commit_sha in the github result
      deployCommit : 0..MaxEdits,              \* deployment_target_commit_sha
      pullRequest : BOOLEAN,                     \* pull_request_url is set
      lastRestart : Nodes \cup {None},           \* last_restart_request
      approvals : SUBSET (Gates \X Decisions) ]  \* rows of ApprovalRecord

EmptyRecord(q) ==
    [ status |-> "ABSENT", resumeTarget |-> None, approvalRequired |-> FALSE,
      gate |-> None, allowModifications |-> q.allowModifications,
      archived |-> FALSE, req |-> q, results |-> [n \in Nodes |-> NoResult],
      specialists |-> {}, riskFlags |-> FALSE, githubCommit |-> 0,
      deployCommit |-> 0, pullRequest |-> FALSE, lastRestart |-> None,
      approvals |-> {} ]

CreateTask(q) == [EmptyRecord(q) EXCEPT !.status = "NEW"]

UpdateStatus(v, s, target) == [v EXCEPT !.status = s, !.resumeTarget = target]

FailTask(v) == UpdateStatus(v, "FAILED", None)

\* store_worker_result: the result replaces an earlier one of the same worker,
\* its flags are merged into the row's and never removed.
StoreWorkerResult(v, n, outcome, recommended, commit) ==
    [v EXCEPT !.results[n] = outcome,
              !.riskFlags = @ \/ outcome = "flagged",
              !.specialists = IF n = "human_resources" THEN recommended ELSE @,
              !.githubCommit = IF n = "github" THEN commit ELSE @]

SetApprovalRequired(v, target, gateName) ==
    [v EXCEPT !.status = "APPROVAL_REQUIRED", !.approvalRequired = TRUE,
              !.resumeTarget = target, !.gate = gateName]

\* record_approval.  The decision names a gate; neither branch compares it with
\* the gate that is open, nor looks at the status of the task.
RecordApproval(v, gateName, decision) ==
    LET recorded == [v EXCEPT !.approvals = @ \cup {<<gateName, decision>>},
                              !.gate = None]
    IN IF decision = "APPROVE"
       THEN [recorded EXCEPT
               !.approvalRequired = FALSE,
               !.allowModifications = @ \/ gateName = "repository-modification"]
       ELSE [recorded EXCEPT !.status = "FAILED"]

Cleared(m, n) == StageIndex[m] >= StageIndex[n]

RestartFromWorker_StoresWorkerName(v, n) == [v EXCEPT !.status = n]

RestartFromWorker_KeepsGate(v, n) ==
    [v EXCEPT !.status = RestartStatus[n], !.resumeTarget = n, !.lastRestart = n]

\* restart_from_worker: the results from the selected worker on are dropped and
\* the risk flags are collected again from the results that stay.
RestartFromWorker(v, n) ==
    LET kept == [m \in Nodes |-> IF Cleared(m, n) THEN NoResult ELSE v.results[m]]
    IN [v EXCEPT !.results = kept,
                 !.riskFlags = \E m \in Nodes : kept[m] = "flagged",
                 !.specialists = IF Cleared("human_resources", n) THEN {} ELSE @,
                 !.githubCommit = IF Cleared("github", n) THEN 0 ELSE @,
                 !.status = RestartStatus[n],
                 !.resumeTarget = n,
                 !.approvalRequired = FALSE,
                 !.gate = None,
                 !.pullRequest = IF Cleared("github", n) THEN FALSE ELSE @,
                 !.lastRestart = n]

Archivable(v) == v.status \in {"NEW", "DONE", "FAILED"} /\ ~v.approvalRequired

SetArchived(v, flag) == [v EXCEPT !.archived = flag]
==============================================================================
