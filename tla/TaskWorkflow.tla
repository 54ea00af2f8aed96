----------------------------- MODULE TaskWorkflow -----------------------------
(***************************************************************************)
(* The orchestrator: the HTTP handlers of services/orchestrator/app.py and *)
(* the workflow runs of services/orchestrator/workflow.py.                 *)
(*                                                                         *)
(* Everything runs on one asyncio loop, so a step is the code between two  *)
(* awaits.  A handler is one step.  A run is a background coroutine:       *)
(*                                                                         *)
(*   starting --BeginRun--> ready --Dispatch--> waiting --StageReturns-->  *)
(*   ready ... --> ending --EndRun--> idle                                 *)
(*                                                                         *)
(* Its graph routes on view[r], the copy of the row the last node returned.*)
(* Between two nodes, and between the last node and the release of the run *)
(* lock, handlers may change the row and the run does not see it.          *)
(***************************************************************************)
EXTENDS TaskStore

CONSTANTS
    Tasks,            \* task ids
    Runs,             \* ids for background runs; reused once idle
    Requests,         \* create requests the operators send
    FlaggingNodes,    \* stages whose worker may report risk flags
    FailingNodes,     \* stages whose worker may fail or time out
    Recommendations,  \* specialist sets human_resources may recommend
    RestartNodes,     \* stages operators restart from
    RunImmediately,   \* values of TaskStageRestartRequest.run_immediately used
    PolicyMayChange,  \* whether the repository allowlist is edited
    Budget            \* bounds: how many restarts, decisions and crashes happen

ASSUME MaxEditsAssumption == MaxEdits \in Nat \ {0}
ASSUME NamesAssumption == None \notin Tasks /\ Runs # {}
ASSUME RequestsAssumption == Requests # {} /\ Requests \subseteq TaskRequest
ASSUME StagesAssumption ==
    /\ FlaggingNodes \subseteq Nodes
    /\ FailingNodes \subseteq Nodes
    /\ RestartNodes \subseteq Nodes
    /\ Recommendations \subseteq SUBSET Specialists /\ Recommendations # {}
ASSUME BudgetAssumption ==
    /\ RunImmediately \subseteq BOOLEAN
    /\ PolicyMayChange \in BOOLEAN
    /\ Budget \in [restarts : Nat, decisions : Nat, crashes : Nat]

VARIABLES
    task,        \* the rows of the tasks table
    allowed,     \* whether the allowlist admits the repository of a task
    workspace,   \* how often the coding worker edited the task's workspace
    running,     \* app.state.running_tasks, lost when the process dies
    pc, on, node, view,   \* per run: position, task, graph node, captured state
    budget       \* what is left of Budget

runVars == <<running, pc, on, node, view>>
vars == <<task, allowed, workspace, runVars, budget>>

NoView == EmptyRecord(CHOOSE q \in Requests : TRUE)
Positions == {"idle", "starting", "ready", "waiting", "ending"}

TypeOK ==
    /\ task \in [Tasks -> TaskRecord]
    /\ allowed \in [Tasks -> BOOLEAN]
    /\ workspace \in [Tasks -> 0..MaxEdits]
    /\ running \in SUBSET Tasks
    /\ pc \in [Runs -> Positions]
    /\ on \in [Runs -> Tasks \cup {None}]
    /\ node \in [Runs -> Nodes \cup {None}]
    /\ view \in [Runs -> TaskRecord]
    /\ budget \in [restarts : Nat, decisions : Nat, crashes : Nat]

Init ==
    /\ task = [t \in Tasks |-> NoView]
    /\ allowed = [t \in Tasks |-> TRUE]
    /\ workspace = [t \in Tasks |-> 0]
    /\ running = {}
    /\ pc = [r \in Runs |-> "idle"]
    /\ on = [r \in Runs |-> None]
    /\ node = [r \in Runs |-> None]
    /\ view = [r \in Runs |-> NoView]
    /\ budget = Budget

Created(t) == task[t].status # "ABSENT"
Write(t, v) == task' = [task EXCEPT ![t] = v]
Spend(what) ==
    /\ budget[what] > 0
    /\ budget' = [budget EXCEPT ![what] = @ - 1]

-------------------------------------------------------------------------------
(* HTTP handlers *)

\* running_tasks.add and asyncio.create_task(_run_in_background)
Schedule(t) ==
    \E r \in Runs :
        /\ pc[r] = "idle"
        /\ running' = running \cup {t}
        /\ pc' = [pc EXCEPT ![r] = "starting"]
        /\ on' = [on EXCEPT ![r] = t]
        /\ UNCHANGED <<node, view>>

\* POST /api/tasks
PostTask(t) ==
    /\ ~Created(t)
    /\ allowed[t]
    /\ \E q \in Requests : Write(t, CreateTask(q))
    /\ UNCHANGED <<allowed, workspace, runVars, budget>>

PostRun_IgnoresLock(t) ==
    /\ Created(t) /\ allowed[t] /\ ~task[t].archived
    /\ Schedule(t)
    /\ UNCHANGED <<task, allowed, workspace, budget>>

PostRun_IgnoresArchive(t) ==
    /\ Created(t) /\ allowed[t] /\ t \notin running
    /\ Schedule(t)
    /\ UNCHANGED <<task, allowed, workspace, budget>>

\* POST /api/tasks/{id}/run; for a task that runs already it changes nothing
PostRun(t) ==
    /\ Created(t) /\ allowed[t] /\ ~task[t].archived
    /\ t \notin running
    /\ Schedule(t)
    /\ UNCHANGED <<task, allowed, workspace, budget>>

\* POST /api/tasks/{id}/restart-stage
PostRestartStage(t, n) ==
    /\ Created(t) /\ allowed[t] /\ ~task[t].archived
    /\ t \notin running
    /\ Spend("restarts")
    /\ Write(t, RestartFromWorker(task[t], n))
    /\ \E now \in RunImmediately : IF now THEN Schedule(t) ELSE UNCHANGED runVars
    /\ UNCHANGED <<allowed, workspace>>

PostArchive_IgnoresLock(t) ==
    /\ Created(t) /\ ~task[t].archived /\ Archivable(task[t])
    /\ Write(t, SetArchived(task[t], TRUE))
    /\ UNCHANGED <<allowed, workspace, runVars, budget>>

\* POST /api/tasks/{id}/archive
PostArchive(t) ==
    /\ Created(t) /\ t \notin running
    /\ ~task[t].archived /\ Archivable(task[t])
    /\ Write(t, SetArchived(task[t], TRUE))
    /\ UNCHANGED <<allowed, workspace, runVars, budget>>

\* POST /api/tasks/{id}/restore
PostRestore(t) ==
    /\ Created(t) /\ task[t].archived
    /\ Write(t, SetArchived(task[t], FALSE))
    /\ UNCHANGED <<allowed, workspace, runVars, budget>>

\* POST /api/tasks/{id}/approvals: no check of the policy, the status or the
\* open gate, and an approval starts a run only when none is registered
PostDecision(t, gateName, decision) ==
    /\ Created(t) /\ ~task[t].archived
    /\ Spend("decisions")
    /\ Write(t, RecordApproval(task[t], gateName, decision))
    /\ IF decision = "APPROVE" /\ t \notin running
       THEN Schedule(t) ELSE UNCHANGED runVars
    /\ UNCHANGED <<allowed, workspace>>

\* PUT /api/settings/repository-access
PutPolicy(t) ==
    /\ PolicyMayChange
    /\ allowed' = [allowed EXCEPT ![t] = ~@]
    /\ UNCHANGED <<task, workspace, runVars, budget>>

-------------------------------------------------------------------------------
(* The run of a task *)

\* The graph moves on to next, or the coroutine reaches its finally block.
\* A route the compiled graph does not know raises, which ends the run too.
GoTo(r, next, exits) ==
    LET moves == next # "stop" /\ next \in exits
    IN /\ pc' = [pc EXCEPT ![r] = IF moves THEN "ready" ELSE "ending"]
       /\ node' = [node EXCEPT ![r] = IF moves THEN next ELSE None]
       /\ UNCHANGED <<on, running>>

\* The node of run r ends with row v: store it, return it, route on it.
LeaveNode(r, v) ==
    /\ Write(on[r], v)
    /\ view' = [view EXCEPT ![r] = v]
    /\ GoTo(r, RouteAfter(node[r], v), RouteMap(node[r]))

\* run_task: read the row, check the policy, route to the first node
BeginRun(r) ==
    /\ pc[r] = "starting"
    /\ LET t == on[r] IN
       IF allowed[t]
       THEN /\ view' = [view EXCEPT ![r] = task[t]]
            /\ GoTo(r, RouteEntry(task[t]), Nodes)
            /\ UNCHANGED task
       ELSE /\ Write(t, FailTask(task[t]))
            /\ GoTo(r, "stop", {})
            /\ UNCHANGED view
    /\ UNCHANGED <<allowed, workspace, budget>>

AskForModification_Polls(r) ==
    /\ pc[r] = "ready" /\ node[r] = "coding"
    /\ ~view[r].allowModifications
    /\ Write(on[r], SetApprovalRequired(task[on[r]], "coding", "repository-modification"))
    /\ UNCHANGED <<allowed, workspace, runVars, budget>>

\* _coding_node without permission: open the repository-modification gate
AskForModification(r) ==
    /\ pc[r] = "ready" /\ node[r] = "coding"
    /\ ~view[r].allowModifications
    /\ LeaveNode(r, SetApprovalRequired(task[on[r]], "coding", "repository-modification"))
    /\ UNCHANGED <<allowed, workspace, budget>>

\* The commit a deploy stage is asked for: a pinned one wins over the last PR's.
DeployTarget(v) == IF v.deployCommit # 0 THEN v.deployCommit ELSE v.githubCommit

\* What starting the stage of node n writes, for a graph state v.
StartStage(rec, n, v) ==
    LET started == UpdateStatus(rec, StageStatus[n], IF n = "github" THEN n ELSE None)
    IN IF n = "deploy" /\ DeployTarget(v) # 0
       THEN [started EXCEPT !.deployCommit = DeployTarget(v)] ELSE started

Dispatch_Unasked(r) ==
    /\ pc[r] = "ready"
    /\ Write(on[r], StartStage(task[on[r]], node[r], view[r]))
    /\ pc' = [pc EXCEPT ![r] = "waiting"]
    /\ UNCHANGED <<allowed, workspace, running, on, node, view, budget>>

\* _run_stage up to its await of call_worker
Dispatch(r) ==
    /\ pc[r] = "ready"
    /\ node[r] = "coding" => view[r].allowModifications
    /\ Write(on[r], StartStage(task[on[r]], node[r], view[r]))
    /\ pc' = [pc EXCEPT ![r] = "waiting"]
    /\ UNCHANGED <<allowed, workspace, running, on, node, view, budget>>

\* The content of the workspace after the worker of node n did its work.
NewestEdit(n, t) ==
    IF n = "coding" /\ workspace[t] < MaxEdits THEN workspace[t] + 1 ELSE workspace[t]

\* The worker's edits stay, whatever becomes of its answer.
MayHaveEdited(r) ==
    workspace' \in {workspace,
                    [workspace EXCEPT ![on[r]] = NewestEdit(node[r], on[r])]}

\* The stage timeout fires, or call_worker gives up: nothing is stored
StageFails(r) ==
    /\ pc[r] = "waiting" /\ node[r] \in FailingNodes
    /\ LeaveNode(r, FailTask(task[on[r]]))
    /\ MayHaveEdited(r)
    /\ UNCHANGED <<allowed, budget>>

ApprovalNeededBeforeGithub(v) ==
    \/ v.riskFlags
    \/ v.results.review = "flagged" \/ v.results.security = "flagged"
    \/ v.req.forcePublishApproval

FinishNode_NeverDone(n, v) ==
    IF n = "documentation" /\ ApprovalNeededBeforeGithub(v)
    THEN SetApprovalRequired(v, "github", "risk-review") ELSE v

\* What a node writes after its stage succeeded and left row v.
FinishNode(n, v) ==
    IF v.status = "FAILED" THEN v
    ELSE CASE n \in {"rollback", "memory"} -> UpdateStatus(v, "DONE", None)
           [] n = "documentation" /\ ApprovalNeededBeforeGithub(v) ->
                SetApprovalRequired(v, "github", "risk-review")
           [] n = "github" ->
                UpdateStatus([v EXCEPT !.pullRequest = TRUE], "PR_CREATED", None)
           [] n = "deploy" ->
                UpdateStatus(v, IF v.req.target = "self" THEN "SELF_UPDATING"
                                ELSE "STAGING_DEPLOYED", None)
           [] OTHER -> v

\* Workers reject what they cannot do: github needs changes to publish, a
\* self-update a commit to roll out.
CanSucceed(n, t) ==
    /\ n = "github" => workspace[t] > 0
    /\ n = "deploy" /\ task[t].req.target = "self" => task[t].deployCommit > 0

\* The worker answers with success: store, then the node's own writes
StageSucceeds(r, outcome) ==
    LET t == on[r]
        n == node[r]
    IN /\ pc[r] = "waiting"
       /\ outcome = "flagged" => n \in FlaggingNodes
       /\ CanSucceed(n, t)
       /\ \E recommended \in IF n = "human_resources" THEN Recommendations ELSE {{}} :
            LET stored == StoreWorkerResult(task[t], n, outcome, recommended, workspace[t])
            IN LeaveNode(r, FinishNode(n, stored))
       /\ workspace' = [workspace EXCEPT ![t] = NewestEdit(n, t)]
       /\ UNCHANGED <<allowed, budget>>

StageReportsFailure_GoesOn(r) ==
    /\ pc[r] = "waiting" /\ node[r] \in FailingNodes
    /\ LeaveNode(r, StoreWorkerResult(task[on[r]], node[r], "failed", {}, 0))
    /\ MayHaveEdited(r)
    /\ UNCHANGED <<allowed, budget>>

\* The worker answers success = False: the result is stored and the task fails
StageReportsFailure(r) ==
    LET t == on[r]
        n == node[r]
    IN /\ pc[r] = "waiting"
       /\ n \in FailingNodes \/ ~CanSucceed(n, t)
       /\ LeaveNode(r, FailTask(StoreWorkerResult(task[t], n, "failed", {}, 0)))
       /\ MayHaveEdited(r)
       /\ UNCHANGED <<allowed, budget>>

\* The finally block of _run_in_background releases the run lock
EndRun(r) ==
    /\ pc[r] = "ending"
    /\ running' = running \ {on[r]}
    /\ pc' = [pc EXCEPT ![r] = "idle"]
    /\ on' = [on EXCEPT ![r] = None]
    /\ node' = [node EXCEPT ![r] = None]
    /\ view' = [view EXCEPT ![r] = NoView]
    /\ UNCHANGED <<task, allowed, workspace, budget>>

\* The orchestrator process dies and starts again: rows survive, runs and
\* running_tasks do not, and lifespan() resumes no ordinary task.
Crash ==
    /\ Spend("crashes")
    /\ running' = {}
    /\ pc' = [r \in Runs |-> "idle"]
    /\ on' = [r \in Runs |-> None]
    /\ node' = [r \in Runs |-> None]
    /\ view' = [r \in Runs |-> NoView]
    /\ UNCHANGED <<task, allowed, workspace>>

-------------------------------------------------------------------------------
HandlerStep(t) ==
    \/ PostTask(t)
    \/ PostRun(t)
    \/ \E n \in RestartNodes : PostRestartStage(t, n)
    \/ PostArchive(t)
    \/ PostRestore(t)
    \/ \E g \in Gates, d \in Decisions : PostDecision(t, g, d)
    \/ PutPolicy(t)

RunStep(r) ==
    \/ BeginRun(r)
    \/ AskForModification(r)
    \/ Dispatch(r)
    \/ StageFails(r)
    \/ \E outcome \in {"clean", "flagged"} : StageSucceeds(r, outcome)
    \/ StageReportsFailure(r)
    \/ EndRun(r)

Next ==
    \/ \E t \in Tasks : HandlerStep(t)
    \/ \E r \in Runs : RunStep(r)
    \/ Crash

Spec == Init /\ [][Next]_vars

\* The loop keeps scheduling a coroutine that can go on, and a worker call ends
\* at the latest when asyncio.timeout fires.  Operators owe nothing.
FairSpec == Spec /\ \A r \in Runs : WF_vars(RunStep(r))

-------------------------------------------------------------------------------
(* Properties *)

InFlight(r, n) == pc[r] = "waiting" /\ node[r] = n

\* No task is ever worked on by two runs, and a run that is alive holds the lock
\* of its task in running_tasks: restart-stage and archive rely on that set to
\* refuse, and run and approvals to start nothing.
OneRunPerTask ==
    \A r \in Runs : pc[r] # "idle" =>
        /\ on[r] \in running
        /\ \A s \in Runs : pc[s] # "idle" /\ on[s] = on[r] => s = r

\* The coding worker is only ever called for a task whose repository may be
\* modified, whatever approvals, restarts and stale graph states came before.
CodingIsPermitted ==
    \A r \in Runs : InFlight(r, "coding") => task[on[r]].allowModifications

\* While a gate is open no worker is at work for the task and no run is about to
\* call one: a run started meanwhile leaves again without passing the gate.
NoWorkBehindAnOpenGate ==
    \A r \in Runs :
        pc[r] \in {"ready", "waiting"} => ~task[on[r]].approvalRequired

\* An archived task is at rest: no run, no open gate, no unfinished stage.
ArchivedIsQuiescent ==
    \A t \in Tasks : task[t].archived =>
        /\ t \notin running
        /\ Archivable(task[t])

\* A task that has waited for a person and still does is gated or was rejected.
OpenGateShowsInStatus ==
    \A t \in Tasks : task[t].approvalRequired =>
        task[t].status \in {"APPROVAL_REQUIRED", "FAILED"}

RestartedAfter(t, n) ==
    task[t].lastRestart # None /\ StageIndex[task[t].lastRestart] > StageIndex[n]

\* On the full path a change with risk flags, or one whose publication needs an
\* approval, reaches the github worker only after some approval was recorded,
\* unless an operator restarted the task behind the gate.
RiskyPublicationIsApproved ==
    \A r \in Runs : LET v == task[on[r]] IN
        InFlight(r, "github") /\ ~UsesCompactFastPath(v) /\ ~RestartedAfter(on[r], "documentation")
            /\ ApprovalNeededBeforeGithub(v)
        => \E g \in Gates : <<g, "APPROVE">> \in v.approvals

\* The stages that must have answered with success before publication.
RequiredChecks(v) ==
    IF UsesCompactFastPath(v) THEN {"coding", "validation"}
    ELSE {"coding", "review", "testing", "security", "validation", "documentation"}

\* What is published went through every check of its path: a result of each is
\* on record and none failed, also after crashes and restarts (a restart behind
\* coding is the operator's own decision to skip).
PublishedWorkIsChecked ==
    \A r \in Runs : InFlight(r, "github") /\ ~RestartedAfter(on[r], "coding") =>
        \A n \in RequiredChecks(task[on[r]]) :
            task[on[r]].results[n] \in {"clean", "flagged"}

\* If the process died now, the task would resume at the stage in flight or at
\* an earlier one, never behind it.  Rollback tasks are covered in the stage they
\* exist for; a deployment that was forced on a task is not repeated.
ResumeReplaysInterruptedStage ==
    \A r \in Runs : LET v == task[on[r]] IN
        /\ pc[r] = "waiting" /\ v.status # "FAILED"
        /\ v.req.rollback => node[r] = "rollback"
        /\ node[r] = "deploy" => v.req.autoDeploy
        => /\ RouteEntry(v) \in Nodes
           /\ StageIndex[RouteEntry(v)] <= StageIndex[node[r]]

\* Whatever stage is in flight, the node its success leads to is an exit of the
\* compiled graph, so that no run dies between two stages.
RoutesStayConnected ==
    \A r \in Runs : pc[r] = "waiting" =>
        Successor(node[r], task[on[r]]) \in RouteMap(node[r])

\* A task no run works on has come to a status in which it may rest: it is never
\* left in the middle of the pipeline (without crashes and deferred restarts).
RunsRestSettled ==
    \A t \in Tasks : Created(t) /\ t \notin running =>
        task[t].status \in {"NEW", "APPROVAL_REQUIRED", "SELF_UPDATING", "DONE", "FAILED"}

\* A finished task is not reopened by a run, however late its steps come: it can
\* only be failed (by a rejection, or a policy revoked meanwhile).
FinishedIsNotReopenedByRuns ==
    [][\A t \in Tasks : task[t].status = "DONE" /\ t \in running =>
            task'[t].status \in {"DONE", "FAILED"}]_vars

\* A rejected task stays rejected: record_approval shall "fail the task", and
\* while a run holds the lock no restart can reopen it.
RejectionSticks ==
    [][\A t \in Tasks : task[t].status = "FAILED" /\ t \in running =>
            task'[t].status = "FAILED"]_vars

\* Every run ends: the graph has no cycle and every worker call is bounded.
RunsTerminate == \A r \in Runs : pc[r] # "idle" ~> pc[r] = "idle"

\* An approved task goes on at its resume target.
ApprovalResumes ==
    \A t \in Tasks :
        task[t].status = "APPROVAL_REQUIRED" /\ ~task[t].approvalRequired
            ~> task[t].status # "APPROVAL_REQUIRED"

\* A publication that was marked as needing an approval has one on record.
ForcedPublicationIsApproved ==
    \A r \in Runs : LET v == task[on[r]] IN
        InFlight(r, "github") /\ v.req.forcePublishApproval /\ v.lastRestart = None
        => \E g \in Gates : <<g, "APPROVE">> \in v.approvals

\* What is deployed is the commit the github stage published last.
DeployedCommitIsPublished ==
    \A r \in Runs : InFlight(r, "deploy") =>
        task[on[r]].deployCommit = task[on[r]].githubCommit

-------------------------------------------------------------------------------
(* Refinement: a task as TaskLifecycle sees it *)

ModeOf(t) ==
    IF ~Created(t) THEN "absent"
    ELSE IF t \notin running THEN "resting"
    ELSE IF \E r \in Runs : on[r] = t /\ pc[r] = "ending" THEN "leaving"
    ELSE "active"

Lifecycle == INSTANCE TaskLifecycle WITH
    mode      <- [t \in Tasks |-> ModeOf(t)],
    gated     <- {t \in Tasks : task[t].approvalRequired},
    archived  <- {t \in Tasks : task[t].archived},
    permitted <- {t \in Tasks : task[t].allowModifications},
    modified  <- {t \in Tasks : workspace[t] > 0}

\* The pipeline keeps every promise of TaskLifecycle: archived tasks rest, only
\* the run that pauses opens a gate, only decisions and restarts clear it, and
\* no run works behind a gate or modifies a repository without permission.
ImplementsLifecycle == Lifecycle!Spec
===============================================================================
