------------------------- MODULE TaskWorkflowProofs -------------------------
(***************************************************************************)
(* Proofs about TaskWorkflow, for every set of tasks and runs, every set   *)
(* of requests and stages, and every budget.                               *)
(***************************************************************************)
EXTENDS TaskWorkflow, TLAPS

-----------------------------------------------------------------------------
(* Row operators *)

\* A row of a task that was created.
CreatedRecord == {v \in TaskRecord : v.status # "ABSENT"}

\* w is v after a write that neither grants a permission nor touches the archive.
SameGrants(v, w) ==
    /\ w.allowModifications = v.allowModifications
    /\ w.archived = v.archived

\* What every write of a running stage may do to the gate: leave it alone, or
\* open it together with the status that stops the graph.
GateOnlyOpensAtStop(v, w) ==
    \/ w.approvalRequired = v.approvalRequired
    \/ w.approvalRequired /\ w.status = "APPROVAL_REQUIRED"

\* The tables map stages to statuses and statuses to stages.
LEMMA Tables ==
    /\ StageStatus \in [Nodes -> Statuses \ {"DONE"}]
    /\ RestartStatus \in [Nodes -> Statuses \ {"DONE"}]
    /\ EntryNode \in [Statuses -> Nodes]
    /\ None \notin Nodes /\ "stop" \notin Nodes /\ "ABSENT" \notin Statuses
<1>1. StageStatus \in [Nodes -> Statuses \ {"DONE"}]
    BY DEF StageStatus, Nodes, StageIndex, Statuses
<1>2. RestartStatus \in [Nodes -> Statuses \ {"DONE"}]
    BY <1>1 DEF RestartStatus, Statuses
<1>3. EntryNode \in [Statuses -> Nodes]
    <2> SUFFICES ASSUME NEW s \in Statuses PROVE EntryNode[s] \in Nodes
        BY DEF EntryNode
    <2>1. {"requirements", "cost", "research", "architecture", "coding",
           "rollback", "review", "testing", "security", "validation",
           "documentation", "qa", "memory"} \subseteq Nodes
        BY DEF Nodes, StageIndex
    <2> QED
        BY <2>1 DEF EntryNode
<1>4. None \notin Nodes /\ "stop" \notin Nodes /\ "ABSENT" \notin Statuses
    BY DEF None, Nodes, StageIndex, Statuses
<1> QED
    BY <1>1, <1>2, <1>3, <1>4

\* The exits of the compiled graph are stages.
LEMMA RouteMapInNodes ==
    ASSUME NEW n \in Nodes PROVE RouteMap(n) \subseteq Nodes \cup {"stop"}
BY DEF RouteMap, Nodes, StageIndex

\* update_status keeps rows well formed and moves only status and resume target.
LEMMA UpdateStatusRow ==
    ASSUME NEW v \in TaskRecord, NEW s \in Statuses, NEW target \in Nodes \cup {None}
    PROVE  LET w == UpdateStatus(v, s, target) IN
           /\ w \in CreatedRecord
           /\ SameGrants(v, w) /\ w.approvalRequired = v.approvalRequired
           /\ w.status = s
BY Tables DEF UpdateStatus, CreatedRecord, TaskRecord, SameGrants

\* A failed task is a row of the store.
LEMMA FailTaskRow ==
    ASSUME NEW v \in TaskRecord
    PROVE  LET w == FailTask(v) IN
           /\ w \in CreatedRecord
           /\ SameGrants(v, w) /\ w.approvalRequired = v.approvalRequired
           /\ w.status = "FAILED"
BY UpdateStatusRow DEF FailTask, Statuses

\* So is a task whose gate opens.
LEMMA SetApprovalRequiredRow ==
    ASSUME NEW v \in TaskRecord, NEW target \in Nodes, NEW g \in Gates
    PROVE  LET w == SetApprovalRequired(v, target, g) IN
           /\ w \in CreatedRecord /\ SameGrants(v, w)
           /\ w.approvalRequired /\ w.status = "APPROVAL_REQUIRED"
BY DEF SetApprovalRequired, CreatedRecord, TaskRecord, SameGrants, Statuses

\* So is a task with one more result.
LEMMA StoreWorkerResultRow ==
    ASSUME NEW v \in TaskRecord, NEW n \in Nodes, NEW outcome \in Outcomes,
           NEW recommended \in SUBSET Specialists, NEW commit \in 0..MaxEdits
    PROVE  LET w == StoreWorkerResult(v, n, outcome, recommended, commit) IN
           /\ w \in TaskRecord /\ w.status = v.status
           /\ SameGrants(v, w) /\ w.approvalRequired = v.approvalRequired
<1> DEFINE flags == v.riskFlags \/ outcome = "flagged"
           results == [v.results EXCEPT ![n] = outcome]
           specialists == IF n = "human_resources" THEN recommended ELSE v.specialists
           published == IF n = "github" THEN commit ELSE v.githubCommit
<1>1. flags \in BOOLEAN
    OBVIOUS
<1>2. results \in [Nodes -> Outcomes \cup {NoResult}]
    BY DEF TaskRecord
<1>3. specialists \in SUBSET Specialists /\ published \in 0..MaxEdits
    BY DEF TaskRecord
<1>4. StoreWorkerResult(v, n, outcome, recommended, commit)
        = [v EXCEPT !.results = results, !.riskFlags = flags,
                    !.specialists = specialists, !.githubCommit = published]
    BY DEF StoreWorkerResult, TaskRecord
<1> HIDE DEF flags, results, specialists, published
<1> QED
    BY <1>1, <1>2, <1>3, <1>4 DEF TaskRecord, SameGrants

\* A decision closes the gate or rejects the task; it takes no grant back.
LEMMA RecordApprovalRow ==
    ASSUME NEW v \in CreatedRecord, NEW g \in Gates, NEW d \in Decisions
    PROVE  LET w == RecordApproval(v, g, d) IN
           /\ w \in CreatedRecord
           /\ w.archived = v.archived
           /\ v.allowModifications => w.allowModifications
           /\ w.approvalRequired => v.approvalRequired
           /\ w.status = v.status \/ w.status = "FAILED"
           /\ w.approvalRequired => w.status = "FAILED"
<1> DEFINE permission == v.allowModifications \/ g = "repository-modification"
           approvals == v.approvals \cup {<<g, d>>}
           recorded == [v EXCEPT !.approvals = approvals, !.gate = None]
<1>1. permission \in BOOLEAN /\ approvals \in SUBSET (Gates \X Decisions)
    BY DEF CreatedRecord, TaskRecord
<1>2. recorded \in CreatedRecord
    BY <1>1 DEF CreatedRecord, TaskRecord
<1>3. RecordApproval(v, g, d) =
        IF d = "APPROVE"
        THEN [recorded EXCEPT !.approvalRequired = FALSE, !.allowModifications = permission]
        ELSE [recorded EXCEPT !.status = "FAILED"]
    BY DEF RecordApproval, CreatedRecord, TaskRecord
<1>4. /\ recorded.archived = v.archived
      /\ recorded.allowModifications = v.allowModifications
      /\ recorded.approvalRequired = v.approvalRequired
      /\ recorded.status = v.status
    BY DEF CreatedRecord, TaskRecord
<1>5. v.allowModifications => permission
    OBVIOUS
<1> HIDE DEF permission, approvals, recorded
<1>6. CASE d = "APPROVE"
    <2> DEFINE w == [recorded EXCEPT !.approvalRequired = FALSE,
                                     !.allowModifications = permission]
    <2>1. w \in CreatedRecord
        BY <1>1, <1>2 DEF CreatedRecord, TaskRecord
    <2>2. /\ w.archived = recorded.archived /\ w.status = recorded.status
          /\ w.allowModifications = permission /\ w.approvalRequired = FALSE
        BY <1>2 DEF CreatedRecord, TaskRecord
    <2>3. RecordApproval(v, g, d) = w
        BY <1>3, <1>6
    <2> HIDE DEF w
    <2> QED
        BY <1>4, <1>5, <2>1, <2>2, <2>3
<1>7. CASE d # "APPROVE"
    <2> DEFINE w == [recorded EXCEPT !.status = "FAILED"]
    <2>1. w \in CreatedRecord
        BY <1>2 DEF CreatedRecord, TaskRecord, Statuses
    <2>2. /\ w.archived = recorded.archived /\ w.status = "FAILED"
          /\ w.allowModifications = recorded.allowModifications
          /\ w.approvalRequired = recorded.approvalRequired
        BY <1>2 DEF CreatedRecord, TaskRecord
    <2>3. RecordApproval(v, g, d) = w
        BY <1>3, <1>7
    <2> HIDE DEF w
    <2> QED
        BY <1>4, <2>1, <2>2, <2>3
<1> QED
    BY <1>6, <1>7

\* So is a task that is restarted at a stage.
LEMMA RestartFromWorkerRow ==
    ASSUME NEW v \in TaskRecord, NEW n \in Nodes
    PROVE  LET w == RestartFromWorker(v, n) IN
           /\ w \in CreatedRecord /\ SameGrants(v, w)
           /\ ~w.approvalRequired /\ w.status # "DONE"
<1> DEFINE kept == [m \in Nodes |-> IF Cleared(m, n) THEN NoResult ELSE v.results[m]]
           flags == \E m \in Nodes : kept[m] = "flagged"
           specialists == IF Cleared("human_resources", n) THEN {} ELSE v.specialists
           published == IF Cleared("github", n) THEN 0 ELSE v.githubCommit
           pull == IF Cleared("github", n) THEN FALSE ELSE v.pullRequest
<1>1. kept \in [Nodes -> Outcomes \cup {NoResult}] /\ flags \in BOOLEAN
    BY DEF TaskRecord
<1>2. specialists \in SUBSET Specialists
    BY DEF TaskRecord
<1>3. published \in 0..MaxEdits
    BY MaxEditsAssumption DEF TaskRecord
<1>4. pull \in BOOLEAN
    BY DEF TaskRecord
<1> DEFINE status == RestartStatus[n]
<1>5. status \in Statuses /\ status # "DONE" /\ status # "ABSENT"
    BY Tables
<1> DEFINE half == [v EXCEPT !.results = kept, !.riskFlags = flags,
                             !.specialists = specialists, !.githubCommit = published]
           w == [half EXCEPT !.status = status, !.resumeTarget = n,
                             !.approvalRequired = FALSE, !.gate = None,
                             !.pullRequest = pull, !.lastRestart = n]
<1>6. RestartFromWorker(v, n) = w
    BY DEF RestartFromWorker, TaskRecord
<1> HIDE DEF kept, flags, specialists, published, pull, status
<1>7. half \in TaskRecord
    BY <1>1, <1>2, <1>3 DEF TaskRecord
<1>8. half.allowModifications = v.allowModifications /\ half.archived = v.archived
    BY DEF TaskRecord
<1> HIDE DEF half
<1>9. w \in TaskRecord
    BY <1>4, <1>5, <1>7 DEF TaskRecord
<1>10. /\ w.status = status /\ w.approvalRequired = FALSE
       /\ w.allowModifications = half.allowModifications /\ w.archived = half.archived
    BY <1>7 DEF TaskRecord
<1> HIDE DEF w
<1> QED
    BY <1>5, <1>6, <1>8, <1>9, <1>10 DEF CreatedRecord, SameGrants

\* The writes that start a stage leave the gate and the permission alone.
LEMMA StartStageRow ==
    ASSUME NEW rec \in TaskRecord, NEW n \in Nodes, NEW v \in TaskRecord
    PROVE  LET w == StartStage(rec, n, v) IN
           /\ w \in CreatedRecord /\ SameGrants(rec, w)
           /\ w.approvalRequired = rec.approvalRequired
           /\ w.status # "DONE"
<1> DEFINE target == IF n = "github" THEN n ELSE None
           started == UpdateStatus(rec, StageStatus[n], target)
           w == StartStage(rec, n, v)
<1>1. StageStatus[n] \in Statuses /\ StageStatus[n] # "DONE"
    BY Tables
<1>2. target \in Nodes \cup {None}
    OBVIOUS
<1>3. /\ started \in CreatedRecord /\ SameGrants(rec, started)
      /\ started.approvalRequired = rec.approvalRequired
      /\ started.status # "DONE"
    BY <1>1, <1>2, UpdateStatusRow
<1>4. DeployTarget(v) \in 0..MaxEdits
    BY DEF DeployTarget, TaskRecord
<1>5. w = started \/ w = [started EXCEPT !.deployCommit = DeployTarget(v)]
    BY DEF StartStage
<1> HIDE DEF started, w
<1> QED
    BY <1>3, <1>4, <1>5 DEF CreatedRecord, TaskRecord, SameGrants, w

\* The writes that end a stage open a gate only together with the status that
\* stops the graph, and grant nothing.
LEMMA FinishNodeRow ==
    ASSUME NEW n \in Nodes, NEW v \in CreatedRecord
    PROVE  LET w == FinishNode(n, v) IN
           /\ w \in CreatedRecord /\ SameGrants(v, w) /\ GateOnlyOpensAtStop(v, w)
<1> DEFINE w == FinishNode(n, v)
           published == [v EXCEPT !.pullRequest = TRUE]
<1>1. /\ v \in TaskRecord
      /\ published \in TaskRecord
      /\ SameGrants(v, published) /\ published.approvalRequired = v.approvalRequired
    BY DEF CreatedRecord, TaskRecord, SameGrants
<1>2. /\ {"DONE", "PR_CREATED", "SELF_UPDATING", "STAGING_DEPLOYED"} \subseteq Statuses
      /\ "github" \in Nodes /\ "risk-review" \in Gates
    BY DEF Statuses, Nodes, StageIndex, Gates
<1>3. \/ w = v
      \/ \E s \in Statuses : w = UpdateStatus(v, s, None)
      \/ \E s \in Statuses : w = UpdateStatus(published, s, None)
      \/ w = SetApprovalRequired(v, "github", "risk-review")
    BY <1>2 DEF FinishNode
<1> HIDE DEF published
<1>4. CASE w = v
    BY <1>4 DEF SameGrants, GateOnlyOpensAtStop
<1>5. CASE \E s \in Statuses : w = UpdateStatus(v, s, None)
    BY <1>1, <1>5, UpdateStatusRow DEF GateOnlyOpensAtStop
<1>6. CASE \E s \in Statuses : w = UpdateStatus(published, s, None)
    BY <1>1, <1>6, UpdateStatusRow DEF GateOnlyOpensAtStop, SameGrants
<1>7. CASE w = SetApprovalRequired(v, "github", "risk-review")
    BY <1>1, <1>2, <1>7, SetApprovalRequiredRow DEF GateOnlyOpensAtStop
<1> QED
    BY <1>3, <1>4, <1>5, <1>6, <1>7

-----------------------------------------------------------------------------
(* The inductive invariant *)

\* A run that is alive works on a task that exists, holds its lock, and is alone.
Lock ==
    /\ OneRunPerTask
    /\ \A t \in running : task[t] \in CreatedRecord

\* A run between entry and end is at a stage, behind no open gate, and its task
\* is not done.  What it saw permitted is permitted.
AtWork ==
    \A r \in Runs : pc[r] \in {"ready", "waiting"} =>
        /\ node[r] \in Nodes
        /\ ~task[on[r]].approvalRequired
        /\ task[on[r]].status # "DONE"
        /\ view[r].allowModifications => task[on[r]].allowModifications
        /\ pc[r] = "waiting" /\ node[r] = "coding" => view[r].allowModifications

Inv == TypeOK /\ Lock /\ AtWork /\ ArchivedIsQuiescent /\ OpenGateShowsInStatus

\* The empty row the model starts from is a row.
LEMMA NoViewIsRecord ==
    /\ NoView \in TaskRecord /\ ~NoView.approvalRequired /\ ~NoView.archived
    /\ NoView.status = "ABSENT"
<1> DEFINE q == CHOOSE x \in Requests : TRUE
           empty == [n \in Nodes |-> NoResult]
<1>1. q \in TaskRequest /\ q.allowModifications \in BOOLEAN
    BY RequestsAssumption DEF TaskRequest
<1>2. empty \in [Nodes -> Outcomes \cup {NoResult}] /\ 0 \in 0..MaxEdits
    BY MaxEditsAssumption
<1>3. NoView = EmptyRecord(q)
    BY DEF NoView
<1> HIDE DEF q
<1> QED
    BY <1>1, <1>2, <1>3 DEF EmptyRecord, TaskRecord

\* A new task is a row of the store, with no more than its request grants.
LEMMA CreateTaskRow ==
    ASSUME NEW q \in Requests
    PROVE  LET w == CreateTask(q) IN
           /\ w \in CreatedRecord /\ ~w.approvalRequired /\ ~w.archived
<1> DEFINE empty == [n \in Nodes |-> NoResult]
           w == CreateTask(q)
<1>1. q \in TaskRequest /\ q.allowModifications \in BOOLEAN
    BY RequestsAssumption DEF TaskRequest
<1>2. empty \in [Nodes -> Outcomes \cup {NoResult}] /\ 0 \in 0..MaxEdits
    BY MaxEditsAssumption
<1>3. EmptyRecord(q) \in TaskRecord
    BY <1>1, <1>2 DEF EmptyRecord, TaskRecord
<1>4. EmptyRecord(q).approvalRequired = FALSE /\ EmptyRecord(q).archived = FALSE
    BY DEF EmptyRecord
<1>5. w = [EmptyRecord(q) EXCEPT !.status = "NEW"]
    BY DEF CreateTask
<1> HIDE DEF w
<1> QED
    BY <1>3, <1>4, <1>5 DEF CreatedRecord, TaskRecord, Statuses, w

-----------------------------------------------------------------------------
(* Steps *)

\* Handlers that start a run of a task no run works on, with or without writing
\* its row first.
LEMMA ScheduleKeepsInv ==
    ASSUME Inv, NEW t \in Tasks, t \notin running, Schedule(t),
           NEW v \in CreatedRecord, Write(t, v),
           ~v.archived,
           v.approvalRequired => v.status \in {"APPROVAL_REQUIRED", "FAILED"},
           UNCHANGED <<allowed, workspace>>,
           budget' \in [restarts : Nat, decisions : Nat, crashes : Nat]
    PROVE  Inv'
<1> USE DEF Inv
<1>1. PICK r \in Runs :
        /\ pc[r] = "idle"
        /\ running' = running \cup {t}
        /\ pc' = [pc EXCEPT ![r] = "starting"]
        /\ on' = [on EXCEPT ![r] = t]
        /\ UNCHANGED <<node, view>>
    BY DEF Schedule
<1>2. task' = [task EXCEPT ![t] = v] /\ v \in TaskRecord
    BY DEF Write, CreatedRecord
<1>3. TypeOK'
    BY <1>1, <1>2 DEF TypeOK, Positions
<1>4. Lock'
    BY <1>1, <1>2 DEF TypeOK, Lock, OneRunPerTask
<1>5. AtWork'
    <2> SUFFICES ASSUME NEW s \in Runs, pc'[s] \in {"ready", "waiting"}
                 PROVE  /\ on'[s] = on[s] /\ pc'[s] = pc[s]
                        /\ task'[on[s]] = task[on[s]]
        BY <1>1 DEF AtWork
    <2> QED
        BY <1>1, <1>2 DEF TypeOK, Lock, OneRunPerTask
<1>6. ArchivedIsQuiescent' /\ OpenGateShowsInStatus'
    BY <1>1, <1>2 DEF TypeOK, ArchivedIsQuiescent, OpenGateShowsInStatus
<1> QED
    BY <1>3, <1>4, <1>5, <1>6

\* Handlers that write a row and start nothing.
LEMMA RowWriteKeepsInv ==
    ASSUME Inv, NEW t \in Tasks, NEW v \in CreatedRecord, Write(t, v),
           UNCHANGED <<runVars, allowed, workspace>>,
           budget' \in [restarts : Nat, decisions : Nat, crashes : Nat],
           v.archived => t \notin running /\ Archivable(v),
           v.approvalRequired => v.status \in {"APPROVAL_REQUIRED", "FAILED"},
           t \in running =>
             /\ v.approvalRequired => task[t].approvalRequired
             /\ task[t].status # "DONE" => v.status # "DONE"
             /\ task[t].allowModifications => v.allowModifications
    PROVE  Inv'
<1> USE DEF Inv, runVars
<1>1. task' = [task EXCEPT ![t] = v] /\ v \in TaskRecord
    BY DEF Write, CreatedRecord
<1>2. TypeOK' /\ Lock'
    BY <1>1 DEF TypeOK, Lock, OneRunPerTask
<1>3. AtWork'
    <2> SUFFICES ASSUME NEW s \in Runs, pc[s] \in {"ready", "waiting"}
                 PROVE  /\ ~task'[on[s]].approvalRequired
                        /\ task'[on[s]].status # "DONE"
                        /\ view[s].allowModifications => task'[on[s]].allowModifications
        BY DEF AtWork
    <2>1. on[s] \in running /\ on[s] \in Tasks
        BY DEF TypeOK, Lock, OneRunPerTask
    <2>2. CASE on[s] = t
        BY <1>1, <2>1, <2>2 DEF TypeOK, AtWork
    <2>3. CASE on[s] # t
        BY <1>1, <2>1, <2>3 DEF TypeOK, AtWork
    <2> QED
        BY <2>2, <2>3
<1>4. ArchivedIsQuiescent' /\ OpenGateShowsInStatus'
    BY <1>1 DEF TypeOK, ArchivedIsQuiescent, OpenGateShowsInStatus
<1> QED
    BY <1>2, <1>3, <1>4

\* A run leaves its node with a row that grants nothing and whose gate, if newly
\* open, stops the graph.
LEMMA LeaveNodeKeepsInv ==
    ASSUME Inv, NEW r \in Runs, pc[r] \in {"ready", "waiting"},
           NEW v \in CreatedRecord,
           SameGrants(task[on[r]], v), GateOnlyOpensAtStop(task[on[r]], v),
           LeaveNode(r, v), workspace' \in [Tasks -> 0..MaxEdits],
           UNCHANGED <<allowed, budget>>
    PROVE  Inv'
<1> USE DEF Inv
<1> DEFINE t == on[r]
           next == RouteAfter(node[r], v)
           exits == RouteMap(node[r])
<1>1. t \in running /\ t \in Tasks /\ ~task[t].archived
    BY DEF TypeOK, Lock, OneRunPerTask, ArchivedIsQuiescent
<1>2. /\ task' = [task EXCEPT ![t] = v] /\ v \in TaskRecord
      /\ view' = [view EXCEPT ![r] = v]
      /\ UNCHANGED <<on, running>>
    BY DEF LeaveNode, Write, GoTo, CreatedRecord
<1>3. \/ /\ pc' = [pc EXCEPT ![r] = "ready"] /\ node' = [node EXCEPT ![r] = next]
         /\ next # "stop" /\ next \in exits
      \/ pc' = [pc EXCEPT ![r] = "ending"] /\ node' = [node EXCEPT ![r] = None]
    BY DEF LeaveNode, GoTo
<1>4. exits \subseteq Nodes \cup {"stop"}
    BY RouteMapInNodes DEF AtWork
<1>5. next # "stop" => v.status \notin {"APPROVAL_REQUIRED", "DONE"}
    BY DEF RouteAfter, ShouldStop
<1> HIDE DEF next, exits
<1>6. TypeOK'
    BY <1>1, <1>2, <1>3, <1>4 DEF TypeOK, Positions
<1>7. Lock'
    BY <1>1, <1>2, <1>3 DEF TypeOK, Lock, OneRunPerTask
<1>8. AtWork'
    <2> SUFFICES ASSUME NEW s \in Runs, pc'[s] \in {"ready", "waiting"}
                 PROVE  /\ node'[s] \in Nodes
                        /\ ~task'[on[s]].approvalRequired
                        /\ task'[on[s]].status # "DONE"
                        /\ view'[s].allowModifications => task'[on[s]].allowModifications
                        /\ pc'[s] = "waiting" /\ node'[s] = "coding"
                             => view'[s].allowModifications
        BY <1>2 DEF AtWork
    <2>1. CASE s = r
        <3>1. pc'[r] = "ready" /\ node'[r] = next /\ next # "stop" /\ next \in exits
            BY <1>3, <2>1 DEF TypeOK
        <3>2. task'[t] = v /\ view'[r] = v
            BY <1>1, <1>2 DEF TypeOK
        <3>3. ~v.approvalRequired /\ v.status # "DONE"
            BY <1>5, <3>1 DEF AtWork, GateOnlyOpensAtStop
        <3> QED
            BY <1>4, <2>1, <3>1, <3>2, <3>3
    <2>2. CASE s # r
        <3>1. pc'[s] = pc[s] /\ node'[s] = node[s] /\ view'[s] = view[s]
            BY <1>2, <1>3, <2>2 DEF TypeOK
        <3>2. on[s] # t /\ on[s] \in Tasks
            BY <2>2, <3>1 DEF TypeOK, Lock, OneRunPerTask
        <3>3. task'[on[s]] = task[on[s]]
            BY <1>2, <3>2 DEF TypeOK
        <3> QED
            BY <3>1, <3>3 DEF AtWork
    <2> QED
        BY <2>1, <2>2
<1>9. ArchivedIsQuiescent'
    BY <1>1, <1>2 DEF TypeOK, ArchivedIsQuiescent, SameGrants
<1>10. OpenGateShowsInStatus'
    BY <1>1, <1>2 DEF TypeOK, AtWork, OpenGateShowsInStatus, GateOnlyOpensAtStop
<1> QED
    BY <1>6, <1>7, <1>8, <1>9, <1>10

\* The row of a task with a live run is that of a created task.
LEMMA RunOwnsTask ==
    ASSUME Inv, NEW r \in Runs, pc[r] # "idle"
    PROVE  /\ on[r] \in Tasks /\ on[r] \in running
           /\ task[on[r]] \in CreatedRecord /\ task[on[r]] \in TaskRecord
           /\ ~task[on[r]].archived
BY DEF Inv, TypeOK, Lock, OneRunPerTask, ArchivedIsQuiescent, CreatedRecord

\* A run begins with the lock of its task.
LEMMA BeginRunKeepsInv ==
    ASSUME Inv, NEW r \in Runs, BeginRun(r) PROVE Inv'
<1> USE DEF Inv
<1> DEFINE t == on[r]
           v == task[t]
           next == RouteEntry(v)
<1>1. pc[r] = "starting" /\ UNCHANGED <<allowed, workspace, budget>>
    BY DEF BeginRun
<1>2. t \in Tasks /\ t \in running /\ v \in CreatedRecord /\ v \in TaskRecord /\ ~v.archived
    BY <1>1, RunOwnsTask
<1>3. CASE allowed[t]
    <2>1. /\ view' = [view EXCEPT ![r] = v]
          /\ UNCHANGED <<on, running, task>>
          /\ \/ /\ pc' = [pc EXCEPT ![r] = "ready"] /\ node' = [node EXCEPT ![r] = next]
                /\ next # "stop" /\ next \in Nodes
             \/ pc' = [pc EXCEPT ![r] = "ending"] /\ node' = [node EXCEPT ![r] = None]
        BY <1>3 DEF BeginRun, GoTo
    <2>2. next # "stop" => ~v.approvalRequired /\ v.status # "DONE"
        BY DEF RouteEntry
    <2> HIDE DEF next
    <2>3. TypeOK' /\ Lock'
        BY <1>1, <1>2, <2>1 DEF TypeOK, Positions, Lock, OneRunPerTask
    <2>4. AtWork'
        BY <1>1, <1>2, <2>1, <2>2 DEF TypeOK, AtWork
    <2>5. ArchivedIsQuiescent' /\ OpenGateShowsInStatus'
        BY <2>1 DEF ArchivedIsQuiescent, OpenGateShowsInStatus
    <2> QED
        BY <2>3, <2>4, <2>5
<1>4. CASE ~allowed[t]
    <2> DEFINE w == FailTask(v)
    <2>1. /\ task' = [task EXCEPT ![t] = w]
          /\ pc' = [pc EXCEPT ![r] = "ending"] /\ node' = [node EXCEPT ![r] = None]
          /\ UNCHANGED <<on, running, view>>
        BY <1>4 DEF BeginRun, GoTo, Write
    <2>2. /\ w \in CreatedRecord /\ w \in TaskRecord
          /\ SameGrants(v, w) /\ w.status = "FAILED"
        BY <1>2, FailTaskRow DEF CreatedRecord
    <2> HIDE DEF w
    <2>3. TypeOK' /\ Lock'
        BY <1>1, <1>2, <2>1, <2>2 DEF TypeOK, Positions, Lock, OneRunPerTask
    <2>4. AtWork'
        <3> SUFFICES ASSUME NEW s \in Runs, pc'[s] \in {"ready", "waiting"}
                     PROVE  /\ pc'[s] = pc[s] /\ node'[s] = node[s]
                            /\ task'[on[s]] = task[on[s]]
            BY <2>1 DEF AtWork
        <3> QED
            BY <1>1, <1>2, <2>1 DEF TypeOK, Lock, OneRunPerTask
    <2>5. ArchivedIsQuiescent' /\ OpenGateShowsInStatus'
        BY <1>2, <2>1, <2>2 DEF TypeOK, ArchivedIsQuiescent, OpenGateShowsInStatus, SameGrants
    <2> QED
        BY <2>3, <2>4, <2>5
<1> QED
    BY <1>3, <1>4

\* A stage is dispatched by the run that has the lock, behind no open gate.
LEMMA DispatchKeepsInv ==
    ASSUME Inv, NEW r \in Runs, Dispatch(r) PROVE Inv'
<1> USE DEF Inv
<1> DEFINE t == on[r]
           w == StartStage(task[t], node[r], view[r])
<1>1. /\ pc[r] = "ready" /\ (node[r] = "coding" => view[r].allowModifications)
      /\ task' = [task EXCEPT ![t] = w] /\ pc' = [pc EXCEPT ![r] = "waiting"]
      /\ UNCHANGED <<allowed, workspace, running, on, node, view, budget>>
    BY DEF Dispatch, Write
<1>2. t \in Tasks /\ t \in running /\ task[t] \in TaskRecord /\ ~task[t].archived
    BY <1>1, RunOwnsTask
<1>3. view[r] \in TaskRecord /\ node[r] \in Nodes
    BY <1>1 DEF TypeOK, AtWork
<1>4. /\ w \in CreatedRecord /\ w \in TaskRecord /\ SameGrants(task[t], w)
      /\ w.approvalRequired = task[t].approvalRequired /\ w.status # "DONE"
    BY <1>2, <1>3, StartStageRow DEF CreatedRecord
<1> HIDE DEF w
<1>5. TypeOK' /\ Lock'
    BY <1>1, <1>2, <1>4 DEF TypeOK, Positions, Lock, OneRunPerTask
<1>6. AtWork'
    <2> SUFFICES ASSUME NEW s \in Runs, pc'[s] \in {"ready", "waiting"}
                 PROVE  /\ node[s] \in Nodes
                        /\ ~task'[on[s]].approvalRequired
                        /\ task'[on[s]].status # "DONE"
                        /\ view[s].allowModifications => task'[on[s]].allowModifications
                        /\ pc'[s] = "waiting" /\ node[s] = "coding"
                             => view[s].allowModifications
        BY <1>1 DEF AtWork
    <2>1. CASE s = r
        BY <1>1, <1>2, <1>3, <1>4, <2>1 DEF TypeOK, AtWork, SameGrants
    <2>2. CASE s # r
        <3>1. pc'[s] = pc[s] /\ on[s] # t
            BY <1>1, <2>2 DEF TypeOK, Lock, OneRunPerTask
        <3>2. task'[on[s]] = task[on[s]]
            BY <1>1, <3>1 DEF TypeOK, Lock, OneRunPerTask
        <3> QED
            BY <3>1, <3>2 DEF AtWork
    <2> QED
        BY <2>1, <2>2
<1>7. ArchivedIsQuiescent'
    BY <1>1, <1>2, <1>4 DEF TypeOK, ArchivedIsQuiescent, SameGrants
<1>8. OpenGateShowsInStatus'
    BY <1>1, <1>2, <1>4 DEF TypeOK, AtWork, OpenGateShowsInStatus
<1> QED
    BY <1>5, <1>6, <1>7, <1>8

\* A run that ends gives its lock back.
LEMMA EndRunKeepsInv ==
    ASSUME Inv, NEW r \in Runs, EndRun(r) PROVE Inv'
<1> USE DEF Inv
<1>1. TypeOK'
    BY NoViewIsRecord DEF TypeOK, EndRun, Positions
<1>2. Lock'
    BY DEF TypeOK, Lock, OneRunPerTask, EndRun
<1>3. AtWork'
    BY DEF TypeOK, AtWork, EndRun
<1>4. ArchivedIsQuiescent' /\ OpenGateShowsInStatus'
    BY DEF ArchivedIsQuiescent, OpenGateShowsInStatus, EndRun
<1> QED
    BY <1>1, <1>2, <1>3, <1>4

\* A bound that a step uses up stays a natural number.
LEMMA BudgetShrinks ==
    ASSUME TypeOK, NEW what \in {"restarts", "decisions", "crashes"}, Spend(what)
    PROVE  budget' \in [restarts : Nat, decisions : Nat, crashes : Nat]
BY DEF TypeOK, Spend

\* A crash takes the runs and their locks, and leaves the rows.
LEMMA CrashKeepsInv ==
    ASSUME Inv, Crash PROVE Inv'
<1> USE DEF Inv
<1>1. budget' \in [restarts : Nat, decisions : Nat, crashes : Nat]
    BY BudgetShrinks DEF Crash
<1>2. TypeOK'
    BY <1>1, NoViewIsRecord DEF TypeOK, Crash, Positions
<1>3. Lock' /\ AtWork'
    BY DEF Lock, OneRunPerTask, AtWork, Crash
<1>4. ArchivedIsQuiescent' /\ OpenGateShowsInStatus'
    BY DEF ArchivedIsQuiescent, OpenGateShowsInStatus, Crash
<1> QED
    BY <1>2, <1>3, <1>4

\* A gate of the modification policy ends the run that opens it.
LEMMA AskForModificationKeepsInv ==
    ASSUME Inv, NEW r \in Runs, AskForModification(r) PROVE Inv'
<1> DEFINE v == SetApprovalRequired(task[on[r]], "coding", "repository-modification")
<1>1. /\ pc[r] = "ready" /\ LeaveNode(r, v)
      /\ UNCHANGED <<allowed, workspace, budget>>
    BY DEF AskForModification
<1>2. task[on[r]] \in TaskRecord /\ workspace' \in [Tasks -> 0..MaxEdits]
    BY <1>1, RunOwnsTask DEF Inv, TypeOK
<1>3. "coding" \in Nodes /\ "repository-modification" \in Gates
    BY DEF Nodes, StageIndex, Gates
<1>4. /\ v \in CreatedRecord /\ SameGrants(task[on[r]], v)
      /\ GateOnlyOpensAtStop(task[on[r]], v)
    BY <1>2, <1>3, SetApprovalRequiredRow DEF GateOnlyOpensAtStop
<1> HIDE DEF v
<1> QED
    BY <1>1, <1>2, <1>4, LeaveNodeKeepsInv

\* Edits the worker left behind are those of coding, which was permitted.
LEMMA EditsArePermitted ==
    ASSUME Inv, NEW r \in Runs, pc[r] = "waiting", MayHaveEdited(r)
    PROVE  /\ workspace' \in [Tasks -> 0..MaxEdits]
           /\ \A u \in Tasks : u # on[r] => workspace'[u] = workspace[u]
           /\ \/ workspace'[on[r]] > 0 <=> workspace[on[r]] > 0
              \/ /\ task[on[r]].allowModifications /\ ~task[on[r]].approvalRequired
                 /\ workspace'[on[r]] > 0
<1> DEFINE new == NewestEdit(node[r], on[r])
<1>1. on[r] \in Tasks /\ workspace \in [Tasks -> 0..MaxEdits]
    BY RunOwnsTask DEF Inv, TypeOK
<1>2. /\ new \in 0..MaxEdits
      /\ node[r] # "coding" => new = workspace[on[r]]
      /\ node[r] = "coding" => new > 0
    BY <1>1, MaxEditsAssumption DEF NewestEdit
<1>3. node[r] = "coding" =>
        task[on[r]].allowModifications /\ ~task[on[r]].approvalRequired
    BY DEF Inv, AtWork
<1>4. workspace' = workspace \/ workspace' = [workspace EXCEPT ![on[r]] = new]
    BY DEF MayHaveEdited
<1> HIDE DEF new
<1>5. CASE workspace' = workspace
    BY <1>1, <1>5
<1>6. CASE workspace' = [workspace EXCEPT ![on[r]] = new]
    BY <1>1, <1>2, <1>3, <1>6
<1> QED
    BY <1>4, <1>5, <1>6

\* A stage that raises fails its task and ends the run.
LEMMA StageFailsKeepsInv ==
    ASSUME Inv, NEW r \in Runs, StageFails(r) PROVE Inv'
<1> DEFINE v == FailTask(task[on[r]])
<1>1. /\ pc[r] = "waiting" /\ LeaveNode(r, v)
      /\ MayHaveEdited(r) /\ UNCHANGED <<allowed, budget>>
    BY DEF StageFails
<1>2. task[on[r]] \in TaskRecord /\ workspace' \in [Tasks -> 0..MaxEdits]
    BY <1>1, RunOwnsTask, EditsArePermitted DEF Inv
<1>3. /\ v \in CreatedRecord /\ SameGrants(task[on[r]], v)
      /\ GateOnlyOpensAtStop(task[on[r]], v)
    BY <1>2, FailTaskRow DEF GateOnlyOpensAtStop
<1> HIDE DEF v
<1> QED
    BY <1>1, <1>2, <1>3, LeaveNodeKeepsInv

\* So does a stage that answers with a failure.
LEMMA StageReportsFailureKeepsInv ==
    ASSUME Inv, NEW r \in Runs, StageReportsFailure(r) PROVE Inv'
<1> DEFINE old == task[on[r]]
           stored == StoreWorkerResult(old, node[r], "failed", {}, 0)
           v == FailTask(stored)
<1>1. /\ pc[r] = "waiting" /\ LeaveNode(r, v)
      /\ MayHaveEdited(r) /\ UNCHANGED <<allowed, budget>>
    BY DEF StageReportsFailure
<1>2. old \in TaskRecord /\ workspace' \in [Tasks -> 0..MaxEdits] /\ node[r] \in Nodes
    BY <1>1, RunOwnsTask, EditsArePermitted DEF Inv, AtWork
<1>3. "failed" \in Outcomes /\ {} \in SUBSET Specialists /\ 0 \in 0..MaxEdits
    BY MaxEditsAssumption DEF Outcomes
<1>4. /\ stored \in TaskRecord /\ SameGrants(old, stored)
      /\ stored.approvalRequired = old.approvalRequired
    BY <1>2, <1>3, StoreWorkerResultRow
<1> HIDE DEF old, stored
<1>5. /\ v \in CreatedRecord /\ SameGrants(old, v) /\ GateOnlyOpensAtStop(old, v)
    BY <1>4, FailTaskRow DEF GateOnlyOpensAtStop, SameGrants
<1> HIDE DEF v
<1> QED
    BY <1>1, <1>2, <1>5, LeaveNodeKeepsInv DEF old

\* A stage that succeeds stores its result, and goes on, pauses or completes.
LEMMA StageSucceedsKeepsInv ==
    ASSUME Inv, NEW r \in Runs, NEW outcome \in {"clean", "flagged"},
           StageSucceeds(r, outcome)
    PROVE  Inv'
<1> DEFINE old == task[on[r]]
           n == node[r]
           commit == workspace[on[r]]
<1>1. /\ pc[r] = "waiting" /\ UNCHANGED <<allowed, budget>>
      /\ workspace' = [workspace EXCEPT ![on[r]] = NewestEdit(n, on[r])]
    BY DEF StageSucceeds
<1>2. PICK recommended \in IF n = "human_resources" THEN Recommendations ELSE {{}} :
        LeaveNode(r, FinishNode(n, StoreWorkerResult(old, n, outcome, recommended, commit)))
    BY DEF StageSucceeds
<1> DEFINE stored == StoreWorkerResult(old, n, outcome, recommended, commit)
           v == FinishNode(n, stored)
<1>3. /\ old \in TaskRecord /\ old \in CreatedRecord /\ n \in Nodes
      /\ commit \in 0..MaxEdits /\ on[r] \in Tasks
    BY <1>1, RunOwnsTask DEF Inv, TypeOK, AtWork
<1>4. outcome \in Outcomes /\ recommended \in SUBSET Specialists
    BY StagesAssumption DEF Outcomes
<1>5. /\ stored \in CreatedRecord /\ SameGrants(old, stored)
      /\ stored.approvalRequired = old.approvalRequired
    BY <1>3, <1>4, StoreWorkerResultRow DEF CreatedRecord
<1>6. NewestEdit(n, on[r]) \in 0..MaxEdits
    BY <1>3, MaxEditsAssumption DEF NewestEdit
<1>7. workspace' \in [Tasks -> 0..MaxEdits]
    BY <1>1, <1>6 DEF Inv, TypeOK
<1> HIDE DEF old, n, commit, stored
<1>8. v \in CreatedRecord /\ SameGrants(old, v) /\ GateOnlyOpensAtStop(old, v)
    BY <1>3, <1>5, FinishNodeRow DEF GateOnlyOpensAtStop, SameGrants
<1>9. LeaveNode(r, v)
    BY <1>2 DEF stored
<1> HIDE DEF v
<1> QED
    BY <1>1, <1>7, <1>8, <1>9, LeaveNodeKeepsInv DEF old

\* A request changes a row, and starts or cancels no run by itself.
LEMMA HandlersKeepInv ==
    ASSUME Inv, NEW t \in Tasks, HandlerStep(t) PROVE Inv'
<1> USE DEF Inv
<1> DEFINE v == task[t]
<1>1. budget \in [restarts : Nat, decisions : Nat, crashes : Nat] /\ v \in TaskRecord
    BY DEF TypeOK
<1>2. Created(t) => v \in CreatedRecord
    BY <1>1 DEF Created, CreatedRecord
<1>3. CASE PostTask(t)
    <2>1. PICK q \in Requests : Write(t, CreateTask(q))
        BY <1>3 DEF PostTask
    <2>2. t \notin running
        BY <1>3 DEF PostTask, Created, Lock, CreatedRecord
    <2> QED
        BY <1>1, <1>3, <2>1, <2>2, CreateTaskRow, RowWriteKeepsInv DEF PostTask
<1>4. CASE PostRun(t)
    <2>1. Write(t, v)
        BY <1>4 DEF PostRun, Write, TypeOK
    <2> QED
        BY <1>1, <1>2, <1>4, <2>1, ScheduleKeepsInv DEF PostRun, OpenGateShowsInStatus
<1>5. ASSUME NEW n \in RestartNodes, PostRestartStage(t, n) PROVE Inv'
    <2> DEFINE w == RestartFromWorker(v, n)
    <2>1. /\ Created(t) /\ ~v.archived /\ t \notin running /\ Write(t, w)
          /\ UNCHANGED <<allowed, workspace>>
          /\ Schedule(t) \/ UNCHANGED runVars
        BY <1>5 DEF PostRestartStage
    <2>2. budget' \in [restarts : Nat, decisions : Nat, crashes : Nat]
        BY <1>5, BudgetShrinks DEF PostRestartStage
    <2>3. w \in CreatedRecord /\ SameGrants(v, w) /\ ~w.approvalRequired
        BY <1>1, StagesAssumption, RestartFromWorkerRow
    <2>4. ~w.archived
        BY <2>1, <2>3 DEF SameGrants
    <2> HIDE DEF w, v
    <2> QED
        BY <2>1, <2>2, <2>3, <2>4, ScheduleKeepsInv, RowWriteKeepsInv
<1>6. CASE PostArchive(t)
    <2> DEFINE w == SetArchived(v, TRUE)
    <2>1. /\ t \notin running /\ Archivable(v) /\ v \in CreatedRecord
          /\ Write(t, w) /\ UNCHANGED <<allowed, workspace, runVars, budget>>
        BY <1>2, <1>6 DEF PostArchive
    <2>2. w \in CreatedRecord /\ Archivable(w) /\ ~w.approvalRequired
        BY <2>1 DEF SetArchived, Archivable, CreatedRecord, TaskRecord
    <2> HIDE DEF w
    <2> QED
        BY <1>1, <2>1, <2>2, RowWriteKeepsInv
<1>7. CASE PostRestore(t)
    <2> DEFINE w == SetArchived(v, FALSE)
    <2>1. /\ v.archived /\ v \in CreatedRecord
          /\ Write(t, w) /\ UNCHANGED <<allowed, workspace, runVars, budget>>
        BY <1>2, <1>7 DEF PostRestore
    <2>2. t \notin running /\ ~v.approvalRequired
        BY <2>1 DEF ArchivedIsQuiescent, Archivable
    <2>3. w \in CreatedRecord /\ ~w.archived /\ w.approvalRequired = v.approvalRequired
        BY <2>1 DEF SetArchived, CreatedRecord, TaskRecord
    <2> HIDE DEF w
    <2> QED
        BY <1>1, <2>1, <2>2, <2>3, RowWriteKeepsInv
<1>8. ASSUME NEW g \in Gates, NEW d \in Decisions, PostDecision(t, g, d) PROVE Inv'
    <2> DEFINE w == RecordApproval(v, g, d)
    <2>1. /\ v \in CreatedRecord /\ ~v.archived /\ Write(t, w)
          /\ UNCHANGED <<allowed, workspace>>
          /\ (t \notin running /\ Schedule(t)) \/ UNCHANGED runVars
        BY <1>2, <1>8 DEF PostDecision
    <2>2. budget' \in [restarts : Nat, decisions : Nat, crashes : Nat]
        BY <1>8, BudgetShrinks DEF PostDecision
    <2>3. /\ w \in CreatedRecord /\ w.archived = v.archived
          /\ v.allowModifications => w.allowModifications
          /\ w.approvalRequired => v.approvalRequired
          /\ w.status = v.status \/ w.status = "FAILED"
          /\ w.approvalRequired => w.status = "FAILED"
        BY <2>1, RecordApprovalRow
    <2> HIDE DEF w
    <2> QED
        BY <2>1, <2>2, <2>3, ScheduleKeepsInv, RowWriteKeepsInv
<1>9. CASE PutPolicy(t)
    <2>1. TypeOK'
        BY <1>9 DEF PutPolicy, TypeOK, runVars
    <2> QED
        BY <1>9, <2>1 DEF PutPolicy, runVars, Lock, OneRunPerTask, AtWork,
                          ArchivedIsQuiescent, OpenGateShowsInStatus
<1> QED
    BY <1>3, <1>4, <1>5, <1>6, <1>7, <1>8, <1>9 DEF HandlerStep

\* The initial states satisfy the invariant.
LEMMA InitEstablishesInv ==
    ASSUME Init PROVE Inv
<1>1. TypeOK
    BY NoViewIsRecord, MaxEditsAssumption, BudgetAssumption DEF Init, TypeOK, Positions
<1>2. Lock /\ AtWork /\ ArchivedIsQuiescent /\ OpenGateShowsInStatus
    BY NoViewIsRecord
       DEF Init, Lock, OneRunPerTask, AtWork, ArchivedIsQuiescent, OpenGateShowsInStatus
<1> QED
    BY <1>1, <1>2 DEF Inv

\* Every step keeps the invariant.
LEMMA StepKeepsInv ==
    ASSUME Inv, [Next]_vars PROVE Inv'
<1>1. CASE \E t \in Tasks : HandlerStep(t)
    BY <1>1, HandlersKeepInv
<1>2. CASE \E r \in Runs : RunStep(r)
    BY <1>2, BeginRunKeepsInv, AskForModificationKeepsInv, DispatchKeepsInv,
       StageFailsKeepsInv, StageSucceedsKeepsInv, StageReportsFailureKeepsInv,
       EndRunKeepsInv
       DEF RunStep
<1>3. CASE Crash
    BY <1>3, CrashKeepsInv
<1>4. CASE UNCHANGED vars
    BY <1>4 DEF Inv, vars, runVars, TypeOK, Lock, OneRunPerTask, AtWork,
                ArchivedIsQuiescent, OpenGateShowsInStatus, Created
<1> QED
    BY <1>1, <1>2, <1>3, <1>4 DEF Next

-----------------------------------------------------------------------------
(* Theorems *)

\* The invariant holds in every reachable state.
THEOREM InvariantHolds == Spec => []Inv
<1>1. Init => Inv
    BY InitEstablishesInv
<1>2. Inv /\ [Next]_vars => Inv'
    BY StepKeepsInv
<1> QED
    BY <1>1, <1>2, PTL DEF Spec

\* Every variable keeps its type, whatever handlers, runs and crashes do.
THEOREM TypesHold == Spec => []TypeOK
BY InvariantHolds, PTL DEF Inv

\* running_tasks is a lock: no task ever has two live runs.
THEOREM LockHolds == Spec => []OneRunPerTask
<1>1. Inv => OneRunPerTask
    BY DEF Inv, Lock
<1> QED
    BY <1>1, InvariantHolds, PTL

\* The coding worker is never called without the permission to modify.
THEOREM PermissionHolds == Spec => []CodingIsPermitted
<1>1. Inv => CodingIsPermitted
    BY DEF Inv, AtWork, CodingIsPermitted, InFlight
<1> QED
    BY <1>1, InvariantHolds, PTL

\* No run works on a task whose gate is open.
THEOREM GatesHold == Spec => []NoWorkBehindAnOpenGate
<1>1. Inv => NoWorkBehindAnOpenGate
    BY DEF Inv, AtWork, NoWorkBehindAnOpenGate
<1> QED
    BY <1>1, InvariantHolds, PTL

\* An archived task is at rest.
THEOREM ArchiveHolds == Spec => []ArchivedIsQuiescent
BY InvariantHolds, PTL DEF Inv

\* An open gate shows in the status.
THEOREM GateStatusHolds == Spec => []OpenGateShowsInStatus
BY InvariantHolds, PTL DEF Inv

\* A row that is done stays done or fails, for every step taken while a run of
\* its task is registered.
LEMMA StepKeepsFinished ==
    ASSUME Inv, [Next]_vars, NEW t \in Tasks, task[t].status = "DONE", t \in running
    PROVE  task'[t].status \in {"DONE", "FAILED"}
<1> USE DEF Inv
<1>1. ASSUME NEW v, NEW u \in Tasks, Write(u, v), u # t PROVE task'[t] = task[t]
    BY <1>1 DEF Write, TypeOK
<1>2. Created(t)
    BY DEF Lock, CreatedRecord, Created
<1>3. CASE \E u \in Tasks : HandlerStep(u)
    <2>1. PICK u \in Tasks : HandlerStep(u)
        BY <1>3
    <2>2. CASE PostTask(u)
        BY <1>1, <1>2, <2>2 DEF PostTask
    <2>3. CASE \E n \in RestartNodes : PostRestartStage(u, n)
        BY <1>1, <2>3 DEF PostRestartStage
    <2>4. CASE PostArchive(u)
        BY <1>1, <2>4 DEF PostArchive
    <2>5. CASE PostRestore(u)
        <3>1. u \notin running
            BY <2>5 DEF PostRestore, ArchivedIsQuiescent
        <3> QED
            BY <1>1, <2>5, <3>1 DEF PostRestore
    <2>6. ASSUME NEW g \in Gates, NEW d \in Decisions, PostDecision(u, g, d)
          PROVE  task'[t].status \in {"DONE", "FAILED"}
        <3> DEFINE w == RecordApproval(task[u], g, d)
        <3>1. Write(u, w)
            BY <2>6 DEF PostDecision
        <3>2. CASE u = t
            <4>1. task[t] \in CreatedRecord
                BY DEF Lock
            <4>2. w.status = task[u].status \/ w.status = "FAILED"
                BY <3>2, <4>1, RecordApprovalRow
            <4>3. task'[t] = w
                BY <3>1, <3>2 DEF Write, TypeOK
            <4> QED
                BY <3>2, <4>2, <4>3
        <3> QED
            BY <1>1, <3>1, <3>2
    <2> QED
        BY <2>1, <2>2, <2>3, <2>4, <2>5, <2>6 DEF HandlerStep, PostRun, PutPolicy
<1>4. CASE \E r \in Runs : RunStep(r)
    <2>1. PICK r \in Runs : RunStep(r)
        BY <1>4
    <2>2. CASE pc[r] \in {"ready", "waiting"}
        <3>1. on[r] # t /\ on[r] \in Tasks
            BY <2>2, RunOwnsTask DEF AtWork
        <3>2. task'[t] = task[t]
            BY <1>1, <2>1, <2>2, <3>1
               DEF RunStep, BeginRun, AskForModification, Dispatch, StageFails,
                   StageSucceeds, StageReportsFailure, LeaveNode, EndRun
        <3> QED
            BY <3>2
    <2>3. CASE pc[r] \notin {"ready", "waiting"}
        <3>1. BeginRun(r) \/ EndRun(r)
            BY <2>1, <2>3
               DEF RunStep, AskForModification, Dispatch, StageFails,
                   StageSucceeds, StageReportsFailure
        <3>2. CASE BeginRun(r)
            <4>1. on[r] \in Tasks /\ task[on[r]] \in TaskRecord
                BY <3>2, RunOwnsTask DEF BeginRun
            <4>2. task' = task \/ task' = [task EXCEPT ![on[r]] = FailTask(task[on[r]])]
                BY <3>2 DEF BeginRun, Write
            <4>3. FailTask(task[on[r]]).status = "FAILED"
                BY <4>1, FailTaskRow
            <4> QED
                BY <4>1, <4>2, <4>3 DEF TypeOK
        <3>3. CASE EndRun(r)
            BY <3>3 DEF EndRun
        <3> QED
            BY <3>1, <3>2, <3>3
    <2> QED
        BY <2>2, <2>3
<1>5. CASE Crash \/ UNCHANGED vars
    BY <1>5 DEF Crash, vars
<1> QED
    BY <1>3, <1>4, <1>5 DEF Next

\* A finished task is not reopened by a run.
THEOREM FinishedHolds == Spec => FinishedIsNotReopenedByRuns
<1> DEFINE Kept == \A t \in Tasks : task[t].status = "DONE" /\ t \in running =>
                       task'[t].status \in {"DONE", "FAILED"}
<1>1. Inv /\ [Next]_vars => [Kept]_vars
    BY StepKeepsFinished
<1> QED
    BY <1>1, InvariantHolds, PTL DEF Spec, FinishedIsNotReopenedByRuns

-----------------------------------------------------------------------------
(* Routes *)

\* Every row carries one of the requests operators send.
RequestsKept == \A t \in Tasks : task[t].req \in Requests

\* Nobody stores a profile that skips research alone, as inference never does.
NoSkipOfResearch == \A q \in Requests : q.profile # "skip_research"

\* No write to a row changes its request.
LEMMA WritesKeepRequest ==
    ASSUME NEW v \in TaskRecord
    PROVE  /\ \A s, x : UpdateStatus(v, s, x).req = v.req
           /\ \A x, g : SetApprovalRequired(v, x, g).req = v.req
           /\ \A n, o, c, e : StoreWorkerResult(v, n, o, c, e).req = v.req
           /\ \A g, d : RecordApproval(v, g, d).req = v.req
           /\ \A n : RestartFromWorker(v, n).req = v.req
           /\ \A f : SetArchived(v, f).req = v.req
<1>1. \A s, x : UpdateStatus(v, s, x).req = v.req
    BY DEF UpdateStatus, TaskRecord
<1>2. \A x, g : SetApprovalRequired(v, x, g).req = v.req
    BY DEF SetApprovalRequired, TaskRecord
<1>3. \A n, o, c, e : StoreWorkerResult(v, n, o, c, e).req = v.req
    BY DEF StoreWorkerResult, TaskRecord
<1>4. \A g, d : RecordApproval(v, g, d).req = v.req
    BY DEF RecordApproval, TaskRecord
<1>5. \A n : RestartFromWorker(v, n).req = v.req
    BY DEF RestartFromWorker, TaskRecord
<1>6. \A f : SetArchived(v, f).req = v.req
    BY DEF SetArchived, TaskRecord
<1> QED
    BY <1>1, <1>2, <1>3, <1>4, <1>5, <1>6

\* The writes of a node keep it either.
LEMMA NodesKeepRequest ==
    ASSUME NEW v \in TaskRecord
    PROVE  /\ FailTask(v).req = v.req
           /\ \A n \in Nodes : \A w : StartStage(v, n, w).req = v.req
           /\ \A n : FinishNode(n, v).req = v.req
<1>1. FailTask(v).req = v.req
    BY WritesKeepRequest DEF FailTask
<1>2. ASSUME NEW n \in Nodes, NEW w PROVE StartStage(v, n, w).req = v.req
    <2> DEFINE target == IF n = "github" THEN n ELSE None
               started == UpdateStatus(v, StageStatus[n], target)
    <2>1. StageStatus[n] \in Statuses /\ target \in Nodes \cup {None}
        BY Tables
    <2> HIDE DEF target
    <2>2. started \in TaskRecord /\ started.req = v.req
        BY <2>1, UpdateStatusRow, WritesKeepRequest DEF CreatedRecord
    <2>3. \/ StartStage(v, n, w) = started
          \/ StartStage(v, n, w) = [started EXCEPT !.deployCommit = DeployTarget(w)]
        BY DEF StartStage, target
    <2> HIDE DEF started
    <2> QED
        BY <2>2, <2>3 DEF TaskRecord
<1>3. ASSUME NEW n PROVE FinishNode(n, v).req = v.req
    <2> DEFINE published == [v EXCEPT !.pullRequest = TRUE]
    <2>1. published \in TaskRecord /\ published.req = v.req
        BY DEF TaskRecord
    <2>2. \/ FinishNode(n, v) = v
          \/ \E s : FinishNode(n, v) = UpdateStatus(v, s, None)
          \/ \E s : FinishNode(n, v) = UpdateStatus(published, s, None)
          \/ FinishNode(n, v) = SetApprovalRequired(v, "github", "risk-review")
        BY DEF FinishNode
    <2> HIDE DEF published
    <2> QED
        BY <2>1, <2>2, WritesKeepRequest
<1> QED
    BY <1>1, <1>2, <1>3

\* Every step keeps the requests that lead a route on.
LEMMA StepKeepsRequests ==
    ASSUME Inv, RequestsKept, [Next]_vars PROVE RequestsKept'
<1>1. \A t \in Tasks : task[t] \in TaskRecord
    BY DEF Inv, TypeOK
<1>2. ASSUME NEW t \in Tasks, NEW v, Write(t, v),
             v.req = task[t].req \/ v.req \in Requests
      PROVE  RequestsKept'
    BY <1>2 DEF Write, RequestsKept, Inv, TypeOK
<1>3. ASSUME task' = task PROVE RequestsKept'
    BY <1>3 DEF RequestsKept
<1>4. ASSUME NEW t \in Tasks, HandlerStep(t) PROVE RequestsKept'
    <2>1. ASSUME NEW q \in Requests PROVE CreateTask(q).req = q
        BY DEF CreateTask, EmptyRecord
    <2>2. CASE PostTask(t)
        BY <1>2, <2>1, <2>2 DEF PostTask
    <2>3. CASE PostRun(t) \/ PutPolicy(t)
        BY <1>3, <2>3 DEF PostRun, PutPolicy
    <2>4. CASE \E n \in RestartNodes : PostRestartStage(t, n)
        BY <1>1, <1>2, <2>4, WritesKeepRequest DEF PostRestartStage
    <2>5. CASE PostArchive(t) \/ PostRestore(t)
        BY <1>1, <1>2, <2>5, WritesKeepRequest DEF PostArchive, PostRestore
    <2>6. CASE \E g \in Gates, d \in Decisions : PostDecision(t, g, d)
        BY <1>1, <1>2, <2>6, WritesKeepRequest DEF PostDecision
    <2> QED
        BY <1>4, <2>2, <2>3, <2>4, <2>5, <2>6 DEF HandlerStep
<1>5. ASSUME NEW r \in Runs, RunStep(r) PROVE RequestsKept'
    <2> DEFINE t == on[r]
    <2>1. pc[r] # "idle"
        BY <1>5 DEF RunStep, BeginRun, AskForModification, Dispatch, StageFails,
                    StageSucceeds, StageReportsFailure, EndRun
    <2>2. t \in Tasks /\ task[t] \in TaskRecord
        BY <2>1, RunOwnsTask
    <2>3. CASE BeginRun(r)
        BY <1>2, <1>3, <2>2, <2>3, NodesKeepRequest DEF BeginRun
    <2>4. CASE AskForModification(r)
        BY <1>2, <2>2, <2>4, WritesKeepRequest DEF AskForModification, LeaveNode
    <2>5. CASE Dispatch(r)
        <3>1. node[r] \in Nodes
            BY <2>5 DEF Dispatch, Inv, AtWork
        <3> QED
            BY <1>2, <2>2, <2>5, <3>1, NodesKeepRequest DEF Dispatch
    <2>6. CASE StageFails(r)
        BY <1>2, <2>2, <2>6, NodesKeepRequest DEF StageFails, LeaveNode
    <2>7. CASE StageReportsFailure(r)
        <3> DEFINE stored == StoreWorkerResult(task[t], node[r], "failed", {}, 0)
        <3>1. node[r] \in Nodes
            BY <2>7 DEF StageReportsFailure, Inv, AtWork
        <3>2. stored \in TaskRecord /\ stored.req = task[t].req
            BY <2>2, <3>1, MaxEditsAssumption, StoreWorkerResultRow, WritesKeepRequest
               DEF Outcomes
        <3>3. Write(t, FailTask(stored))
            BY <2>7 DEF StageReportsFailure, LeaveNode
        <3> HIDE DEF stored
        <3> QED
            BY <1>2, <2>2, <3>2, <3>3, NodesKeepRequest
    <2>8. ASSUME NEW outcome \in {"clean", "flagged"}, StageSucceeds(r, outcome)
          PROVE  RequestsKept'
        <3>1. PICK recommended \in IF node[r] = "human_resources" THEN Recommendations ELSE {{}} :
                Write(t, FinishNode(node[r], StoreWorkerResult(task[t], node[r], outcome,
                                                               recommended, workspace[t])))
            BY <2>8 DEF StageSucceeds, LeaveNode
        <3> DEFINE stored == StoreWorkerResult(task[t], node[r], outcome, recommended, workspace[t])
        <3>2. node[r] \in Nodes
            BY <2>8 DEF StageSucceeds, Inv, AtWork
        <3>3. /\ recommended \in SUBSET Specialists /\ outcome \in Outcomes
              /\ workspace[t] \in 0..MaxEdits
            BY <2>2, StagesAssumption DEF Outcomes, Inv, TypeOK
        <3>4. stored \in TaskRecord /\ stored.req = task[t].req
            BY <2>2, <3>2, <3>3, StoreWorkerResultRow, WritesKeepRequest
        <3>5. Write(t, FinishNode(node[r], stored))
            BY <3>1
        <3> HIDE DEF stored
        <3> QED
            BY <1>2, <2>2, <3>4, <3>5, NodesKeepRequest
    <2>9. CASE EndRun(r)
        BY <1>3, <2>9 DEF EndRun
    <2> QED
        BY <1>5, <2>3, <2>4, <2>5, <2>6, <2>7, <2>8, <2>9 DEF RunStep
<1>6. CASE Crash \/ UNCHANGED vars
    BY <1>3, <1>6 DEF Crash, vars
<1> QED
    BY <1>4, <1>5, <1>6 DEF Next

\* The request of a task is the one it was created with, for ever.
LEMMA RequestsStay == Spec => []RequestsKept
<1>1. Init => RequestsKept
    <2> DEFINE q == CHOOSE x \in Requests : TRUE
    <2>1. q \in Requests
        BY RequestsAssumption
    <2>2. NoView.req = q
        BY DEF NoView, EmptyRecord
    <2> QED
        BY <2>1, <2>2 DEF Init, RequestsKept
<1>2. Inv /\ RequestsKept /\ [Next]_vars => RequestsKept'
    BY StepKeepsRequests
<1> QED
    BY <1>1, <1>2, InvariantHolds, PTL DEF Spec

\* The compiled graph has an exit for every successor, unless only research is
\* skipped.
LEMMA SuccessorIsExit ==
    ASSUME NEW n \in Nodes, NEW v \in TaskRecord, v.req.profile # "skip_research"
    PROVE  Successor(n, v) \in RouteMap(n)
<1>1. v.req.profile \in {"none", "compact"}
    BY DEF TaskRecord, TaskRequest, Profiles
<1> QED
    BY <1>1 DEF Successor, AfterHumanResources, AfterArchitecture, AfterGithub,
                SkipsResearch, SkipsArchitecture, UsesCompactFastPath, RouteMap,
                Nodes, StageIndex

\* Whatever stage is in flight, its success leads to an exit of the compiled graph,
\* for every profile that inference assigns.
THEOREM RoutesConnect == NoSkipOfResearch /\ Spec => []RoutesStayConnected
<1> SUFFICES ASSUME NoSkipOfResearch PROVE Spec => []RoutesStayConnected
    OBVIOUS
<1>1. Inv /\ RequestsKept => RoutesStayConnected
    <2> SUFFICES ASSUME Inv, RequestsKept, NEW r \in Runs, pc[r] = "waiting"
                 PROVE  Successor(node[r], task[on[r]]) \in RouteMap(node[r])
        BY DEF RoutesStayConnected
    <2>1. node[r] \in Nodes /\ task[on[r]] \in TaskRecord /\ task[on[r]].req \in Requests
        BY RunOwnsTask DEF Inv, AtWork, RequestsKept
    <2> QED
        BY <2>1, SuccessorIsExit DEF NoSkipOfResearch
<1> QED
    BY <1>1, InvariantHolds, RequestsStay, PTL

-----------------------------------------------------------------------------
(* Rest *)

SettledStatuses == {"NEW", "APPROVAL_REQUIRED", "SELF_UPDATING", "DONE", "FAILED"}

\* The process does not die, and every restart starts its run at once.
Uninterrupted == Budget.crashes = 0 /\ RunImmediately \subseteq {TRUE}

\* A run that is about to release its lock leaves a settled row.
EndsSettled == \A r \in Runs : pc[r] = "ending" => task[on[r]].status \in SettledStatuses

NoCrashLeft == budget.crashes = 0

\* What the rows say between a run's last node and its end, and after it.
Rests == RunsRestSettled /\ EndsSettled /\ NoCrashLeft

\* A run that finds nothing to do finds a settled row.
LEMMA EntryOfUnsettled ==
    ASSUME NEW v \in CreatedRecord, v.status \notin SettledStatuses,
           v.approvalRequired => v.status \in {"APPROVAL_REQUIRED", "FAILED"}
    PROVE  RouteEntry(v) \in Nodes /\ RouteEntry(v) # "stop"
<1>1. v.status \in Statuses /\ v.resumeTarget \in Nodes \cup {None}
    BY DEF CreatedRecord, TaskRecord
<1>2. v.status \notin {"DONE", "FAILED", "SELF_UPDATING"} /\ ~v.approvalRequired
    BY DEF SettledStatuses
<1>3. EntryNode[v.status] \in Nodes /\ "stop" \notin Nodes
    BY <1>1, Tables
<1>4. {"rollback", "deploy", "memory"} \subseteq Nodes
    BY DEF Nodes, StageIndex
<1> QED
    BY <1>1, <1>2, <1>3, <1>4 DEF RouteEntry

\* A stage after which the graph ends leaves a settled row.
FinishesSettled(n, v) ==
    \/ v.status \in SettledStatuses
    \/ n \notin {"rollback", "memory"} /\ (n = "deploy" => v.req.target # "self")

\* After a stage that leaves its task unsettled, the route goes on.
LEMMA StopsSettled ==
    ASSUME NEW n \in Nodes, NEW v \in TaskRecord, v.req.profile # "skip_research",
           FinishesSettled(n, v), v.status \notin SettledStatuses
    PROVE  RouteAfter(n, v) # "stop" /\ RouteAfter(n, v) \in RouteMap(n)
<1>1. RouteAfter(n, v) = Successor(n, v)
    BY DEF RouteAfter, ShouldStop, SettledStatuses
<1>2. Successor(n, v) # "stop"
    BY DEF FinishesSettled, Successor, AfterHumanResources, AfterArchitecture, AfterGithub,
           Nodes, StageIndex
<1> QED
    BY <1>1, <1>2, SuccessorIsExit

\* The run that leaves its node goes on, or leaves a settled row behind.
LEMMA LeavingKeepsRest ==
    ASSUME Inv, Rests, RequestsKept, NoSkipOfResearch,
           NEW r \in Runs, pc[r] \in {"ready", "waiting"},
           NEW v \in CreatedRecord, v.req = task[on[r]].req,
           FinishesSettled(node[r], v), LeaveNode(r, v), UNCHANGED budget
    PROVE  Rests'
<1> DEFINE t == on[r]
<1>1. t \in Tasks /\ t \in running /\ node[r] \in Nodes /\ v \in TaskRecord
    BY RunOwnsTask DEF Inv, AtWork, CreatedRecord
<1>2. v.req.profile # "skip_research"
    BY <1>1 DEF RequestsKept, NoSkipOfResearch
<1>3. /\ task' = [task EXCEPT ![t] = v] /\ UNCHANGED <<on, running>>
      /\ pc' = [pc EXCEPT ![r] = IF RouteAfter(node[r], v) # "stop"
                                    /\ RouteAfter(node[r], v) \in RouteMap(node[r])
                                 THEN "ready" ELSE "ending"]
    BY DEF LeaveNode, GoTo, Write
<1>4. task' \in [Tasks -> TaskRecord] /\ task'[t] = v /\ \A u \in Tasks \ {t} : task'[u] = task[u]
    BY <1>1, <1>3 DEF Inv, TypeOK
<1>5. RunsRestSettled'
    BY <1>1, <1>3, <1>4 DEF Rests, RunsRestSettled, Created
<1>6. EndsSettled'
    <2> SUFFICES ASSUME NEW s \in Runs, pc'[s] = "ending"
                 PROVE  task'[on[s]].status \in SettledStatuses
        BY <1>3 DEF EndsSettled
    <2>1. CASE s = r
        <3>1. v.status \in SettledStatuses
            BY <1>1, <1>2, <1>3, <2>1, StopsSettled DEF Inv, TypeOK
        <3> QED
            BY <1>4, <2>1, <3>1
    <2>2. CASE s # r
        <3>1. pc[s] = "ending" /\ on[s] # t /\ on[s] \in Tasks
            BY <1>3, <2>2 DEF Inv, TypeOK, Lock, OneRunPerTask
        <3> QED
            BY <1>4, <3>1 DEF Rests, EndsSettled
    <2> QED
        BY <2>1, <2>2
<1> QED
    BY <1>5, <1>6 DEF Rests, NoCrashLeft

\* What a node writes when its stage succeeded.
LEMMA FinishNodeSettles ==
    ASSUME NEW n \in Nodes, NEW v \in TaskRecord
    PROVE  FinishesSettled(n, FinishNode(n, v))
<1> DEFINE w == FinishNode(n, v)
<1>1. CASE v.status = "FAILED"
    BY <1>1 DEF FinishNode, FinishesSettled, SettledStatuses
<1>2. CASE v.status # "FAILED" /\ n \in {"rollback", "memory"}
    <2>1. w = UpdateStatus(v, "DONE", None)
        BY <1>2 DEF FinishNode
    <2> HIDE DEF w
    <2>2. w.status = "DONE"
        BY <2>1 DEF UpdateStatus, TaskRecord
    <2> QED
        BY <2>2 DEF FinishesSettled, SettledStatuses, w
<1>3. CASE v.status # "FAILED" /\ n = "deploy"
    <2> DEFINE s == IF v.req.target = "self" THEN "SELF_UPDATING" ELSE "STAGING_DEPLOYED"
    <2>1. w = UpdateStatus(v, s, None)
        BY <1>3 DEF FinishNode
    <2> HIDE DEF w, s
    <2>2. w.status = s /\ w.req = v.req
        BY <2>1 DEF UpdateStatus, TaskRecord
    <2> QED
        BY <1>3, <2>2 DEF FinishesSettled, SettledStatuses, w, s
<1> QED
    BY <1>1, <1>2, <1>3 DEF FinishesSettled

\* A handler leaves an unregistered row settled, or registers a run for it; a run
\* that is ending can only be overtaken by a rejection.
LEMMA HandlersKeepRest ==
    ASSUME Inv, Rests, RunImmediately \subseteq {TRUE}, NEW t \in Tasks, HandlerStep(t)
    PROVE  Rests'
<1> USE DEF Inv
<1>1. task[t] \in TaskRecord /\ (Created(t) => task[t] \in CreatedRecord)
    BY DEF TypeOK, Created, CreatedRecord
<1>2. ASSUME NEW v, Write(t, v), UNCHANGED runVars,
             v.status \in SettledStatuses \/ (v.status = task[t].status /\ Created(t))
      PROVE  RunsRestSettled' /\ EndsSettled'
    <2>2. task'[t] = v /\ \A u \in Tasks \ {t} : task'[u] = task[u]
        BY <1>2 DEF Write, TypeOK
    <2>3. RunsRestSettled'
        BY <1>2, <2>2 DEF Rests, RunsRestSettled, Created, runVars, SettledStatuses
    <2>4. EndsSettled'
        <3> SUFFICES ASSUME NEW s \in Runs, pc[s] = "ending"
                     PROVE  task'[on[s]].status \in SettledStatuses
            BY <1>2 DEF EndsSettled, runVars
        <3>1. on[s] \in Tasks
            BY RunOwnsTask
        <3> QED
            BY <1>2, <2>2, <3>1 DEF Rests, EndsSettled
    <2> QED
        BY <2>3, <2>4
<1>3. ASSUME t \notin running, Schedule(t), task' = task \/ \E v : Write(t, v)
      PROVE  RunsRestSettled' /\ EndsSettled'
    <2>1. PICK r \in Runs :
            /\ running' = running \cup {t} /\ UNCHANGED node
            /\ pc[r] = "idle" /\ pc' = [pc EXCEPT ![r] = "starting"]
            /\ on' = [on EXCEPT ![r] = t]
        BY <1>3 DEF Schedule
    <2>2. \A u \in Tasks \ {t} : task'[u] = task[u]
        BY <1>3 DEF Write, TypeOK
    <2>3. RunsRestSettled'
        BY <2>1, <2>2 DEF Rests, RunsRestSettled, Created
    <2>4. EndsSettled'
        <3> SUFFICES ASSUME NEW s \in Runs, pc'[s] = "ending"
                     PROVE  task'[on'[s]].status \in SettledStatuses
            BY DEF EndsSettled
        <3>1. pc[s] = "ending" /\ on'[s] = on[s]
            BY <2>1 DEF TypeOK
        <3>2. on[s] \in Tasks /\ on[s] # t
            BY <1>3, <3>1, RunOwnsTask
        <3> QED
            BY <2>2, <3>1, <3>2 DEF Rests, EndsSettled
    <2> QED
        BY <2>3, <2>4
<1>4. budget'.crashes = budget.crashes
    BY DEF HandlerStep, PostTask, PostRun, PostRestartStage, PostArchive, PostRestore,
           PostDecision, PutPolicy, Spend, TypeOK
<1>5. CASE PostTask(t)
    <2>1. PICK q \in Requests : Write(t, CreateTask(q))
        BY <1>5 DEF PostTask
    <2>2. CreateTask(q).status \in SettledStatuses
        BY DEF CreateTask, EmptyRecord, SettledStatuses
    <2>3. UNCHANGED runVars
        BY <1>5 DEF PostTask
    <2>4. RunsRestSettled' /\ EndsSettled'
        BY <1>2, <2>1, <2>2, <2>3
    <2> QED
        BY <1>4, <2>4 DEF Rests, NoCrashLeft
<1>6. CASE PostRun(t)
    BY <1>3, <1>4, <1>6 DEF PostRun, Rests, NoCrashLeft
<1>7. CASE \E n \in RestartNodes : PostRestartStage(t, n)
    <2>1. t \notin running /\ Schedule(t) /\ \E v : Write(t, v)
        BY <1>7 DEF PostRestartStage
    <2> QED
        BY <1>3, <1>4, <2>1 DEF Rests, NoCrashLeft
<1>8. CASE PostArchive(t) \/ PostRestore(t)
    <2>1. PICK f \in BOOLEAN : Write(t, SetArchived(task[t], f)) /\ UNCHANGED runVars
        BY <1>8 DEF PostArchive, PostRestore
    <2>2. Created(t)
        BY <1>8 DEF PostArchive, PostRestore
    <2>3. SetArchived(task[t], f).status = task[t].status
        BY <1>1 DEF SetArchived, TaskRecord
    <2> QED
        BY <1>2, <1>4, <2>1, <2>2, <2>3 DEF Rests, NoCrashLeft
<1>9. ASSUME NEW g \in Gates, NEW d \in Decisions, PostDecision(t, g, d) PROVE Rests'
    <2> DEFINE w == RecordApproval(task[t], g, d)
    <2>1. Created(t) /\ Write(t, w) /\ ((t \notin running /\ Schedule(t)) \/ UNCHANGED runVars)
        BY <1>9 DEF PostDecision
    <2>2. w.status = task[t].status \/ w.status = "FAILED"
        BY <1>1, <2>1, RecordApprovalRow
    <2> HIDE DEF w
    <2> QED
        BY <1>2, <1>3, <1>4, <2>1, <2>2 DEF Rests, NoCrashLeft, SettledStatuses
<1>10. CASE PutPolicy(t)
    BY <1>4, <1>10 DEF PutPolicy, Rests, RunsRestSettled, EndsSettled, NoCrashLeft, Created,
                       runVars
<1> QED
    BY <1>5, <1>6, <1>7, <1>8, <1>9, <1>10 DEF HandlerStep

\* A run that begins goes to a stage, or finds a settled row, or fails it.
LEMMA BeginRunKeepsRest ==
    ASSUME Inv, Rests, NEW r \in Runs, BeginRun(r) PROVE Rests'
<1> USE DEF Inv
<1> DEFINE t == on[r]
<1>1. /\ pc[r] = "starting" /\ UNCHANGED <<on, running, budget>>
      /\ t \in Tasks /\ t \in running /\ task[t] \in CreatedRecord /\ task[t] \in TaskRecord
    BY RunOwnsTask DEF BeginRun, GoTo
<1>2. \/ task' = task
      \/ task' = [task EXCEPT ![t] = FailTask(task[t])]
    BY DEF BeginRun, Write
<1>3. \A u \in Tasks \ {t} : task'[u] = task[u]
    BY <1>2 DEF TypeOK
<1>4. RunsRestSettled'
    BY <1>1, <1>3 DEF Rests, RunsRestSettled, Created
<1>5. EndsSettled'
    <2> SUFFICES ASSUME NEW s \in Runs, pc'[s] = "ending"
                 PROVE  task'[on[s]].status \in SettledStatuses
        BY <1>1 DEF EndsSettled
    <2>1. CASE s # r
        <3>1. pc[s] = "ending" /\ on[s] # t /\ on[s] \in Tasks
            BY <1>1, <2>1 DEF BeginRun, GoTo, TypeOK, Lock, OneRunPerTask
        <3> QED
            BY <1>3, <3>1 DEF Rests, EndsSettled
    <2>2. CASE s = r /\ allowed[t]
        <3>1. task' = task /\ (RouteEntry(task[t]) = "stop" \/ RouteEntry(task[t]) \notin Nodes)
            BY <2>2 DEF BeginRun, GoTo, TypeOK
        <3> QED
            BY <1>1, <2>2, <3>1, EntryOfUnsettled DEF OpenGateShowsInStatus
    <2>3. CASE s = r /\ ~allowed[t]
        <3>1. task'[t] = FailTask(task[t])
            BY <1>1, <2>3 DEF BeginRun, Write, TypeOK
        <3> QED
            BY <1>1, <2>3, <3>1, FailTaskRow DEF SettledStatuses
    <2> QED
        BY <2>1, <2>2, <2>3
<1> QED
    BY <1>1, <1>4, <1>5 DEF Rests, NoCrashLeft

\* A node that asks for a permission, fails or succeeds.
LEMMA NodesKeepRest ==
    ASSUME Inv, Rests, RequestsKept, NoSkipOfResearch, NEW r \in Runs,
           \/ AskForModification(r) \/ StageFails(r) \/ StageReportsFailure(r)
           \/ \E outcome \in {"clean", "flagged"} : StageSucceeds(r, outcome)
    PROVE  Rests'
<1> DEFINE old == task[on[r]]
           n == node[r]
<1>1. /\ pc[r] \in {"ready", "waiting"} /\ UNCHANGED budget
      /\ old \in TaskRecord /\ old \in CreatedRecord /\ n \in Nodes /\ on[r] \in Tasks
    BY RunOwnsTask DEF AskForModification, StageFails, StageReportsFailure, StageSucceeds,
                       Inv, AtWork
<1>2. ASSUME NEW v \in CreatedRecord, v.req = old.req, FinishesSettled(n, v), LeaveNode(r, v)
      PROVE  Rests'
    BY <1>1, <1>2, LeavingKeepsRest
<1>3. CASE AskForModification(r)
    <2> DEFINE v == SetApprovalRequired(old, "coding", "repository-modification")
    <2>1. LeaveNode(r, v)
        BY <1>3 DEF AskForModification
    <2>2. v \in CreatedRecord /\ v.status = "APPROVAL_REQUIRED" /\ v.req = old.req
        BY <1>1, SetApprovalRequiredRow, WritesKeepRequest DEF Nodes, StageIndex, Gates
    <2> HIDE DEF v, old
    <2> QED
        BY <1>2, <2>1, <2>2 DEF FinishesSettled, SettledStatuses
<1>4. CASE StageFails(r)
    <2> DEFINE v == FailTask(old)
    <2>1. LeaveNode(r, v)
        BY <1>4 DEF StageFails
    <2>2. v \in CreatedRecord /\ v.status = "FAILED" /\ v.req = old.req
        BY <1>1, FailTaskRow, NodesKeepRequest
    <2> HIDE DEF v, old
    <2> QED
        BY <1>2, <2>1, <2>2 DEF FinishesSettled, SettledStatuses
<1>5. CASE StageReportsFailure(r)
    <2> DEFINE stored == StoreWorkerResult(old, n, "failed", {}, 0)
               v == FailTask(stored)
    <2>1. LeaveNode(r, v)
        BY <1>5 DEF StageReportsFailure
    <2>2. stored \in TaskRecord /\ stored.req = old.req
        BY <1>1, MaxEditsAssumption, StoreWorkerResultRow, WritesKeepRequest DEF Outcomes
    <2> HIDE DEF stored
    <2>3. v \in CreatedRecord /\ v.status = "FAILED" /\ v.req = old.req
        BY <2>2, FailTaskRow, NodesKeepRequest
    <2> HIDE DEF v, old
    <2> QED
        BY <1>2, <2>1, <2>3 DEF FinishesSettled, SettledStatuses
<1>6. ASSUME NEW outcome \in {"clean", "flagged"}, StageSucceeds(r, outcome) PROVE Rests'
    <2>1. PICK recommended \in IF n = "human_resources" THEN Recommendations ELSE {{}} :
            LeaveNode(r, FinishNode(n, StoreWorkerResult(old, n, outcome, recommended,
                                                         workspace[on[r]])))
        BY <1>6 DEF StageSucceeds
    <2> DEFINE stored == StoreWorkerResult(old, n, outcome, recommended, workspace[on[r]])
               v == FinishNode(n, stored)
    <2>2. /\ recommended \in SUBSET Specialists /\ outcome \in Outcomes
          /\ workspace[on[r]] \in 0..MaxEdits
        BY <1>1, StagesAssumption DEF Outcomes, Inv, TypeOK
    <2>3. stored \in CreatedRecord /\ stored \in TaskRecord /\ stored.req = old.req
        BY <1>1, <2>2, StoreWorkerResultRow, WritesKeepRequest DEF CreatedRecord
    <2>4. LeaveNode(r, v)
        BY <2>1
    <2> HIDE DEF stored
    <2>5. v \in CreatedRecord /\ v.req = old.req /\ FinishesSettled(n, v)
        BY <1>1, <2>3, FinishNodeRow, NodesKeepRequest, FinishNodeSettles
    <2> HIDE DEF v, old
    <2> QED
        BY <1>2, <2>4, <2>5
<1> QED
    BY <1>3, <1>4, <1>5, <1>6

\* Every step keeps the tasks without a run settled.
LEMMA StepKeepsRest ==
    ASSUME Inv, Rests, RequestsKept, NoSkipOfResearch, RunImmediately \subseteq {TRUE},
           [Next]_vars
    PROVE  Rests'
<1>1. CASE \E t \in Tasks : HandlerStep(t)
    BY <1>1, HandlersKeepRest
<1>2. ASSUME NEW r \in Runs, Dispatch(r) PROVE Rests'
    <2>1. /\ pc[r] = "ready" /\ pc' = [pc EXCEPT ![r] = "waiting"]
          /\ on[r] \in Tasks /\ on[r] \in running
          /\ UNCHANGED <<running, on, budget>>
          /\ \A u \in Tasks \ {on[r]} : task'[u] = task[u]
        BY <1>2, RunOwnsTask DEF Dispatch, Write, Inv, TypeOK
    <2>2. RunsRestSettled'
        BY <2>1 DEF Rests, RunsRestSettled, Created
    <2>3. EndsSettled'
        <3> SUFFICES ASSUME NEW s \in Runs, pc'[s] = "ending"
                     PROVE  task'[on[s]].status \in SettledStatuses
            BY <2>1 DEF EndsSettled
        <3>1. pc[s] = "ending" /\ on[s] # on[r] /\ on[s] \in Tasks
            BY <2>1 DEF Inv, TypeOK, Lock, OneRunPerTask
        <3> QED
            BY <2>1, <3>1 DEF Rests, EndsSettled
    <2> QED
        BY <2>1, <2>2, <2>3 DEF Rests, NoCrashLeft
<1>3. ASSUME NEW r \in Runs, EndRun(r) PROVE Rests'
    <2>1. /\ pc[r] = "ending" /\ on[r] \in Tasks
          /\ running' = running \ {on[r]} /\ UNCHANGED <<task, budget>>
          /\ pc' = [pc EXCEPT ![r] = "idle"] /\ on' = [on EXCEPT ![r] = None]
        BY <1>3, RunOwnsTask DEF EndRun
    <2>2. task[on[r]].status \in SettledStatuses
        BY <2>1 DEF Rests, EndsSettled
    <2>3. RunsRestSettled'
        BY <2>1, <2>2 DEF Rests, RunsRestSettled, Created, SettledStatuses
    <2>4. EndsSettled'
        BY <2>1 DEF Rests, EndsSettled, Inv, TypeOK
    <2> QED
        BY <2>1, <2>3, <2>4 DEF Rests, NoCrashLeft
<1>4. CASE \E r \in Runs : RunStep(r)
    BY <1>2, <1>3, <1>4, BeginRunKeepsRest, NodesKeepRest DEF RunStep
<1>5. CASE Crash
    <2>1. FALSE
        BY <1>5 DEF Crash, Spend, Rests, NoCrashLeft
    <2> QED
        BY <2>1
<1>6. CASE UNCHANGED vars
    BY <1>6 DEF vars, runVars, Rests, RunsRestSettled, EndsSettled, NoCrashLeft, Created
<1> QED
    BY <1>1, <1>4, <1>5, <1>6 DEF Next

\* Without crashes and deferred restarts, a task no run works on rests in a status
\* where it may: the pipeline never leaves one in the middle.
THEOREM RestHolds == Uninterrupted /\ NoSkipOfResearch /\ Spec => []RunsRestSettled
<1> SUFFICES ASSUME Uninterrupted, NoSkipOfResearch PROVE Spec => []RunsRestSettled
    OBVIOUS
<1>1. Init => Rests
    BY NoViewIsRecord
       DEF Init, Rests, RunsRestSettled, EndsSettled, NoCrashLeft, Created, Uninterrupted
<1>2. Inv /\ RequestsKept /\ Rests /\ [Next]_vars => Rests'
    BY StepKeepsRest DEF Uninterrupted
<1>3. Rests => RunsRestSettled
    BY DEF Rests
<1> QED
    BY <1>1, <1>2, <1>3, InvariantHolds, RequestsStay, PTL DEF Spec
===============================================================================
