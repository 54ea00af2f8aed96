----------------------- MODULE TaskLifecycleRefinement -----------------------
(***************************************************************************)
(* TaskWorkflow implements TaskLifecycle under the mapping of              *)
(* TaskWorkflow!Lifecycle: the first state maps to a first state, and each *)
(* step maps to one step of the task's life or to none.                    *)
(***************************************************************************)
EXTENDS TaskWorkflowProofs

\* A row write that leaves the life of its task alone.
SameLife(v, w) == SameGrants(v, w) /\ w.approvalRequired = v.approvalRequired

\* The mode of a task with a live run is the mode of that run.
LEMMA ModeOfRun ==
    ASSUME Inv, NEW r \in Runs, pc[r] # "idle"
    PROVE  ModeOf(on[r]) = IF pc[r] = "ending" THEN "leaving" ELSE "active"
<1>1. Created(on[r]) /\ on[r] \in running
    BY RunOwnsTask DEF Created, CreatedRecord
<1>2. (\E s \in Runs : on[s] = on[r] /\ pc[s] = "ending") <=> pc[r] = "ending"
    BY DEF Inv, Lock, OneRunPerTask
<1> QED
    BY <1>1, <1>2 DEF ModeOf

\* A task nobody works on rests.
LEMMA ModeAtRest ==
    ASSUME NEW t \in Tasks, t \notin running, Created(t)
    PROVE  ModeOf(t) = "resting"
BY DEF ModeOf

\* A run that writes the row of its task and moves to position p moves the mode
\* of that task only.
LEMMA RunStepMoves ==
    ASSUME Inv, Inv', NEW r \in Runs, pc[r] # "idle",
           NEW v \in CreatedRecord, Write(on[r], v),
           UNCHANGED <<on, running>>,
           NEW p \in Positions \ {"idle"}, pc' = [pc EXCEPT ![r] = p]
    PROVE  /\ ModeOf(on[r])' = IF p = "ending" THEN "leaving" ELSE "active"
           /\ task'[on[r]] = v
           /\ \A u \in Tasks : u # on[r] => task'[u] = task[u] /\ ModeOf(u)' = ModeOf(u)
<1>1. on[r] \in Tasks /\ task' = [task EXCEPT ![on[r]] = v] /\ pc'[r] = p
    BY RunOwnsTask DEF Write, Inv, TypeOK
<1>2. task'[on[r]] = v
    BY <1>1 DEF Inv, TypeOK
<1>3. ModeOf(on[r])' = IF p = "ending" THEN "leaving" ELSE "active"
    <2>1. Created(on[r])' /\ on[r] \in running'
        BY <1>2, RunOwnsTask DEF Created, CreatedRecord
    <2>2. (\E s \in Runs : on'[s] = on[r] /\ pc'[s] = "ending") <=> p = "ending"
        BY <1>1 DEF Inv, Lock, OneRunPerTask
    <2> QED
        BY <2>1, <2>2 DEF ModeOf
<1>4. ASSUME NEW u \in Tasks, u # on[r]
      PROVE  task'[u] = task[u] /\ ModeOf(u)' = ModeOf(u)
    <2>1. task'[u] = task[u]
        BY <1>1, <1>4 DEF Inv, TypeOK
    <2>2. (\E s \in Runs : on'[s] = u /\ pc'[s] = "ending")
            <=> (\E s \in Runs : on[s] = u /\ pc[s] = "ending")
        BY <1>4 DEF Inv, TypeOK
    <2> QED
        BY <2>1, <2>2 DEF ModeOf, Created
<1> QED
    BY <1>2, <1>3, <1>4

\* A run that ends pauses its task, at a gate if its last write opened one.
LEMMA RunPauses ==
    ASSUME Inv, Inv', NEW r \in Runs, pc[r] \in {"starting", "ready", "waiting"},
           NEW v \in CreatedRecord, Write(on[r], v), SameGrants(task[on[r]], v),
           task[on[r]].approvalRequired => v.approvalRequired,
           UNCHANGED <<on, running>>, pc' = [pc EXCEPT ![r] = "ending"],
           \A u \in Tasks : u # on[r] => workspace'[u] = workspace[u],
           \/ workspace'[on[r]] > 0 <=> workspace[on[r]] > 0
           \/ v.allowModifications /\ ~v.approvalRequired /\ workspace'[on[r]] > 0
    PROVE  Lifecycle!Next
<1> SUFFICES ASSUME NEW t \in Tasks, t = on[r] PROVE Lifecycle!Next
    BY RunOwnsTask
<1>1. /\ ModeOf(t) = "active" /\ ModeOf(t)' = "leaving" /\ task'[t] = v
      /\ \A u \in Tasks : u # t => task'[u] = task[u] /\ ModeOf(u)' = ModeOf(u)
    BY ModeOfRun, RunStepMoves DEF Positions
<1>2. task[t] \in TaskRecord /\ v \in TaskRecord
    BY RunOwnsTask DEF CreatedRecord
<1>3. Lifecycle!Pause(t)
    BY <1>1, <1>2 DEF Lifecycle!Pause, SameGrants
<1> QED
    BY <1>3 DEF Lifecycle!Next

\* A run that goes on leaves its task as it is, or has edited a workspace
\* it may modify.
LEMMA RunGoesOn ==
    ASSUME Inv, Inv', NEW r \in Runs, pc[r] \in {"starting", "ready", "waiting"},
           NEW v \in CreatedRecord, Write(on[r], v), SameLife(task[on[r]], v),
           UNCHANGED <<on, running>>,
           NEW p \in {"ready", "waiting"}, pc' = [pc EXCEPT ![r] = p],
           \A u \in Tasks : u # on[r] => workspace'[u] = workspace[u],
           \/ workspace'[on[r]] > 0 <=> workspace[on[r]] > 0
           \/ v.allowModifications /\ ~v.approvalRequired /\ workspace'[on[r]] > 0
    PROVE  [Lifecycle!Next]_(Lifecycle!vars)
<1> SUFFICES ASSUME NEW t \in Tasks, t = on[r]
             PROVE  [Lifecycle!Next]_(Lifecycle!vars)
    BY RunOwnsTask
<1>1. /\ ModeOf(t) = "active" /\ ModeOf(t)' = "active" /\ task'[t] = v
      /\ \A u \in Tasks : u # t => task'[u] = task[u] /\ ModeOf(u)' = ModeOf(u)
    BY ModeOfRun, RunStepMoves DEF Positions
<1>2. task[t] \in TaskRecord /\ v \in TaskRecord
    BY RunOwnsTask DEF CreatedRecord
<1>3. CASE workspace'[t] > 0 <=> workspace[t] > 0
    BY <1>1, <1>2, <1>3 DEF Lifecycle!vars, SameLife, SameGrants
<1>4. CASE v.allowModifications /\ ~v.approvalRequired /\ workspace'[t] > 0
    <2>1. Lifecycle!Work(t)
        BY <1>1, <1>2, <1>4 DEF Lifecycle!Work, SameLife, SameGrants
    <2> QED
        BY <2>1 DEF Lifecycle!Next
<1> QED
    BY <1>3, <1>4

\* What a run that leaves its node does to its task: it pauses it or goes on.
LEMMA LeaveNodeRefines ==
    ASSUME Inv, Inv', NEW r \in Runs, pc[r] \in {"ready", "waiting"},
           NEW v \in CreatedRecord, LeaveNode(r, v), SameGrants(task[on[r]], v),
           GateOnlyOpensAtStop(task[on[r]], v),
           \A u \in Tasks : u # on[r] => workspace'[u] = workspace[u],
           \/ workspace'[on[r]] > 0 <=> workspace[on[r]] > 0
           \/ v.allowModifications /\ ~v.approvalRequired /\ workspace'[on[r]] > 0
    PROVE  [Lifecycle!Next]_(Lifecycle!vars)
<1>1. /\ Write(on[r], v) /\ UNCHANGED <<on, running>>
      /\ \/ pc' = [pc EXCEPT ![r] = "ready"] /\ RouteAfter(node[r], v) # "stop"
         \/ pc' = [pc EXCEPT ![r] = "ending"]
    BY DEF LeaveNode, GoTo
<1>2. ~task[on[r]].approvalRequired
    BY DEF Inv, AtWork
<1>3. CASE pc' = [pc EXCEPT ![r] = "ready"] /\ RouteAfter(node[r], v) # "stop"
    <2>1. v.status # "APPROVAL_REQUIRED"
        BY <1>3 DEF RouteAfter, ShouldStop
    <2>2. SameLife(task[on[r]], v)
        BY <2>1 DEF GateOnlyOpensAtStop, SameLife
    <2> QED
        BY <1>1, <1>3, <2>2, RunGoesOn
<1>4. CASE pc' = [pc EXCEPT ![r] = "ending"]
    BY <1>1, <1>2, <1>4, RunPauses
<1> QED
    BY <1>1, <1>3, <1>4

-----------------------------------------------------------------------------
(* Steps of runs *)

\* A run that begins goes on, or pauses where there is nothing it may do.
LEMMA BeginRunRefines ==
    ASSUME Inv, Inv', NEW r \in Runs, BeginRun(r)
    PROVE  [Lifecycle!Next]_(Lifecycle!vars)
<1> DEFINE v == task[on[r]]
<1>1. pc[r] = "starting" /\ UNCHANGED <<workspace, on, running>>
    BY DEF BeginRun, GoTo
<1>2. v \in CreatedRecord /\ v \in TaskRecord /\ on[r] \in Tasks
    BY <1>1, RunOwnsTask
<1>3. CASE allowed[on[r]]
    <2>1. /\ Write(on[r], v) /\ SameLife(v, v)
          /\ \/ pc' = [pc EXCEPT ![r] = "ready"]
             \/ pc' = [pc EXCEPT ![r] = "ending"]
        BY <1>2, <1>3 DEF BeginRun, GoTo, Write, SameLife, SameGrants, Inv, TypeOK
    <2> HIDE DEF v
    <2>2. CASE pc' = [pc EXCEPT ![r] = "ready"]
        BY <1>1, <1>2, <2>1, <2>2, RunGoesOn DEF v
    <2>3. CASE pc' = [pc EXCEPT ![r] = "ending"]
        BY <1>1, <1>2, <2>1, <2>3, RunPauses DEF v, SameLife
    <2> QED
        BY <2>1, <2>2, <2>3
<1>4. CASE ~allowed[on[r]]
    <2> DEFINE w == FailTask(v)
    <2>1. Write(on[r], w) /\ pc' = [pc EXCEPT ![r] = "ending"]
        BY <1>4 DEF BeginRun, GoTo
    <2>2. /\ w \in CreatedRecord /\ SameGrants(v, w)
          /\ w.approvalRequired = v.approvalRequired
        BY <1>2, FailTaskRow
    <2> HIDE DEF w
    <2> QED
        BY <1>1, <2>1, <2>2, RunPauses
<1> QED
    BY <1>3, <1>4

\* A run that dispatches a stage goes on.
LEMMA DispatchRefines ==
    ASSUME Inv, Inv', NEW r \in Runs, Dispatch(r)
    PROVE  [Lifecycle!Next]_(Lifecycle!vars)
<1> DEFINE w == StartStage(task[on[r]], node[r], view[r])
<1>1. /\ pc[r] = "ready" /\ Write(on[r], w) /\ pc' = [pc EXCEPT ![r] = "waiting"]
      /\ UNCHANGED <<workspace, on, running>>
    BY DEF Dispatch
<1>2. task[on[r]] \in TaskRecord /\ node[r] \in Nodes /\ view[r] \in TaskRecord
    BY <1>1, RunOwnsTask DEF Inv, AtWork, TypeOK
<1>3. w \in CreatedRecord /\ SameLife(task[on[r]], w)
    BY <1>2, StartStageRow DEF SameLife
<1> HIDE DEF w
<1> QED
    BY <1>1, <1>3, RunGoesOn

\* The gate before coding: the run pauses and opens a gate.
LEMMA AskForModificationRefines ==
    ASSUME Inv, Inv', NEW r \in Runs, AskForModification(r)
    PROVE  [Lifecycle!Next]_(Lifecycle!vars)
<1> DEFINE v == SetApprovalRequired(task[on[r]], "coding", "repository-modification")
<1>1. pc[r] = "ready" /\ LeaveNode(r, v) /\ UNCHANGED workspace
    BY DEF AskForModification
<1>2. "coding" \in Nodes /\ "repository-modification" \in Gates
    BY DEF Nodes, StageIndex, Gates
<1>3. /\ v \in CreatedRecord /\ SameGrants(task[on[r]], v)
      /\ GateOnlyOpensAtStop(task[on[r]], v)
    BY <1>1, <1>2, RunOwnsTask, SetApprovalRequiredRow DEF GateOnlyOpensAtStop
<1> HIDE DEF v
<1> QED
    BY <1>1, <1>3, LeaveNodeRefines

\* A stage that raises: the run pauses, and may have edited first.
LEMMA StageFailsRefines ==
    ASSUME Inv, Inv', NEW r \in Runs, StageFails(r)
    PROVE  [Lifecycle!Next]_(Lifecycle!vars)
<1> DEFINE v == FailTask(task[on[r]])
<1>1. pc[r] = "waiting" /\ LeaveNode(r, v) /\ MayHaveEdited(r)
    BY DEF StageFails
<1>2. /\ v \in CreatedRecord /\ SameGrants(task[on[r]], v)
      /\ GateOnlyOpensAtStop(task[on[r]], v)
      /\ v.approvalRequired = task[on[r]].approvalRequired
    BY <1>1, RunOwnsTask, FailTaskRow DEF GateOnlyOpensAtStop
<1> HIDE DEF v
<1>3. /\ \A u \in Tasks : u # on[r] => workspace'[u] = workspace[u]
      /\ \/ workspace'[on[r]] > 0 <=> workspace[on[r]] > 0
         \/ v.allowModifications /\ ~v.approvalRequired /\ workspace'[on[r]] > 0
    BY <1>1, <1>2, EditsArePermitted DEF SameGrants
<1> QED
    BY <1>1, <1>2, <1>3, LeaveNodeRefines

\* A stage that answers with a failure: the same.
LEMMA StageReportsFailureRefines ==
    ASSUME Inv, Inv', NEW r \in Runs, StageReportsFailure(r)
    PROVE  [Lifecycle!Next]_(Lifecycle!vars)
<1> DEFINE old == task[on[r]]
           stored == StoreWorkerResult(old, node[r], "failed", {}, 0)
           v == FailTask(stored)
<1>1. pc[r] = "waiting" /\ LeaveNode(r, v) /\ MayHaveEdited(r)
    BY DEF StageReportsFailure
<1>2. old \in TaskRecord /\ node[r] \in Nodes
    BY <1>1, RunOwnsTask DEF Inv, AtWork
<1>3. "failed" \in Outcomes /\ {} \in SUBSET Specialists /\ 0 \in 0..MaxEdits
    BY MaxEditsAssumption DEF Outcomes
<1>4. /\ stored \in TaskRecord /\ SameGrants(old, stored)
      /\ stored.approvalRequired = old.approvalRequired
    BY <1>2, <1>3, StoreWorkerResultRow
<1> HIDE DEF old, stored
<1>5. /\ v \in CreatedRecord /\ SameGrants(old, v) /\ GateOnlyOpensAtStop(old, v)
      /\ v.approvalRequired = old.approvalRequired
    BY <1>4, FailTaskRow DEF GateOnlyOpensAtStop, SameGrants
<1> HIDE DEF v
<1>6. /\ \A u \in Tasks : u # on[r] => workspace'[u] = workspace[u]
      /\ \/ workspace'[on[r]] > 0 <=> workspace[on[r]] > 0
         \/ v.allowModifications /\ ~v.approvalRequired /\ workspace'[on[r]] > 0
    BY <1>1, <1>5, EditsArePermitted DEF SameGrants, old
<1> QED
    BY <1>1, <1>5, <1>6, LeaveNodeRefines DEF old

\* The only stage that edits is coding; it is permitted and opens no gate.
LEMMA StageSucceedsRefines ==
    ASSUME Inv, Inv', NEW r \in Runs, NEW outcome \in {"clean", "flagged"},
           StageSucceeds(r, outcome)
    PROVE  [Lifecycle!Next]_(Lifecycle!vars)
<1> DEFINE old == task[on[r]]
           n == node[r]
           commit == workspace[on[r]]
<1>1. /\ pc[r] = "waiting"
      /\ workspace' = [workspace EXCEPT ![on[r]] = NewestEdit(n, on[r])]
    BY DEF StageSucceeds
<1>2. PICK recommended \in IF n = "human_resources" THEN Recommendations ELSE {{}} :
        LeaveNode(r, FinishNode(n, StoreWorkerResult(old, n, outcome, recommended, commit)))
    BY DEF StageSucceeds
<1> DEFINE stored == StoreWorkerResult(old, n, outcome, recommended, commit)
           v == FinishNode(n, stored)
<1>3. /\ old \in TaskRecord /\ old \in CreatedRecord /\ n \in Nodes
      /\ commit \in 0..MaxEdits /\ on[r] \in Tasks
    BY <1>1, RunOwnsTask DEF Inv, TypeOK, AtWork
<1>4. outcome \in Outcomes /\ recommended \in SUBSET Specialists
    BY StagesAssumption DEF Outcomes
<1>5. /\ stored \in CreatedRecord /\ SameGrants(old, stored)
      /\ stored.approvalRequired = old.approvalRequired
    BY <1>3, <1>4, StoreWorkerResultRow DEF CreatedRecord
<1>6. n = "coding" => v = stored /\ old.allowModifications /\ ~old.approvalRequired
    BY <1>1 DEF FinishNode, Inv, AtWork
<1>7. /\ workspace'[on[r]] = NewestEdit(n, on[r])
      /\ \A u \in Tasks : u # on[r] => workspace'[u] = workspace[u]
    BY <1>1, <1>3 DEF Inv, TypeOK
<1>8. /\ n # "coding" => NewestEdit(n, on[r]) = commit
      /\ n = "coding" => NewestEdit(n, on[r]) > 0
    BY <1>3, MaxEditsAssumption DEF NewestEdit
<1> HIDE DEF old, n, commit, stored
<1>9. v \in CreatedRecord /\ SameGrants(old, v) /\ GateOnlyOpensAtStop(old, v)
    BY <1>3, <1>5, FinishNodeRow DEF GateOnlyOpensAtStop, SameGrants
<1>10. LeaveNode(r, v)
    BY <1>2 DEF stored
<1>11. \/ workspace'[on[r]] > 0 <=> workspace[on[r]] > 0
       \/ v.allowModifications /\ ~v.approvalRequired /\ workspace'[on[r]] > 0
    BY <1>5, <1>6, <1>7, <1>8 DEF commit, SameGrants
<1> HIDE DEF v
<1> QED
    BY <1>1, <1>7, <1>9, <1>10, <1>11, LeaveNodeRefines DEF old

\* Whether a run that ended left others at work is settled by the lock: none.
LEMMA EndRunRefines ==
    ASSUME Inv, Inv', NEW r \in Runs, EndRun(r)
    PROVE  [Lifecycle!Next]_(Lifecycle!vars)
<1>1. /\ pc[r] = "ending" /\ running' = running \ {on[r]}
      /\ pc' = [pc EXCEPT ![r] = "idle"] /\ on' = [on EXCEPT ![r] = None]
      /\ UNCHANGED <<task, workspace>>
    BY DEF EndRun
<1> SUFFICES ASSUME NEW t \in Tasks, t = on[r]
             PROVE  [Lifecycle!Next]_(Lifecycle!vars)
    BY <1>1, RunOwnsTask
<1>2. ModeOf(t) = "leaving" /\ Created(t)
    BY <1>1, ModeOfRun, RunOwnsTask DEF Created, CreatedRecord
<1>3. ModeOf(t)' = "resting"
    BY <1>1, <1>2 DEF ModeOf, Created
<1>4. ASSUME NEW u \in Tasks, u # t PROVE ModeOf(u)' = ModeOf(u)
    <2>1. (\E s \in Runs : on'[s] = u /\ pc'[s] = "ending")
            <=> (\E s \in Runs : on[s] = u /\ pc[s] = "ending")
        BY <1>1, <1>4, NamesAssumption DEF Inv, TypeOK
    <2> QED
        BY <1>1, <1>4, <2>1 DEF ModeOf, Created
<1>5. Lifecycle!Release(t)
    BY <1>1, <1>2, <1>3, <1>4 DEF Lifecycle!Release
<1> QED
    BY <1>5 DEF Lifecycle!Next

\* A crash puts every task at rest.
LEMMA CrashRefines ==
    ASSUME Inv, Inv', Crash
    PROVE  [Lifecycle!Next]_(Lifecycle!vars)
<1>1. running' = {} /\ UNCHANGED <<task, workspace>>
    BY DEF Crash
<1>2. ASSUME NEW t \in Tasks
      PROVE  ModeOf(t)' = IF ModeOf(t) \in {"active", "leaving"} THEN "resting" ELSE ModeOf(t)
    BY <1>1 DEF ModeOf, Created
<1>3. Lifecycle!Crash
    BY <1>1, <1>2 DEF Lifecycle!Crash
<1> QED
    BY <1>3 DEF Lifecycle!Next

-----------------------------------------------------------------------------
(* Steps of handlers *)

\* A handler that writes the row of a task and starts nothing keeps the mode of
\* every other task, and its own if the task existed before.
LEMMA RowWriteMoves ==
    ASSUME Inv, NEW t \in Tasks, NEW v \in CreatedRecord, Write(t, v),
           UNCHANGED runVars
    PROVE  /\ task'[t] = v /\ Created(t)'
           /\ Created(t) => ModeOf(t)' = ModeOf(t)
           /\ \A u \in Tasks : u # t => task'[u] = task[u] /\ ModeOf(u)' = ModeOf(u)
<1>1. task' = [task EXCEPT ![t] = v]
    BY DEF Write
<1>2. task'[t] = v /\ \A u \in Tasks : u # t => task'[u] = task[u]
    BY <1>1 DEF Inv, TypeOK
<1>3. Created(t)' /\ \A u \in Tasks : u # t => Created(u)' = Created(u)
    BY <1>2 DEF Created, CreatedRecord
<1> QED
    BY <1>2, <1>3 DEF ModeOf, runVars

\* A handler that starts a run makes its task active and keeps the other modes.
LEMMA ScheduleMoves ==
    ASSUME Inv, NEW t \in Tasks, t \notin running, Schedule(t),
           NEW v \in CreatedRecord, Write(t, v)
    PROVE  /\ task'[t] = v /\ ModeOf(t)' = "active"
           /\ \A u \in Tasks : u # t => task'[u] = task[u] /\ ModeOf(u)' = ModeOf(u)
<1>1. PICK r \in Runs :
        /\ pc[r] = "idle"
        /\ running' = running \cup {t}
        /\ pc' = [pc EXCEPT ![r] = "starting"]
        /\ on' = [on EXCEPT ![r] = t]
    BY DEF Schedule
<1>2. task' = [task EXCEPT ![t] = v]
    BY DEF Write
<1>3. task'[t] = v /\ \A u \in Tasks : u # t => task'[u] = task[u]
    BY <1>2 DEF Inv, TypeOK
<1>4. Created(t)' /\ t \in running'
    BY <1>1, <1>3 DEF Created, CreatedRecord
<1>5. ~\E s \in Runs : on'[s] = t /\ pc'[s] = "ending"
    BY <1>1 DEF Inv, TypeOK, Lock, OneRunPerTask
<1>6. ASSUME NEW u \in Tasks, u # t PROVE ModeOf(u)' = ModeOf(u)
    <2>1. (\E s \in Runs : on'[s] = u /\ pc'[s] = "ending")
            <=> (\E s \in Runs : on[s] = u /\ pc[s] = "ending")
        BY <1>1, <1>6 DEF Inv, TypeOK
    <2>2. Created(u)' = Created(u) /\ (u \in running' <=> u \in running)
        BY <1>1, <1>3, <1>6 DEF Created
    <2> QED
        BY <2>1, <2>2 DEF ModeOf
<1> QED
    BY <1>3, <1>4, <1>5, <1>6 DEF ModeOf

\* Creating a task.
LEMMA PostTaskRefines ==
    ASSUME Inv, NEW t \in Tasks, PostTask(t)
    PROVE  [Lifecycle!Next]_(Lifecycle!vars)
<1>1. PICK q \in Requests : Write(t, CreateTask(q))
    BY DEF PostTask
<1> DEFINE v == CreateTask(q)
<1>2. v \in CreatedRecord /\ ~v.approvalRequired /\ ~v.archived
    BY CreateTaskRow
<1>3. ~Created(t) /\ UNCHANGED <<runVars, workspace>> /\ t \notin running
    BY DEF PostTask, Inv, Lock, CreatedRecord, Created
<1>4. ~task[t].approvalRequired /\ ~task[t].archived
    BY <1>3 DEF Inv, ArchivedIsQuiescent, Archivable, OpenGateShowsInStatus, Created
<1> HIDE DEF v
<1>5. /\ task'[t] = v /\ Created(t)'
      /\ \A u \in Tasks : u # t => task'[u] = task[u] /\ ModeOf(u)' = ModeOf(u)
    BY <1>1, <1>2, <1>3, RowWriteMoves DEF v
<1>6. ModeOf(t) = "absent" /\ ModeOf(t)' = "resting"
    BY <1>3, <1>5 DEF ModeOf, runVars
<1>7. Lifecycle!Create(t)
    <2>1. UNCHANGED {u \in Tasks : task[u].approvalRequired}
        BY <1>2, <1>4, <1>5
    <2>2. UNCHANGED {u \in Tasks : task[u].archived}
        BY <1>2, <1>4, <1>5
    <2>3. UNCHANGED {u \in Tasks : workspace[u] > 0}
        BY <1>3
    <2>4. {u \in Tasks : task[u].allowModifications}' \in
            {{u \in Tasks : task[u].allowModifications} \cup {t},
             {u \in Tasks : task[u].allowModifications} \ {t}}
        BY <1>5
    <2> QED
        BY <1>5, <1>6, <2>1, <2>2, <2>3, <2>4 DEF Lifecycle!Create
<1> QED
    BY <1>7 DEF Lifecycle!Next

\* A request to run a task starts it.
LEMMA PostRunRefines ==
    ASSUME Inv, NEW t \in Tasks, PostRun(t)
    PROVE  [Lifecycle!Next]_(Lifecycle!vars)
<1>1. /\ Created(t) /\ ~task[t].archived /\ t \notin running /\ Schedule(t)
      /\ UNCHANGED <<task, workspace>>
    BY DEF PostRun
<1>2. Write(t, task[t]) /\ task[t] \in CreatedRecord
    BY <1>1 DEF Write, Inv, TypeOK, Created, CreatedRecord
<1>3. /\ ModeOf(t)' = "active"
      /\ \A u \in Tasks : u # t => ModeOf(u)' = ModeOf(u)
    BY <1>1, <1>2, ScheduleMoves
<1>4. ModeOf(t) = "resting"
    BY <1>1, ModeAtRest
<1>5. Lifecycle!Start(t)
    BY <1>1, <1>3, <1>4 DEF Lifecycle!Start
<1> QED
    BY <1>5 DEF Lifecycle!Next

\* A request to restart a task at a stage, which closes its gate.
LEMMA PostRestartStageRefines ==
    ASSUME Inv, NEW t \in Tasks, NEW n \in RestartNodes, PostRestartStage(t, n)
    PROVE  [Lifecycle!Next]_(Lifecycle!vars)
<1> DEFINE w == RestartFromWorker(task[t], n)
<1>1. /\ Created(t) /\ ~task[t].archived /\ t \notin running /\ Write(t, w)
      /\ UNCHANGED workspace
      /\ Schedule(t) \/ UNCHANGED runVars
    BY DEF PostRestartStage
<1>2. w \in CreatedRecord /\ SameGrants(task[t], w) /\ ~w.approvalRequired
    BY StagesAssumption, RestartFromWorkerRow DEF Inv, TypeOK
<1> HIDE DEF w
<1>3. ModeOf(t) = "resting"
    BY <1>1, ModeAtRest
<1>4. /\ task'[t] = w /\ ModeOf(t)' \in {"resting", "active"}
      /\ \A u \in Tasks : u # t => task'[u] = task[u] /\ ModeOf(u)' = ModeOf(u)
    BY <1>1, <1>2, <1>3, ScheduleMoves, RowWriteMoves
<1>5. Lifecycle!Restart(t)
    BY <1>1, <1>2, <1>3, <1>4 DEF Lifecycle!Restart, SameGrants
<1> QED
    BY <1>5 DEF Lifecycle!Next

\* Archiving a task and taking it back.
LEMMA ArchiveHandlersRefine ==
    ASSUME Inv, NEW t \in Tasks, PostArchive(t) \/ PostRestore(t)
    PROVE  [Lifecycle!Next]_(Lifecycle!vars)
<1>1. /\ Created(t) /\ UNCHANGED <<workspace, runVars>>
      /\ task[t] \in CreatedRecord
    BY DEF PostArchive, PostRestore, Inv, TypeOK, Created, CreatedRecord
<1>2. CASE PostArchive(t)
    <2> DEFINE w == SetArchived(task[t], TRUE)
    <2>1. w \in CreatedRecord /\ w = [task[t] EXCEPT !.archived = TRUE] /\ Write(t, w)
        BY <1>1, <1>2 DEF PostArchive, SetArchived, CreatedRecord, TaskRecord
    <2>2. /\ w.archived = TRUE /\ w.approvalRequired = task[t].approvalRequired
          /\ w.allowModifications = task[t].allowModifications
        BY <1>1, <2>1 DEF CreatedRecord, TaskRecord
    <2>3. t \notin running /\ ~task[t].approvalRequired
        BY <1>2 DEF PostArchive, Archivable
    <2> HIDE DEF w
    <2>4. /\ task'[t] = w /\ ModeOf(t)' = ModeOf(t) /\ ModeOf(t) = "resting"
          /\ \A u \in Tasks : u # t => task'[u] = task[u] /\ ModeOf(u)' = ModeOf(u)
        BY <1>1, <2>1, <2>3, RowWriteMoves, ModeAtRest
    <2>5. Lifecycle!Archive(t)
        BY <1>1, <2>2, <2>3, <2>4 DEF Lifecycle!Archive
    <2> QED
        BY <2>5 DEF Lifecycle!Next
<1>3. CASE PostRestore(t)
    <2> DEFINE w == SetArchived(task[t], FALSE)
    <2>1. w \in CreatedRecord /\ w = [task[t] EXCEPT !.archived = FALSE] /\ Write(t, w)
        BY <1>1, <1>3 DEF PostRestore, SetArchived, CreatedRecord, TaskRecord
    <2>2. /\ w.archived = FALSE /\ w.approvalRequired = task[t].approvalRequired
          /\ w.allowModifications = task[t].allowModifications
        BY <1>1, <2>1 DEF CreatedRecord, TaskRecord
    <2> HIDE DEF w
    <2>3. /\ task'[t] = w /\ ModeOf(t)' = ModeOf(t)
          /\ \A u \in Tasks : u # t => task'[u] = task[u] /\ ModeOf(u)' = ModeOf(u)
        BY <1>1, <2>1, RowWriteMoves
    <2>4. Lifecycle!Restore(t)
        BY <1>1, <2>2, <2>3 DEF Lifecycle!Restore
    <2> QED
        BY <2>4 DEF Lifecycle!Next
<1> QED
    BY <1>2, <1>3

\* An approval is the abstract one; a rejection only fails the task.
LEMMA PostDecisionRefines ==
    ASSUME Inv, NEW t \in Tasks, NEW g \in Gates, NEW d \in Decisions,
           PostDecision(t, g, d)
    PROVE  [Lifecycle!Next]_(Lifecycle!vars)
<1> DEFINE v == task[t]
           w == RecordApproval(v, g, d)
<1>1. /\ Created(t) /\ v \in CreatedRecord /\ ~v.archived /\ Write(t, w)
      /\ UNCHANGED workspace
      /\ \/ d = "APPROVE" /\ t \notin running /\ Schedule(t)
         \/ (d # "APPROVE" \/ t \in running) /\ UNCHANGED runVars
    BY DEF PostDecision, Inv, TypeOK, Created, CreatedRecord
<1>2. /\ w \in CreatedRecord /\ w.archived = v.archived
      /\ v.allowModifications => w.allowModifications
    BY <1>1, RecordApprovalRow
<1>3. /\ d = "APPROVE" => ~w.approvalRequired
      /\ d # "APPROVE" => /\ w.approvalRequired = v.approvalRequired
                          /\ w.allowModifications = v.allowModifications
    BY <1>1 DEF RecordApproval, CreatedRecord, TaskRecord
<1> HIDE DEF w
<1>4. /\ task'[t] = w
      /\ \A u \in Tasks : u # t => task'[u] = task[u] /\ ModeOf(u)' = ModeOf(u)
      /\ t \notin running /\ d = "APPROVE" => ModeOf(t)' = "active"
      /\ t \in running \/ d # "APPROVE" => ModeOf(t)' = ModeOf(t)
    BY <1>1, <1>2, ScheduleMoves, RowWriteMoves
<1>5. /\ ModeOf(t) # "absent"
      /\ t \notin running <=> ModeOf(t) = "resting"
    BY <1>1 DEF ModeOf
<1>6. CASE d = "APPROVE"
    <2>1. Lifecycle!Approve(t)
        BY <1>1, <1>2, <1>3, <1>4, <1>5, <1>6 DEF Lifecycle!Approve
    <2> QED
        BY <2>1 DEF Lifecycle!Next
<1>7. CASE d # "APPROVE"
    BY <1>1, <1>2, <1>3, <1>4, <1>7 DEF Lifecycle!vars
<1> QED
    BY <1>6, <1>7

-----------------------------------------------------------------------------
(* The refinement *)

\* The initial states are initial states of the lifecycle.
LEMMA InitRefines ==
    ASSUME Init PROVE Lifecycle!Init
BY NoViewIsRecord DEF Init, Lifecycle!Init, ModeOf, Created

\* A step that changes nothing is a stutter of the lifecycle.
LEMMA NoStepRefines ==
    ASSUME UNCHANGED <<task, workspace, runVars>>
    PROVE  UNCHANGED Lifecycle!vars
BY DEF Lifecycle!vars, ModeOf, Created, runVars

\* Every step is a step of the lifecycle or a stutter.
LEMMA StepRefines ==
    ASSUME Inv, Inv', [Next]_vars
    PROVE  [Lifecycle!Next]_(Lifecycle!vars)
<1>1. ASSUME NEW t \in Tasks, HandlerStep(t)
      PROVE  [Lifecycle!Next]_(Lifecycle!vars)
    <2>1. CASE PutPolicy(t)
        BY <2>1, NoStepRefines DEF PutPolicy
    <2> QED
        BY <1>1, <2>1, PostTaskRefines, PostRunRefines, PostRestartStageRefines,
           ArchiveHandlersRefine, PostDecisionRefines
           DEF HandlerStep
<1>2. ASSUME NEW r \in Runs, RunStep(r)
      PROVE  [Lifecycle!Next]_(Lifecycle!vars)
    BY <1>2, BeginRunRefines, AskForModificationRefines, DispatchRefines,
       StageFailsRefines, StageSucceedsRefines, StageReportsFailureRefines,
       EndRunRefines
       DEF RunStep
<1>3. CASE UNCHANGED vars
    BY <1>3, NoStepRefines DEF vars
<1> QED
    BY <1>1, <1>2, <1>3, CrashRefines DEF Next

\* The orchestrator keeps the promises of TaskLifecycle in every instance.
THEOREM WorkflowImplementsLifecycle == Spec => ImplementsLifecycle
<1>1. Init => Lifecycle!Init
    BY InitRefines
<1>2. Inv /\ Inv' /\ [Next]_vars => [Lifecycle!Next]_(Lifecycle!vars)
    BY StepRefines
<1> QED
    BY <1>1, <1>2, InvariantHolds, PTL DEF Spec, Lifecycle!Spec, ImplementsLifecycle
===============================================================================
