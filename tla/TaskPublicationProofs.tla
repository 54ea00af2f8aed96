------------------------- MODULE TaskPublicationProofs -------------------------
(***************************************************************************)
(* What is published went through its checks, and a risky change through a *)
(* person: proofs about TaskWorkflow, for every set of tasks, runs,        *)
(* requests and stages and every budget of restarts, decisions and crashes.*)
(*                                                                         *)
(* A row says, in its status and its resume target, at which stage a run   *)
(* would begin.  The invariant is that a row is ready for that stage: the  *)
(* required checks before it passed, and before github a change that needs *)
(* an approval has one.  The same holds of a run and the stage it is at.   *)
(* A crash loses the run and keeps the row, so both are needed.            *)
(***************************************************************************)
EXTENDS TaskWorkflowProofs

-------------------------------------------------------------------------------
(* A row that is ready for a stage *)

Behind(v, n) == v.lastRestart # None /\ StageIndex[v.lastRestart] > StageIndex[n]
Passed(v, n) == v.results[n] \in {"clean", "flagged"}
Approved(v) == \E g \in Gates : <<g, "APPROVE">> \in v.approvals

\* The required checks before stage n passed.
ChecksPassed(v, n) ==
    ~Behind(v, "coding") /\ n # "rollback" /\ StageIndex[n] <= StageIndex["github"] =>
        \A m \in RequiredChecks(v) : StageIndex[m] < StageIndex[n] => Passed(v, m)

\* If stage n is the publication of a change that needs an approval, it has one.
RiskApproved(v, n) ==
    n = "github" /\ ~UsesCompactFastPath(v) /\ ~Behind(v, "documentation")
        /\ ApprovalNeededBeforeGithub(v) => Approved(v)

\* The stage of the row's resume target, else of its status.
ResumesAt(v) == IF v.resumeTarget # None THEN v.resumeTarget ELSE EntryNode[v.status]

RowReady(v) ==
    v.status \notin {"ABSENT", "DONE", "FAILED"} =>
        /\ ChecksPassed(v, ResumesAt(v))
        /\ v.approvalRequired \/ RiskApproved(v, ResumesAt(v))

RowsReady == \A t \in Tasks : RowReady(task[t])

RunsReady ==
    \A r \in Runs : pc[r] \in {"ready", "waiting"} =>
        ChecksPassed(task[on[r]], node[r]) /\ RiskApproved(task[on[r]], node[r])

\* While a worker is called, the row shows its stage, unless a person rejected it.
ShowsStage(v, n) ==
    \/ v.status = "FAILED"
    \/ v.status = StageStatus[n] /\ v.resumeTarget = (IF n = "github" THEN n ELSE None)
StagesShow == \A r \in Runs : pc[r] = "waiting" => ShowsStage(task[on[r]], node[r])

PInv == Inv /\ RowsReady /\ RunsReady /\ StagesShow

\* w is v after a write that changes neither the results nor the request.
SameHistory(v, w) ==
    /\ w.results = v.results /\ w.riskFlags = v.riskFlags
    /\ w.req = v.req /\ w.lastRestart = v.lastRestart
    /\ v.approvals \subseteq w.approvals

-------------------------------------------------------------------------------
(* The tables *)

\* The positions of the stages that matter here.
LEMMA StagePositions ==
    /\ StageIndex \in [Nodes -> 1..18]
    /\ StageIndex["requirements"] = 1 /\ StageIndex["coding"] = 8 /\ StageIndex["rollback"] = 9
    /\ StageIndex["review"] = 10 /\ StageIndex["testing"] = 11 /\ StageIndex["security"] = 12
    /\ StageIndex["validation"] = 13 /\ StageIndex["documentation"] = 14
    /\ StageIndex["github"] = 15
    /\ {"requirements", "coding", "rollback", "review", "testing", "security", "validation",
        "documentation", "github", "deploy", "qa", "memory"} \subseteq Nodes
BY DEF StageIndex, Nodes

\* A stage that was interrupted is resumed at or before it, or with a rollback, or
\* at the beginning; and never at github, which has a resume target of its own.
LEMMA Entry ==
    ASSUME NEW n \in Nodes
    PROVE  LET e == EntryNode[StageStatus[n]] IN
           /\ e \in Nodes /\ e # "github"
           /\ StageIndex[e] <= StageIndex[n]
           /\ n = "rollback" => e = "rollback"
           /\ e = "rollback" => n = "rollback"
<1>1. StageStatus[n] \in Statuses
    BY Tables
<1>2. EntryNode[StageStatus[n]] =
        CASE n = "requirements" -> "requirements"
          [] n \in {"cost", "human_resources"} -> "cost"
          [] n = "research" -> "research"
          [] n \in {"architecture", "data", "ux"} -> "architecture"
          [] n = "coding" -> "coding"
          [] n = "rollback" -> "rollback"
          [] n = "review" -> "review"
          [] n = "testing" -> "testing"
          [] n = "security" -> "security"
          [] n = "validation" -> "validation"
          [] n \in {"documentation", "github"} -> "documentation"
          [] n = "deploy" -> "requirements"
          [] n = "qa" -> "qa"
          [] OTHER -> "memory"
    BY <1>1 DEF EntryNode, StageStatus, Nodes, StageIndex
<1> DEFINE e == EntryNode[StageStatus[n]]
<1> HIDE DEF e
<1>3. \/ n \in {"requirements", "cost", "research", "architecture", "coding", "rollback", "review",
             "testing", "security", "validation", "documentation", "qa", "memory"} /\ e = n
      \/ n = "human_resources" /\ e = "cost"
      \/ n \in {"data", "ux"} /\ e = "architecture"
      \/ n = "github" /\ e = "documentation"
      \/ n = "deploy" /\ e = "requirements"
    BY <1>2 DEF Nodes, StageIndex, e
<1>4. e \in Nodes /\ e # "github" /\ (n = "rollback" <=> e = "rollback")
    BY <1>3 DEF Nodes, StageIndex
<1>5. StageIndex[e] <= StageIndex[n]
    <2>1. CASE e = n
        BY <2>1, StagePositions
    <2>2. CASE e # n
        BY <1>3, <2>2 DEF StageIndex
    <2> QED
        BY <2>1, <2>2
<1> QED
    BY <1>4, <1>5 DEF e

\* The required checks before the successor of a stage are those before the stage,
\* and the stage itself.
LEMMA NextChecked ==
    ASSUME NEW v, NEW n \in Nodes, Successor(n, v) # "stop",
           StageIndex[Successor(n, v)] <= StageIndex["github"],
           NEW m \in RequiredChecks(v), StageIndex[m] < StageIndex[Successor(n, v)]
    PROVE  n # "rollback" /\ (StageIndex[m] < StageIndex[n] \/ m = n)
<1>1. m \in {"coding", "review", "testing", "security", "validation", "documentation"}
    BY DEF RequiredChecks
<1>2. UsesCompactFastPath(v) => m \in {"coding", "validation"}
    BY DEF RequiredChecks
<1> DEFINE s == Successor(n, v)
<1>3. CASE n \in {"requirements", "cost", "human_resources", "research", "architecture", "data", "ux"}
    <2>1. s \in {"cost", "human_resources", "research", "architecture", "data", "ux", "coding"}
        BY <1>3 DEF Successor, AfterHumanResources, AfterArchitecture
    <2> HIDE DEF s
    <2> QED
        BY <1>1, <2>1 DEF StageIndex, s
<1>4. CASE n = "coding"
    <2>1. s = IF UsesCompactFastPath(v) THEN "validation" ELSE "review"
        BY <1>4 DEF Successor
    <2> HIDE DEF s
    <2> QED
        BY <1>1, <1>2, <1>4, <2>1 DEF StageIndex, s
<1>5. CASE n \in {"review", "testing", "security"}
    <2>1. /\ n = "review" => s = "testing"
          /\ n = "testing" => s = "security"
          /\ n = "security" => s = "validation"
        BY DEF Successor
    <2> HIDE DEF s
    <2> QED
        BY <1>1, <1>5, <2>1 DEF StageIndex, s
<1>6. CASE n = "validation"
    <2>1. s = IF UsesCompactFastPath(v) THEN "github" ELSE "documentation"
        BY <1>6 DEF Successor
    <2> HIDE DEF s
    <2> QED
        BY <1>1, <1>2, <1>6, <2>1 DEF StageIndex, s
<1>7. CASE n = "documentation"
    <2>1. s = "github"
        BY <1>7 DEF Successor
    <2> HIDE DEF s
    <2> QED
        BY <1>1, <1>7, <2>1 DEF StageIndex, s
<1>8. CASE n \in {"rollback", "github", "deploy", "qa", "memory"}
    <2>1. s \in {"deploy", "memory", "qa", "stop"}
        BY <1>8 DEF Successor, AfterGithub
    <2> HIDE DEF s
    <2> QED
        BY <2>1 DEF StageIndex, s
<1> QED
    BY <1>3, <1>4, <1>5, <1>6, <1>7, <1>8 DEF Nodes, StageIndex

-------------------------------------------------------------------------------
(* Writes of rows *)

\* What a row was ready for, it is ready for after a write that keeps its history.
LEMMA HistoryKeepsReady ==
    ASSUME NEW v, NEW w, SameHistory(v, w), NEW n
    PROVE  /\ ChecksPassed(v, n) => ChecksPassed(w, n)
           /\ RiskApproved(v, n) => RiskApproved(w, n)
<1>1. /\ Behind(w, "coding") <=> Behind(v, "coding")
      /\ Behind(w, "documentation") <=> Behind(v, "documentation")
      /\ UsesCompactFastPath(w) <=> UsesCompactFastPath(v)
      /\ ApprovalNeededBeforeGithub(w) <=> ApprovalNeededBeforeGithub(v)
    BY DEF SameHistory, Behind, UsesCompactFastPath, ApprovalNeededBeforeGithub
<1>2. RequiredChecks(w) = RequiredChecks(v) /\ \A m : Passed(v, m) <=> Passed(w, m)
    BY <1>1 DEF SameHistory, RequiredChecks, Passed
<1>3. Approved(v) => Approved(w)
    BY DEF SameHistory, Approved
<1> QED
    BY <1>1, <1>2, <1>3 DEF ChecksPassed, RiskApproved

\* A stage that is resumed earlier needs no more than the stage itself.
LEMMA ReadyAtEntry ==
    ASSUME NEW v, NEW n \in Nodes, n # "github", ChecksPassed(v, n)
    PROVE  LET e == EntryNode[StageStatus[n]] IN ChecksPassed(v, e) /\ RiskApproved(v, e)
<1> DEFINE e == EntryNode[StageStatus[n]]
<1>1. /\ e \in Nodes /\ e # "github" /\ StageIndex[e] <= StageIndex[n]
      /\ n = "rollback" <=> e = "rollback"
    BY Entry
<1> HIDE DEF e
<1>2. RiskApproved(v, e)
    BY <1>1 DEF RiskApproved
<1>3. ChecksPassed(v, e)
    <2> SUFFICES ASSUME ~Behind(v, "coding"), e # "rollback",
                        StageIndex[e] <= StageIndex["github"],
                        NEW m \in RequiredChecks(v), StageIndex[m] < StageIndex[e]
                 PROVE  Passed(v, m)
        BY DEF ChecksPassed
    <2>1. m \in Nodes
        BY StagePositions DEF RequiredChecks
    <2>2. StageIndex[m] \in Nat /\ StageIndex[e] \in Nat /\ StageIndex[n] \in Nat
        BY <1>1, <2>1, StagePositions
    <2>3. StageIndex[m] < StageIndex[n]
        BY <1>1, <2>2
    <2>4. CASE StageIndex[n] <= StageIndex["github"]
        BY <1>1, <2>3, <2>4 DEF ChecksPassed
    <2>5. CASE ~(StageIndex[n] <= StageIndex["github"])
        <3>1. n \in {"deploy", "qa", "memory"}
            BY <2>5 DEF StageIndex, Nodes
        <3>2. n = "qa" => e = "qa"
            BY Tables DEF e, EntryNode, StageStatus, Statuses
        <3>3. n = "memory" => e = "memory"
            BY Tables DEF e, EntryNode, StageStatus, Statuses
        <3>4. n = "deploy" => e = "requirements"
            BY Tables DEF e, EntryNode, StageStatus, Statuses
        <3>5. e = "requirements"
            BY <3>1, <3>2, <3>3, <3>4 DEF StageIndex
        <3>6. StageIndex[m] >= 8
            BY StagePositions DEF RequiredChecks
        <3> QED
            BY <2>2, <3>5, <3>6, StagePositions
    <2> QED
        BY <2>4, <2>5
<1> QED
    BY <1>2, <1>3 DEF e

\* Writes of the status, the resume target and the gate keep the history.
LEMMA UpdateStatusHistory ==
    ASSUME NEW v \in TaskRecord, NEW s, NEW target
    PROVE  LET w == UpdateStatus(v, s, target) IN
           SameHistory(v, w) /\ w.status = s /\ w.resumeTarget = target
BY DEF UpdateStatus, SameHistory, TaskRecord

\* A gate that opens leaves the results a row has.
LEMMA SetApprovalRequiredHistory ==
    ASSUME NEW v \in TaskRecord, NEW target, NEW g
    PROVE  LET w == SetApprovalRequired(v, target, g) IN
           /\ SameHistory(v, w) /\ w.status = "APPROVAL_REQUIRED"
           /\ w.resumeTarget = target /\ w.approvalRequired
BY DEF SetApprovalRequired, SameHistory, TaskRecord

\* Archiving leaves the results a row has.
LEMMA SetArchivedHistory ==
    ASSUME NEW v \in TaskRecord, NEW flag \in BOOLEAN
    PROVE  LET w == SetArchived(v, flag) IN
           /\ SameHistory(v, w) /\ w.status = v.status
           /\ w.resumeTarget = v.resumeTarget /\ (w.approvalRequired <=> v.approvalRequired)
BY DEF SetArchived, SameHistory, TaskRecord

\* A stage that starts leaves the results a row has.
LEMMA StartStageHistory ==
    ASSUME NEW rec \in TaskRecord, NEW n \in Nodes, NEW v \in TaskRecord
    PROVE  LET w == StartStage(rec, n, v) IN
           /\ SameHistory(rec, w) /\ w.status = StageStatus[n]
           /\ w.resumeTarget = IF n = "github" THEN n ELSE None
<1> DEFINE target == IF n = "github" THEN n ELSE None
           started == UpdateStatus(rec, StageStatus[n], target)
           w == StartStage(rec, n, v)
<1>1. StageStatus[n] \in Statuses /\ target \in Nodes \cup {None}
    BY Tables
<1>2. /\ started \in TaskRecord /\ SameHistory(rec, started)
      /\ started.status = StageStatus[n] /\ started.resumeTarget = target
    BY <1>1, UpdateStatusRow, UpdateStatusHistory DEF CreatedRecord
<1>3. w = started \/ w = [started EXCEPT !.deployCommit = DeployTarget(v)]
    BY DEF StartStage
<1> HIDE DEF started, w, target
<1> QED
    BY <1>2, <1>3 DEF SameHistory, TaskRecord, w, target

\* A decision keeps the history; the gate is cleared by an approval only.
LEMMA RecordApprovalHistory ==
    ASSUME NEW v \in CreatedRecord, NEW g \in Gates, NEW d \in Decisions
    PROVE  LET w == RecordApproval(v, g, d) IN
           /\ SameHistory(v, w) /\ w.resumeTarget = v.resumeTarget
           /\ \/ w.status = "FAILED"
              \/ w.status = v.status /\ Approved(w)
<1> DEFINE permission == v.allowModifications \/ g = "repository-modification"
           approvals == v.approvals \cup {<<g, d>>}
           recorded == [v EXCEPT !.approvals = approvals, !.gate = None]
<1>1. permission \in BOOLEAN /\ v \in TaskRecord /\ approvals \in SUBSET (Gates \X Decisions)
    BY DEF CreatedRecord, TaskRecord
<1>2. /\ recorded.results = v.results /\ recorded.riskFlags = v.riskFlags
      /\ recorded.req = v.req /\ recorded.lastRestart = v.lastRestart
      /\ recorded.approvals = approvals /\ recorded.status = v.status
      /\ recorded.resumeTarget = v.resumeTarget
    BY <1>1 DEF TaskRecord
<1>3. recorded \in TaskRecord
    BY <1>1 DEF TaskRecord
<1>4. RecordApproval(v, g, d) =
        IF d = "APPROVE"
        THEN [recorded EXCEPT !.approvalRequired = FALSE, !.allowModifications = permission]
        ELSE [recorded EXCEPT !.status = "FAILED"]
    BY <1>1 DEF RecordApproval, TaskRecord
<1>5. v.approvals \subseteq approvals /\ <<g, d>> \in approvals
    OBVIOUS
<1> HIDE DEF permission, approvals, recorded
<1>6. CASE d = "APPROVE"
    <2> DEFINE w == [recorded EXCEPT !.approvalRequired = FALSE, !.allowModifications = permission]
    <2>1. /\ w.results = recorded.results /\ w.riskFlags = recorded.riskFlags
          /\ w.req = recorded.req /\ w.lastRestart = recorded.lastRestart
          /\ w.approvals = recorded.approvals /\ w.status = recorded.status
          /\ w.resumeTarget = recorded.resumeTarget
        BY <1>3 DEF TaskRecord
    <2>2. RecordApproval(v, g, d) = w
        BY <1>4, <1>6
    <2> HIDE DEF w
    <2>3. Approved(w)
        BY <1>2, <1>5, <1>6, <2>1 DEF Approved
    <2> QED
        BY <1>2, <1>5, <2>1, <2>2, <2>3 DEF SameHistory
<1>7. CASE d # "APPROVE"
    <2> DEFINE w == [recorded EXCEPT !.status = "FAILED"]
    <2>1. /\ w.results = recorded.results /\ w.riskFlags = recorded.riskFlags
          /\ w.req = recorded.req /\ w.lastRestart = recorded.lastRestart
          /\ w.approvals = recorded.approvals /\ w.status = "FAILED"
          /\ w.resumeTarget = recorded.resumeTarget
        BY <1>3 DEF TaskRecord
    <2>2. RecordApproval(v, g, d) = w
        BY <1>4, <1>7
    <2> HIDE DEF w
    <2> QED
        BY <1>2, <1>5, <2>1, <2>2 DEF SameHistory
<1> QED
    BY <1>6, <1>7

\* A restart makes the row ready for the stage it is restarted from: what was
\* required before it is kept, or the operator skips it.
LEMMA RestartIsReady ==
    ASSUME NEW v \in TaskRecord, NEW n \in Nodes
    PROVE  RowReady(RestartFromWorker(v, n))
<1> DEFINE w == RestartFromWorker(v, n)
<1>1. w.resumeTarget = n /\ w.lastRestart = n
    <2> DEFINE kept == [m \in Nodes |-> IF Cleared(m, n) THEN NoResult ELSE v.results[m]]
               flags == \E m \in Nodes : kept[m] = "flagged"
               specialists == IF Cleared("human_resources", n) THEN {} ELSE v.specialists
               published == IF Cleared("github", n) THEN 0 ELSE v.githubCommit
               pull == IF Cleared("github", n) THEN FALSE ELSE v.pullRequest
               half == [v EXCEPT !.results = kept, !.riskFlags = flags,
                             !.specialists = specialists, !.githubCommit = published]
    <2>1. w = [half EXCEPT !.status = RestartStatus[n], !.resumeTarget = n,
                             !.approvalRequired = FALSE, !.gate = None,
                             !.pullRequest = pull, !.lastRestart = n]
        BY DEF RestartFromWorker, TaskRecord
    <2>2. {"resumeTarget", "lastRestart"} \subseteq DOMAIN half
        BY DEF TaskRecord
    <2> HIDE DEF kept, flags, specialists, published, pull, half
    <2> QED
        BY <2>1, <2>2
<1> HIDE DEF w
<1>2. ResumesAt(w) = n
    BY <1>1, Tables DEF ResumesAt
<1>3. StageIndex[n] \in Nat /\ n # None
    BY StagePositions, Tables
<1>4. ChecksPassed(w, n)
    <2> SUFFICES ASSUME ~Behind(w, "coding"), NEW m \in RequiredChecks(w), StageIndex[m] < StageIndex[n]
                 PROVE  FALSE
        BY DEF ChecksPassed
    <2>1. StageIndex[n] <= 8
        BY <1>1, <1>3, StagePositions DEF Behind
    <2>2. StageIndex[m] >= 8 /\ StageIndex[m] \in Nat
        BY StagePositions DEF RequiredChecks
    <2> QED
        BY <1>3, <2>1, <2>2
<1>5. RiskApproved(w, n)
    BY <1>1, <1>3, StagePositions DEF RiskApproved, Behind
<1> QED
    BY <1>2, <1>4, <1>5 DEF RowReady, w

-------------------------------------------------------------------------------
(* What the steps are made of *)

\* Handlers: a row is written that is ready; if a run works on the task, only what
\* a decision may change has changed.
LEMMA HandlerKeepsReady ==
    ASSUME PInv, NEW t \in Tasks, NEW v, Write(t, v), RowReady(v),
           Schedule(t) \/ UNCHANGED runVars,
           t \in running =>
             /\ SameHistory(task[t], v) /\ v.resumeTarget = task[t].resumeTarget
             /\ v.status = task[t].status \/ v.status = "FAILED"
    PROVE  RowsReady' /\ RunsReady' /\ StagesShow'
<1> USE DEF PInv
<1>1. /\ task \in [Tasks -> TaskRecord] /\ on \in [Runs -> Tasks \cup {None}]
      /\ pc \in [Runs -> Positions]
    BY DEF Inv, TypeOK
<1>2. task' = [task EXCEPT ![t] = v]
    BY DEF Write
<1>3. RowsReady'
    BY <1>1, <1>2 DEF RowsReady
<1>4. ASSUME NEW r \in Runs, pc'[r] \in {"ready", "waiting"}
      PROVE  /\ pc[r] = pc'[r] /\ on'[r] = on[r] /\ node'[r] = node[r]
             /\ on[r] \in Tasks /\ on[r] \in running
    <2>1. pc[r] = pc'[r] /\ on'[r] = on[r] /\ node'[r] = node[r]
        <3>1. CASE Schedule(t)
            BY <1>1, <1>4, <3>1 DEF Schedule
        <3>2. CASE UNCHANGED runVars
            BY <3>2 DEF runVars
        <3> QED
            BY <3>1, <3>2
    <2>2. on[r] \in Tasks /\ on[r] \in running
        BY <1>4, <2>1, RunOwnsTask
    <2> QED
        BY <2>1, <2>2
<1>5. ASSUME NEW r \in Runs, pc'[r] \in {"ready", "waiting"}
      PROVE  /\ ChecksPassed(task'[on[r]], node[r]) /\ RiskApproved(task'[on[r]], node[r])
             /\ pc[r] = "waiting" => ShowsStage(task'[on[r]], node[r])
    <2>1. pc[r] = pc'[r] /\ on[r] \in Tasks /\ on[r] \in running
        BY <1>4, <1>5
    <2>2. /\ ChecksPassed(task[on[r]], node[r]) /\ RiskApproved(task[on[r]], node[r])
          /\ pc[r] = "waiting" => ShowsStage(task[on[r]], node[r])
        BY <1>5, <2>1 DEF RunsReady, StagesShow
    <2>3. CASE on[r] # t
        <3>1. task'[on[r]] = task[on[r]]
            BY <1>1, <1>2, <2>1, <2>3
        <3> QED
            BY <2>2, <3>1
    <2>4. CASE on[r] = t
        <3>1. task'[on[r]] = v /\ SameHistory(task[on[r]], v)
              /\ v.resumeTarget = task[on[r]].resumeTarget
              /\ (v.status = task[on[r]].status \/ v.status = "FAILED")
            BY <1>1, <1>2, <2>1, <2>4
        <3>2. ChecksPassed(v, node[r]) /\ RiskApproved(v, node[r])
            BY <2>2, <3>1, HistoryKeepsReady
        <3>3. pc[r] = "waiting" => ShowsStage(v, node[r])
            BY <2>2, <3>1 DEF ShowsStage
        <3> QED
            BY <3>1, <3>2, <3>3
    <2> QED
        BY <2>3, <2>4
<1>6. RunsReady' /\ StagesShow'
    BY <1>4, <1>5 DEF RunsReady, StagesShow
<1> QED
    BY <1>3, <1>6

\* A run leaves a node with a ready row; if it goes on, the row is ready for the
\* next stage.
LEMMA LeaveNodeKeepsReady ==
    ASSUME PInv, NEW r \in Runs, pc[r] \in {"ready", "waiting"},
           NEW v \in TaskRecord, LeaveNode(r, v), RowReady(v),
           NEW next, next = RouteAfter(node[r], v),
           next # "stop" => ChecksPassed(v, next) /\ RiskApproved(v, next)
    PROVE  RowsReady' /\ RunsReady' /\ StagesShow'
<1> USE DEF PInv
<1>1. /\ task \in [Tasks -> TaskRecord] /\ node \in [Runs -> Nodes \cup {None}]
      /\ pc \in [Runs -> Positions] /\ on[r] \in Tasks
    BY RunOwnsTask DEF Inv, TypeOK
<1>2. task' = [task EXCEPT ![on[r]] = v] /\ on' = on
    BY DEF LeaveNode, Write, GoTo
<1>3. \/ /\ pc' = [pc EXCEPT ![r] = "ready"] /\ node' = [node EXCEPT ![r] = next] /\ next # "stop"
      \/ pc' = [pc EXCEPT ![r] = "ending"] /\ node' = [node EXCEPT ![r] = None]
    BY DEF LeaveNode, GoTo
<1>4. RowsReady'
    BY <1>1, <1>2 DEF RowsReady
<1>5. ASSUME NEW s \in Runs, s # r, pc'[s] \in {"ready", "waiting"}
      PROVE  /\ pc'[s] = pc[s] /\ node'[s] = node[s] /\ task'[on[s]] = task[on[s]]
    <2>1. pc'[s] = pc[s] /\ node'[s] = node[s]
        BY <1>1, <1>3, <1>5
    <2>2. on[s] # on[r] /\ on[s] \in Tasks
        BY <1>5, <2>1, RunOwnsTask DEF Inv, Lock, OneRunPerTask
    <2> QED
        BY <1>1, <1>2, <2>1, <2>2
<1>6. pc'[r] # "waiting" /\ task'[on[r]] = v
      /\ (pc'[r] = "ready" => node'[r] = next /\ next # "stop")
    BY <1>1, <1>2, <1>3
<1>7. RunsReady'
    <2> SUFFICES ASSUME NEW s \in Runs, pc'[s] \in {"ready", "waiting"}
                 PROVE  ChecksPassed(task'[on[s]], node'[s]) /\ RiskApproved(task'[on[s]], node'[s])
        BY <1>2 DEF RunsReady
    <2>1. CASE s = r
        BY <1>6, <2>1
    <2>2. CASE s # r
        BY <1>5, <2>2 DEF RunsReady
    <2> QED
        BY <2>1, <2>2
<1>8. StagesShow'
    BY <1>2, <1>5, <1>6 DEF StagesShow
<1> QED
    BY <1>4, <1>7, <1>8

\* A run that fails or pauses its task stops.
LEMMA StoppingKeepsReady ==
    ASSUME PInv, NEW r \in Runs, pc[r] \in {"ready", "waiting"},
           NEW v \in TaskRecord, LeaveNode(r, v), RowReady(v),
           v.status \in {"APPROVAL_REQUIRED", "DONE", "FAILED"}
    PROVE  RowsReady' /\ RunsReady' /\ StagesShow'
<1>1. RouteAfter(node[r], v) = "stop"
    BY DEF RouteAfter, ShouldStop
<1> QED
    BY <1>1, LeaveNodeKeepsReady

\* The row after a successful stage is ready for the next one.
LEMMA StoredIsReady ==
    ASSUME NEW v \in CreatedRecord, NEW n \in Nodes, NEW outcome \in {"clean", "flagged"},
           NEW recommended \in SUBSET Specialists, NEW commit \in 0..MaxEdits,
           ChecksPassed(v, n)
    PROVE  LET w == StoreWorkerResult(v, n, outcome, recommended, commit) IN
           /\ ChecksPassed(w, n)
           /\ Successor(n, w) # "stop" => ChecksPassed(w, Successor(n, w))
           /\ w.status = v.status /\ w.resumeTarget = v.resumeTarget
<1> DEFINE flags == v.riskFlags \/ outcome = "flagged"
           results == [v.results EXCEPT ![n] = outcome]
           specialists == IF n = "human_resources" THEN recommended ELSE v.specialists
           published == IF n = "github" THEN commit ELSE v.githubCommit
           w == StoreWorkerResult(v, n, outcome, recommended, commit)
<1>1. v \in TaskRecord /\ v.results \in [Nodes -> Outcomes \cup {NoResult}]
    BY DEF CreatedRecord, TaskRecord
<1>2. w = [v EXCEPT !.results = results, !.riskFlags = flags,
                    !.specialists = specialists, !.githubCommit = published]
    BY <1>1 DEF StoreWorkerResult, TaskRecord
<1>3. results[n] = outcome /\ \A m \in Nodes \ {n} : results[m] = v.results[m]
    BY <1>1
<1> HIDE DEF flags, results, specialists, published
<1>4. /\ w.results = results /\ w.status = v.status /\ w.resumeTarget = v.resumeTarget
      /\ w.req = v.req /\ w.lastRestart = v.lastRestart
    BY <1>1, <1>2 DEF TaskRecord
<1> HIDE DEF w
<1>5. /\ RequiredChecks(w) = RequiredChecks(v) /\ RequiredChecks(v) \subseteq Nodes
      /\ Behind(w, "coding") <=> Behind(v, "coding")
    BY <1>4, StagePositions DEF RequiredChecks, UsesCompactFastPath, Behind
<1>6. Passed(w, n) /\ \A m \in RequiredChecks(v) : Passed(v, m) => Passed(w, m)
    BY <1>3, <1>4, <1>5 DEF Passed
<1>7. ChecksPassed(w, n)
    BY <1>5, <1>6 DEF ChecksPassed
<1>8. ASSUME Successor(n, w) # "stop"
      PROVE  ChecksPassed(w, Successor(n, w))
    <2> SUFFICES ASSUME ~Behind(w, "coding"), Successor(n, w) # "rollback",
                        StageIndex[Successor(n, w)] <= StageIndex["github"],
                        NEW m \in RequiredChecks(w), StageIndex[m] < StageIndex[Successor(n, w)]
                 PROVE  Passed(w, m)
        BY DEF ChecksPassed
    <2>1. n # "rollback" /\ (StageIndex[m] < StageIndex[n] \/ m = n)
        BY <1>8, NextChecked
    <2>2. CASE m = n
        BY <1>6, <2>2
    <2>3. CASE StageIndex[m] < StageIndex[n]
        <3>1. StageIndex[n] <= StageIndex["github"]
            <4>1. n \in {"deploy", "qa", "memory"} => Successor(n, w) \in {"qa", "memory", "stop"}
                BY DEF Successor
            <4>2. CASE n \in {"deploy", "qa", "memory"}
                BY <1>8, <4>1, <4>2 DEF StageIndex
            <4>3. CASE n \notin {"deploy", "qa", "memory"}
                BY <4>3 DEF StageIndex, Nodes
            <4> QED
                BY <4>2, <4>3
        <3> QED
            BY <1>7, <2>1, <2>3, <3>1 DEF ChecksPassed
    <2> QED
        BY <2>1, <2>2, <2>3
<1> QED
    BY <1>4, <1>7, <1>8 DEF w

-------------------------------------------------------------------------------
(* The actions *)

\* A request leaves the stages ready that were.
LEMMA HandlersKeepReady ==
    ASSUME PInv, NEW t \in Tasks, HandlerStep(t)
    PROVE  RowsReady' /\ RunsReady' /\ StagesShow'
<1> USE DEF PInv
<1> DEFINE v == task[t]
<1>1. v \in TaskRecord /\ RowReady(v) /\ task \in [Tasks -> TaskRecord]
    BY DEF Inv, TypeOK, RowsReady
<1>2. Created(t) => v \in CreatedRecord
    BY <1>1 DEF Created, CreatedRecord
<1>3. CASE PostTask(t)
    <2>1. PICK q \in Requests : Write(t, CreateTask(q))
        BY <1>3 DEF PostTask
    <2>2. t \notin running /\ UNCHANGED runVars
        BY <1>3 DEF PostTask, Created, Inv, Lock, CreatedRecord
    <2> DEFINE w == CreateTask(q)
    <2>3. w.status = "NEW" /\ w.resumeTarget = None
        BY DEF CreateTask, EmptyRecord
    <2>4. ResumesAt(w) = "requirements"
        BY <2>3 DEF ResumesAt, EntryNode, Statuses
    <2> HIDE DEF w
    <2>5. ChecksPassed(w, "requirements")
        <3>1. \A m \in RequiredChecks(w) : StageIndex[m] >= 8 /\ StageIndex[m] \in Nat
            BY StagePositions DEF RequiredChecks
        <3> QED
            BY <3>1, StagePositions DEF ChecksPassed
    <2>6. RowReady(w)
        BY <2>4, <2>5 DEF RowReady, RiskApproved
    <2> QED
        BY <2>1, <2>2, <2>6, HandlerKeepsReady DEF w
<1>4. CASE PostRun(t)
    <2>1. Write(t, v) /\ t \notin running /\ Schedule(t)
        BY <1>1, <1>4 DEF PostRun, Write
    <2> QED
        BY <1>1, <2>1, HandlerKeepsReady
<1>5. ASSUME NEW n \in RestartNodes, PostRestartStage(t, n)
      PROVE  RowsReady' /\ RunsReady' /\ StagesShow'
    <2>1. /\ t \notin running /\ Write(t, RestartFromWorker(v, n))
          /\ Schedule(t) \/ UNCHANGED runVars
        BY <1>5 DEF PostRestartStage
    <2>2. RowReady(RestartFromWorker(v, n))
        BY <1>1, StagesAssumption, RestartIsReady
    <2> QED
        BY <2>1, <2>2, HandlerKeepsReady
<1>6. ASSUME NEW flag \in BOOLEAN, Write(t, SetArchived(v, flag)), UNCHANGED runVars
      PROVE  RowsReady' /\ RunsReady' /\ StagesShow'
    <2> DEFINE w == SetArchived(v, flag)
    <2>1. Write(t, w) /\ UNCHANGED runVars
        BY <1>6
    <2>2. /\ SameHistory(v, w) /\ w.status = v.status
          /\ w.resumeTarget = v.resumeTarget /\ (w.approvalRequired <=> v.approvalRequired)
        BY <1>1, SetArchivedHistory
    <2> HIDE DEF w, v
    <2>3. ResumesAt(w) = ResumesAt(v)
        BY <2>2 DEF ResumesAt
    <2>4. RowReady(w)
        BY <1>1, <2>2, <2>3, HistoryKeepsReady DEF RowReady
    <2> QED
        BY <2>1, <2>2, <2>4, HandlerKeepsReady DEF v
<1>7. ASSUME NEW g \in Gates, NEW d \in Decisions, PostDecision(t, g, d)
      PROVE  RowsReady' /\ RunsReady' /\ StagesShow'
    <2> DEFINE w == RecordApproval(v, g, d)
    <2>1. /\ v \in CreatedRecord /\ Write(t, w)
          /\ Schedule(t) \/ UNCHANGED runVars
        BY <1>2, <1>7 DEF PostDecision
    <2>2. /\ SameHistory(v, w) /\ w.resumeTarget = v.resumeTarget
          /\ \/ w.status = "FAILED"
             \/ w.status = v.status /\ Approved(w)
        BY <2>1, RecordApprovalHistory
    <2> HIDE DEF w, v
    <2>3. CASE w.status = "FAILED"
        <3>1. RowReady(w)
            BY <2>3 DEF RowReady
        <3> QED
            BY <2>1, <2>2, <2>3, <3>1, HandlerKeepsReady DEF v
    <2>4. CASE w.status = v.status /\ Approved(w)
        <3>1. ResumesAt(w) = ResumesAt(v)
            BY <2>2, <2>4 DEF ResumesAt
        <3>2. RowReady(w)
            BY <1>1, <2>2, <2>4, <3>1, HistoryKeepsReady DEF RowReady, RiskApproved
        <3> QED
            BY <2>1, <2>2, <2>4, <3>2, HandlerKeepsReady DEF v
    <2> QED
        BY <2>2, <2>3, <2>4
<1>8. CASE PutPolicy(t)
    BY <1>8 DEF PutPolicy, runVars, RowsReady, RunsReady, StagesShow
<1>9. CASE PostArchive(t)
    <2>1. Write(t, SetArchived(v, TRUE)) /\ UNCHANGED runVars
        BY <1>9 DEF PostArchive
    <2> QED
        BY <1>6, <2>1
<1>10. CASE PostRestore(t)
    <2>1. Write(t, SetArchived(v, FALSE)) /\ UNCHANGED runVars
        BY <1>10 DEF PostRestore
    <2> QED
        BY <1>6, <2>1
<1> QED
    BY <1>3, <1>4, <1>5, <1>7, <1>8, <1>9, <1>10 DEF HandlerStep

\* A run begins at a stage whose predecessors have their results.
LEMMA BeginRunKeepsReady ==
    ASSUME PInv, NEW r \in Runs, BeginRun(r)
    PROVE  RowsReady' /\ RunsReady' /\ StagesShow'
<1> USE DEF PInv
<1> DEFINE t == on[r]
           v == task[t]
           next == RouteEntry(v)
<1>1. pc[r] = "starting" /\ on' = on
    BY DEF BeginRun, GoTo
<1>2. /\ t \in Tasks /\ v \in CreatedRecord /\ v \in TaskRecord /\ RowReady(v)
      /\ task \in [Tasks -> TaskRecord] /\ pc \in [Runs -> Positions]
      /\ node \in [Runs -> Nodes \cup {None}]
    BY <1>1, RunOwnsTask DEF Inv, TypeOK, RowsReady
<1>3. CASE allowed[t]
    <2>1. /\ task' = task
          /\ \/ /\ pc' = [pc EXCEPT ![r] = "ready"] /\ node' = [node EXCEPT ![r] = next]
                /\ next # "stop"
             \/ pc' = [pc EXCEPT ![r] = "ending"] /\ node' = [node EXCEPT ![r] = None]
        BY <1>3 DEF BeginRun, GoTo
    <2>2. next # "stop" => ChecksPassed(v, next) /\ RiskApproved(v, next)
        <3> SUFFICES ASSUME next # "stop" PROVE ChecksPassed(v, next) /\ RiskApproved(v, next)
            OBVIOUS
        <3>1. ~v.approvalRequired /\ v.status \notin {"DONE", "FAILED", "ABSENT"}
            BY <1>2 DEF RouteEntry, CreatedRecord
        <3>2. next = ResumesAt(v) \/ next \in {"rollback", "deploy", "memory"}
            BY DEF RouteEntry, ResumesAt
        <3>3. CASE next = ResumesAt(v)
            BY <1>2, <3>1, <3>3 DEF RowReady
        <3>4. CASE next \in {"rollback", "deploy", "memory"}
            BY <3>4 DEF ChecksPassed, RiskApproved, StageIndex
        <3> QED
            BY <3>2, <3>3, <3>4
    <2> HIDE DEF next
    <2>3. RowsReady'
        BY <2>1 DEF RowsReady
    <2>4. RunsReady'
        <3> SUFFICES ASSUME NEW s \in Runs, pc'[s] \in {"ready", "waiting"}
                     PROVE  ChecksPassed(task[on[s]], node'[s]) /\ RiskApproved(task[on[s]], node'[s])
            BY <1>1, <2>1 DEF RunsReady
        <3>1. CASE s = r
            BY <1>2, <2>1, <2>2, <3>1
        <3>2. CASE s # r
            BY <1>2, <2>1, <3>2 DEF RunsReady
        <3> QED
            BY <3>1, <3>2
    <2>5. StagesShow'
        BY <1>1, <1>2, <2>1 DEF StagesShow
    <2> QED
        BY <2>3, <2>4, <2>5
<1>4. CASE ~allowed[t]
    <2> DEFINE w == FailTask(v)
    <2>1. /\ task' = [task EXCEPT ![t] = w]
          /\ pc' = [pc EXCEPT ![r] = "ending"] /\ node' = [node EXCEPT ![r] = None]
        BY <1>4 DEF BeginRun, GoTo, Write
    <2>2. w.status = "FAILED"
        BY <1>2, FailTaskRow
    <2> HIDE DEF w
    <2>3. RowsReady'
        BY <1>2, <2>1, <2>2 DEF RowsReady, RowReady
    <2>4. ASSUME NEW s \in Runs, pc'[s] \in {"ready", "waiting"}
          PROVE  pc'[s] = pc[s] /\ node'[s] = node[s] /\ task'[on[s]] = task[on[s]]
        <3>1. s # r /\ pc'[s] = pc[s] /\ node'[s] = node[s]
            BY <1>2, <2>1, <2>4
        <3>2. on[s] # on[r] /\ on[s] \in Tasks
            BY <1>1, <2>4, <3>1, RunOwnsTask DEF Inv, Lock, OneRunPerTask
        <3> QED
            BY <1>2, <2>1, <3>1, <3>2
    <2>5. RunsReady' /\ StagesShow'
        BY <1>1, <2>4 DEF RunsReady, StagesShow
    <2> QED
        BY <2>3, <2>5
<1> QED
    BY <1>3, <1>4

\* A stage that is dispatched is the next one of its run.
LEMMA DispatchKeepsReady ==
    ASSUME PInv, NEW r \in Runs, Dispatch(r)
    PROVE  RowsReady' /\ RunsReady' /\ StagesShow'
<1> USE DEF PInv
<1> DEFINE t == on[r]
           v == task[t]
           n == node[r]
           w == StartStage(v, n, view[r])
<1>1. /\ pc[r] = "ready" /\ on' = on /\ node' = node
      /\ task' = [task EXCEPT ![t] = w] /\ pc' = [pc EXCEPT ![r] = "waiting"]
    BY DEF Dispatch, Write
<1>2. /\ t \in Tasks /\ v \in TaskRecord /\ n \in Nodes /\ view[r] \in TaskRecord
      /\ task \in [Tasks -> TaskRecord] /\ pc \in [Runs -> Positions]
    BY <1>1, RunOwnsTask DEF Inv, TypeOK, AtWork
<1>3. ChecksPassed(v, n) /\ RiskApproved(v, n)
    BY <1>1 DEF RunsReady
<1>4. /\ SameHistory(v, w) /\ w.status = StageStatus[n]
      /\ w.resumeTarget = IF n = "github" THEN n ELSE None
    BY <1>2, StartStageHistory
<1> HIDE DEF w, n
<1>5. ChecksPassed(w, n) /\ RiskApproved(w, n) /\ ShowsStage(w, n)
    BY <1>3, <1>4, HistoryKeepsReady DEF ShowsStage
<1>6. RowReady(w)
    <2>1. CASE n = "github"
        <3>1. ResumesAt(w) = n
            BY <1>4, <2>1, Tables DEF ResumesAt, None
        <3> QED
            BY <1>5, <3>1 DEF RowReady
    <2>2. CASE n # "github"
        <3>1. ResumesAt(w) = EntryNode[StageStatus[n]]
            BY <1>4, <2>2 DEF ResumesAt
        <3> QED
            BY <1>2, <1>5, <2>2, <3>1, ReadyAtEntry DEF RowReady
    <2> QED
        BY <2>1, <2>2
<1>7. RowsReady'
    BY <1>1, <1>2, <1>6 DEF RowsReady
<1>8. ASSUME NEW s \in Runs, pc'[s] \in {"ready", "waiting"}
      PROVE  /\ ChecksPassed(task'[on[s]], node[s]) /\ RiskApproved(task'[on[s]], node[s])
             /\ pc'[s] = "waiting" => ShowsStage(task'[on[s]], node[s])
    <2>1. CASE s = r
        BY <1>1, <1>2, <1>5, <2>1 DEF n
    <2>2. CASE s # r
        <3>1. pc'[s] = pc[s]
            BY <1>1, <1>2, <2>2
        <3>2. on[s] # t /\ on[s] \in Tasks
            BY <1>1, <1>8, <2>2, <3>1, RunOwnsTask DEF Inv, Lock, OneRunPerTask
        <3>3. task'[on[s]] = task[on[s]]
            BY <1>1, <1>2, <3>2
        <3> QED
            BY <1>8, <3>1, <3>3 DEF RunsReady, StagesShow
    <2> QED
        BY <2>1, <2>2
<1>9. RunsReady' /\ StagesShow'
    BY <1>1, <1>8 DEF RunsReady, StagesShow
<1> QED
    BY <1>7, <1>9

\* The gate before coding leaves a row that is ready for coding.
LEMMA AskForModificationKeepsReady ==
    ASSUME PInv, NEW r \in Runs, AskForModification(r)
    PROVE  RowsReady' /\ RunsReady' /\ StagesShow'
<1> DEFINE w == SetApprovalRequired(task[on[r]], "coding", "repository-modification")
<1>1. pc[r] = "ready" /\ LeaveNode(r, w) /\ task[on[r]] \in TaskRecord
    BY RunOwnsTask DEF AskForModification, PInv
<1>2. /\ w \in TaskRecord /\ w.status = "APPROVAL_REQUIRED" /\ w.resumeTarget = "coding"
      /\ w.approvalRequired
    BY <1>1, StagePositions, SetApprovalRequiredRow, SetApprovalRequiredHistory DEF Gates, CreatedRecord
<1> HIDE DEF w
<1>3. ResumesAt(w) = "coding"
    BY <1>2 DEF ResumesAt, None
<1>4. ChecksPassed(w, "coding")
    <2>1. \A m \in RequiredChecks(w) : StageIndex[m] >= 8 /\ StageIndex[m] \in Nat
        BY StagePositions DEF RequiredChecks
    <2> QED
        BY <2>1, StagePositions DEF ChecksPassed
<1>5. RowReady(w)
    BY <1>2, <1>3, <1>4 DEF RowReady
<1> QED
    BY <1>1, <1>2, <1>5, StoppingKeepsReady

\* A stage that fails leaves a row that resumes nowhere it was not ready for.
LEMMA StageFailureKeepsReady ==
    ASSUME PInv, NEW r \in Runs, StageFails(r) \/ StageReportsFailure(r)
    PROVE  RowsReady' /\ RunsReady' /\ StagesShow'
<1>1. pc[r] = "waiting" /\ task[on[r]] \in TaskRecord /\ node[r] \in Nodes
    BY RunOwnsTask DEF StageFails, StageReportsFailure, PInv, Inv, AtWork
<1> DEFINE stored == StoreWorkerResult(task[on[r]], node[r], "failed", {}, 0)
<1>2. stored \in TaskRecord
    BY <1>1, MaxEditsAssumption, StoreWorkerResultRow DEF Outcomes
<1>3. LeaveNode(r, FailTask(task[on[r]])) \/ LeaveNode(r, FailTask(stored))
    BY DEF StageFails, StageReportsFailure
<1> HIDE DEF stored
<1>4. PICK w \in {FailTask(task[on[r]]), FailTask(stored)} : LeaveNode(r, w)
    BY <1>3
<1>5. w \in TaskRecord /\ w.status = "FAILED"
    BY <1>1, <1>2, FailTaskRow DEF CreatedRecord
<1>6. RowReady(w)
    BY <1>5 DEF RowReady
<1> QED
    BY <1>1, <1>4, <1>5, <1>6, StoppingKeepsReady

\* A stage that succeeded leaves a row that is ready for what it says: the next
\* stage, the gate before github, or the end.
LEMMA StageSucceedsKeepsReady ==
    ASSUME PInv, NEW r \in Runs, NEW outcome \in {"clean", "flagged"},
           StageSucceeds(r, outcome)
    PROVE  RowsReady' /\ RunsReady' /\ StagesShow'
<1> USE DEF PInv
<1> DEFINE old == task[on[r]]
           n == node[r]
<1>1. pc[r] = "waiting"
    BY DEF StageSucceeds
<1>2. PICK recommended \in IF n = "human_resources" THEN Recommendations ELSE {{}} :
        LeaveNode(r, FinishNode(n, StoreWorkerResult(old, n, outcome, recommended, workspace[on[r]])))
    BY DEF StageSucceeds
<1> DEFINE s == StoreWorkerResult(old, n, outcome, recommended, workspace[on[r]])
           v == FinishNode(n, s)
<1>3. /\ old \in CreatedRecord /\ old \in TaskRecord /\ n \in Nodes
      /\ workspace[on[r]] \in 0..MaxEdits
    BY <1>1, RunOwnsTask DEF Inv, TypeOK, AtWork
<1>4. outcome \in Outcomes /\ recommended \in SUBSET Specialists
    BY StagesAssumption DEF Outcomes
<1>5. ChecksPassed(old, n) /\ ShowsStage(old, n)
    BY <1>1 DEF RunsReady, StagesShow
<1>6. /\ ChecksPassed(s, n) /\ (Successor(n, s) # "stop" => ChecksPassed(s, Successor(n, s)))
      /\ s.status = old.status /\ s.resumeTarget = old.resumeTarget
    BY <1>3, <1>4, <1>5, StoredIsReady
<1>7. s \in CreatedRecord /\ s \in TaskRecord
    BY <1>3, <1>4, <1>6, StoreWorkerResultRow DEF CreatedRecord
<1>8. v \in TaskRecord /\ LeaveNode(r, v)
    BY <1>2, <1>3, <1>7, FinishNodeRow DEF CreatedRecord
<1>9. s.status \in {"FAILED", StageStatus[n]}
    BY <1>5, <1>6 DEF ShowsStage
<1> HIDE DEF s, v, n, old
<1>10. CASE v.status \in {"DONE", "FAILED"}
    BY <1>1, <1>8, <1>10, StoppingKeepsReady DEF RowReady
<1>11. CASE n = "documentation" /\ v = SetApprovalRequired(s, "github", "risk-review")
    <2>1. /\ SameHistory(s, v) /\ v.status = "APPROVAL_REQUIRED"
          /\ v.resumeTarget = "github" /\ v.approvalRequired
        BY <1>7, <1>11, SetApprovalRequiredHistory
    <2>2. ResumesAt(v) = "github" /\ Successor(n, s) = "github"
        BY <1>11, <2>1 DEF ResumesAt, None, Successor
    <2>3. ChecksPassed(v, "github")
        BY <1>6, <2>1, <2>2, HistoryKeepsReady
    <2>4. RowReady(v)
        BY <2>1, <2>2, <2>3 DEF RowReady
    <2> QED
        BY <1>1, <1>8, <2>1, <2>4, StoppingKeepsReady
<1>12. ASSUME v.resumeTarget = None, v.status \in {"PR_CREATED", "SELF_UPDATING", "STAGING_DEPLOYED"},
              n \in {"github", "deploy"}
       PROVE  RowsReady' /\ RunsReady' /\ StagesShow'
    <2>1. ResumesAt(v) \in {"requirements", "qa"}
        BY <1>12 DEF ResumesAt, EntryNode, Statuses
    <2>2. ChecksPassed(v, "requirements") /\ ChecksPassed(v, "qa")
        <3>1. \A m \in RequiredChecks(v) : StageIndex[m] >= 8 /\ StageIndex[m] \in Nat
            BY StagePositions DEF RequiredChecks
        <3>2. StageIndex["qa"] = 17
            BY DEF StageIndex
        <3> QED
            BY <3>1, <3>2, StagePositions DEF ChecksPassed
    <2>3. RowReady(v)
        BY <2>1, <2>2 DEF RowReady, RiskApproved
    <2>4. RouteAfter(n, v) \in {"deploy", "memory", "qa", "stop"}
        BY <1>12 DEF RouteAfter, Successor, AfterGithub
    <2>5. \A next \in {"deploy", "memory", "qa"} : ChecksPassed(v, next) /\ RiskApproved(v, next)
        BY DEF ChecksPassed, RiskApproved, StageIndex
    <2> QED
        BY <1>1, <1>8, <2>3, <2>4, <2>5, LeaveNodeKeepsReady DEF n
<1>13. CASE /\ v = s /\ v.status = StageStatus[n] /\ n # "github"
            /\ n = "documentation" => ~ApprovalNeededBeforeGithub(v)
    <2>1. v.status # "FAILED" => v.resumeTarget = None
        BY <1>5, <1>6, <1>13 DEF ShowsStage
    <2>2. StageStatus[n] # "FAILED"
        BY <1>3 DEF StageStatus, Nodes, StageIndex
    <2>3. ResumesAt(v) = EntryNode[StageStatus[n]]
        BY <1>13, <2>1, <2>2 DEF ResumesAt
    <2>4. RowReady(v)
        BY <1>3, <1>6, <1>13, <2>3, ReadyAtEntry DEF RowReady
    <2> DEFINE next == RouteAfter(n, v)
    <2>5. next # "stop" => next = Successor(n, v)
        BY DEF RouteAfter
    <2>6. next # "stop" => ChecksPassed(v, next)
        BY <1>6, <1>13, <2>5
    <2>7. next # "stop" => RiskApproved(v, next)
        <3>1. next = "github" => n = "documentation" \/ UsesCompactFastPath(v)
            BY <1>3, <2>5 DEF Successor, AfterHumanResources, AfterArchitecture, AfterGithub, Nodes, StageIndex
        <3> QED
            BY <1>13, <3>1 DEF RiskApproved
    <2> HIDE DEF next
    <2> QED
        BY <1>1, <1>8, <2>4, <2>6, <2>7, LeaveNodeKeepsReady DEF n, next
<1>14. CASE s.status = "FAILED"
    <2>1. v = s
        BY <1>14 DEF FinishNode, v
    <2> QED
        BY <1>10, <1>14, <2>1
<1>15. CASE s.status # "FAILED"
    <2>1. \/ v = UpdateStatus(s, "DONE", None)
          \/ n = "documentation" /\ v = SetApprovalRequired(s, "github", "risk-review")
          \/ /\ n = "github"
             /\ v = UpdateStatus([s EXCEPT !.pullRequest = TRUE], "PR_CREATED", None)
          \/ /\ n = "deploy"
             /\ \E x \in {"SELF_UPDATING", "STAGING_DEPLOYED"} : v = UpdateStatus(s, x, None)
          \/ /\ v = s /\ n # "github"
             /\ n = "documentation" => ~ApprovalNeededBeforeGithub(s)
        BY <1>15 DEF FinishNode, v
    <2>2. CASE v = UpdateStatus(s, "DONE", None)
        BY <1>7, <1>10, <2>2, UpdateStatusHistory
    <2>3. CASE n = "github" /\ v = UpdateStatus([s EXCEPT !.pullRequest = TRUE], "PR_CREATED", None)
        <3>1. [s EXCEPT !.pullRequest = TRUE] \in TaskRecord
            BY <1>7 DEF TaskRecord
        <3>2. v.status = "PR_CREATED" /\ v.resumeTarget = None
            BY <2>3, <3>1, UpdateStatusHistory
        <3> QED
            BY <1>12, <2>3, <3>2
    <2>4. CASE n = "deploy" /\ \E x \in {"SELF_UPDATING", "STAGING_DEPLOYED"} : v = UpdateStatus(s, x, None)
        <3>1. v.status \in {"SELF_UPDATING", "STAGING_DEPLOYED"} /\ v.resumeTarget = None
            BY <1>7, <2>4, UpdateStatusHistory
        <3> QED
            BY <1>12, <2>4, <3>1
    <2> QED
        BY <1>9, <1>11, <1>13, <1>15, <2>1, <2>2, <2>3, <2>4
<1> QED
    BY <1>14, <1>15

\* The end of a run, or a crash, leaves the rows as they are.
LEMMA RunEndsKeepReady ==
    ASSUME PInv, Crash \/ \E r \in Runs : EndRun(r)
    PROVE  RowsReady' /\ RunsReady' /\ StagesShow'
<1>1. task' = task /\ \A s \in Runs : pc'[s] # "idle" =>
        pc'[s] = pc[s] /\ node'[s] = node[s] /\ on'[s] = on[s]
    <2>1. CASE Crash
        BY <2>1 DEF Crash
    <2>2. ASSUME NEW r \in Runs, EndRun(r)
          PROVE  task' = task /\ \A s \in Runs : pc'[s] # "idle" =>
                    pc'[s] = pc[s] /\ node'[s] = node[s] /\ on'[s] = on[s]
        BY <2>2 DEF EndRun, PInv, Inv, TypeOK
    <2> QED
        BY <2>1, <2>2
<1> QED
    BY <1>1 DEF PInv, RowsReady, RunsReady, StagesShow

\* At first there is no run and no result.
LEMMA InitIsReady == Init => RowsReady /\ RunsReady /\ StagesShow
<1>1. Init => \A t \in Tasks : task[t].status = "ABSENT"
    BY NoViewIsRecord DEF Init
<1> QED
    BY <1>1 DEF Init, RowsReady, RowReady, RunsReady, StagesShow

\* Every step keeps the stages ready.
LEMMA StepKeepsReady ==
    ASSUME PInv, [Next]_vars
    PROVE  RowsReady' /\ RunsReady' /\ StagesShow'
<1>1. CASE \E t \in Tasks : HandlerStep(t)
    BY <1>1, HandlersKeepReady
<1>2. CASE \E r \in Runs : RunStep(r)
    BY <1>2, BeginRunKeepsReady, AskForModificationKeepsReady, DispatchKeepsReady,
       StageFailureKeepsReady, StageSucceedsKeepsReady, RunEndsKeepReady
       DEF RunStep
<1>3. CASE Crash
    BY <1>3, RunEndsKeepReady
<1>4. CASE UNCHANGED vars
    BY <1>4 DEF PInv, vars, runVars, RowsReady, RunsReady, StagesShow
<1> QED
    BY <1>1, <1>2, <1>3, <1>4 DEF Next

-------------------------------------------------------------------------------
(* The theorems *)

\* Rows and runs are ready for their stages in every reachable state.
LEMMA ReadyHolds == Spec => []PInv
<1>1. Init => PInv
    BY InitEstablishesInv, InitIsReady DEF PInv
<1>2. PInv /\ [Next]_vars => PInv'
    BY StepKeepsInv, StepKeepsReady DEF PInv
<1> QED
    BY <1>1, <1>2, PTL DEF Spec

\* What is published went through every check of its path, after any number of
\* crashes and restarts, unless an operator restarted behind coding
\* (workflow.py, the route methods and _resolve_entrypoint).
THEOREM PublicationsAreChecked == Spec => []PublishedWorkIsChecked
<1>1. PInv => PublishedWorkIsChecked
    <2> SUFFICES ASSUME PInv, NEW r \in Runs, InFlight(r, "github"), ~RestartedAfter(on[r], "coding"),
                        NEW m \in RequiredChecks(task[on[r]])
                 PROVE  task[on[r]].results[m] \in {"clean", "flagged"}
        BY DEF PublishedWorkIsChecked
    <2>1. ChecksPassed(task[on[r]], "github")
        BY DEF PInv, RunsReady, InFlight
    <2>2. ~Behind(task[on[r]], "coding")
        BY DEF Behind, RestartedAfter
    <2>3. StageIndex[m] < StageIndex["github"]
        BY StagePositions DEF RequiredChecks
    <2> QED
        BY <2>1, <2>2, <2>3, StagePositions DEF ChecksPassed, Passed
<1> QED
    BY <1>1, ReadyHolds, PTL

\* On the full path a change that needs an approval is published only after one
\* was recorded, unless an operator restarted behind the gate
\* (workflow.py _documentation_node, task_service.py record_approval).
THEOREM RiskyPublicationsAreApproved == Spec => []RiskyPublicationIsApproved
<1>1. PInv => RiskyPublicationIsApproved
    <2> SUFFICES ASSUME PInv, NEW r \in Runs, InFlight(r, "github"),
                        ~UsesCompactFastPath(task[on[r]]), ~RestartedAfter(on[r], "documentation"),
                        ApprovalNeededBeforeGithub(task[on[r]])
                 PROVE  \E g \in Gates : <<g, "APPROVE">> \in task[on[r]].approvals
        BY DEF RiskyPublicationIsApproved
    <2>1. RiskApproved(task[on[r]], "github")
        BY DEF PInv, RunsReady, InFlight
    <2> QED
        BY <2>1 DEF RiskApproved, Behind, RestartedAfter, Approved
<1> QED
    BY <1>1, ReadyHolds, PTL

\* After a crash a task resumes at the stage that was in flight or before it
\* (workflow.py _resolve_entrypoint and the status each node writes).
THEOREM InterruptedStagesAreReplayed == Spec => []ResumeReplaysInterruptedStage
<1>1. PInv => ResumeReplaysInterruptedStage
    <2> SUFFICES ASSUME PInv, NEW r \in Runs, pc[r] = "waiting", task[on[r]].status # "FAILED",
                        task[on[r]].req.rollback => node[r] = "rollback",
                        node[r] = "deploy" => task[on[r]].req.autoDeploy
                 PROVE  /\ RouteEntry(task[on[r]]) \in Nodes
                        /\ StageIndex[RouteEntry(task[on[r]])] <= StageIndex[node[r]]
        BY DEF ResumeReplaysInterruptedStage
    <2> DEFINE v == task[on[r]]
               n == node[r]
    <2>1. n \in Nodes /\ ~v.approvalRequired /\ v.status # "DONE"
        BY DEF PInv, Inv, AtWork
    <2>2. v.status = StageStatus[n] /\ v.resumeTarget = IF n = "github" THEN n ELSE None
        BY DEF PInv, StagesShow, ShowsStage
    <2>3. v.status # "SELF_UPDATING" /\ (v.status = "PR_CREATED" <=> n = "deploy")
        BY <2>1, <2>2 DEF StageStatus, Nodes, StageIndex
    <2>4. StageIndex[n] \in Nat
        BY <2>1, StagePositions
    <2> HIDE DEF n
    <2>5. RouteEntry(v) = n \/ RouteEntry(v) = EntryNode[StageStatus[n]]
        BY <2>1, <2>2, <2>3, Tables DEF RouteEntry, None, n
    <2> HIDE DEF v
    <2> QED
        BY <2>1, <2>4, <2>5, Entry DEF n, v
<1> QED
    BY <1>1, ReadyHolds, PTL
===============================================================================
