------------------------- MODULE SelfImprovementProofs -------------------------
(***************************************************************************)
(* Proofs about SelfImprovement, for every mode, every set of goals, every *)
(* limit and every number of cycles, tasks, sessions and restarts.         *)
(***************************************************************************)
EXTENDS SelfImprovement, FiniteSetTheorems, TLAPS

\* Rows are created in order, and a row that is not there yet is blank.
Contiguous(table) == \E n \in Nat : Rows(table) = 1..n

RowsInOrder ==
    /\ Contiguous(cycle) /\ Contiguous(task)
    /\ \A c \in Cycles : cycle[c].status = "absent" => cycle[c] = NoCycle /\ job[c] = Idle
    /\ \A t \in Tasks : task[t].status = "absent" => task[t] = NoTask /\ file[t] = "absent"

Own(c, t) == t \in Tasks /\ task[t].cycle = c /\ task[t].kind = "work"

\* A coroutine that follows a task follows the latest task of its cycle; one that
\* has not analysed yet has no task at all.
LinksHold ==
    /\ \A c \in Cycles : cycle[c].task # NoRow => Own(c, cycle[c].task)
    /\ \A c \in Cycles : cycle[c].deploy => cycle[c].task # NoRow
    /\ \A c \in Cycles :
         /\ job[c].kind \in {"watching", "merging", "observing"}
              => cycle[c].task # NoRow /\ job[c].on = cycle[c].task
         /\ job[c].kind \in {"spawned", "analyzing"}
              => ~cycle[c].deploy /\ \A t \in Tasks : task[t].cycle # c
         /\ job[c].kind = "creating" => cycle[c].approved /\ ~cycle[c].deploy
         /\ job[c].kind = "merging" => cycle[c].deploy
    /\ \A t \in Tasks : task[t].cycle # NoRow => cycle[task[t].cycle].status # "absent"

\* Sessions are in order too, and follow a cycle that is there.
SessionsHold ==
    /\ Contiguous(session)
    /\ \A s \in Sessions :
         session[s].current # NoRow => cycle[session[s].current].status # "absent"

Granted(c) == Decide(mode, cycle[c].risk, DeployAfterSuccess).deploy

\* A right to deploy comes from the policy and is only handed down.
GrantsHold ==
    /\ \A c \in Cycles :
         (cycle[c].deploy => Granted(c)) /\ (cycle[c].merged => cycle[c].deploy)
    /\ \A t \in Tasks :
         /\ task[t].deploy /\ task[t].cycle # NoRow => Granted(task[t].cycle)
         /\ file[t] # "absent" => task[t].deploy

\* The gate of a risky cycle is handed down to every task, unless a human approved.
\* Only a compact path passes the gate of its task.
GatesHold ==
    /\ \A c \in Cycles :
         cycle[c].task # NoRow /\ cycle[c].risk \in Risky => cycle[c].gate \/ cycle[c].approved
    /\ \A t \in Tasks :
         LET c == task[t].cycle IN
         /\ c # NoRow /\ task[t].kind = "work" /\ cycle[c].risk \in Risky
              => task[t].gate \/ cycle[c].approved
         /\ c # NoRow /\ task[t].committed /\ task[t].gate /\ ~Compact(t) => task[t].approved

-------------------------------------------------------------------------------
(* The policy *)

\* Every goal has a risk.
LEMMA RiskOfGoal ==
    ASSUME NEW goal \in AnalyzeProblems
    PROVE  ClassifyRisk(goal) \in Risks
<1> DEFINE matches == {i \in DOMAIN RiskyPatterns : RiskyPatterns[i][1] \in goal}
           first == CHOOSE i \in matches : \A j \in matches : i <= j
<1>1. CASE matches = {}
    BY <1>1 DEF ClassifyRisk, Risks
<1>2. CASE matches # {}
    <2>1. DOMAIN RiskyPatterns = 1..7
        BY DEF RiskyPatterns
    <2>2. \E i \in matches : \A j \in matches : i <= j
        <3>1. matches \subseteq 1..7
            BY <2>1
        <3> HIDE DEF matches
        <3>2. \A i \in matches : i \in Nat
            BY <3>1
        <3>3. ASSUME NEW k \in matches, \A j \in matches : j >= k
              PROVE  \E i \in matches : \A j \in matches : i <= j
            BY <3>2, <3>3
        <3>4. CASE 1 \in matches \/ 2 \in matches \/ 3 \in matches
            BY <3>1, <3>4
        <3>5. CASE {1, 2, 3} \cap matches = {} /\ (4 \in matches \/ 5 \in matches)
            <4>1. \A j \in matches : j >= 4
                BY <3>1, <3>5
            <4> QED
                BY <3>3, <3>1, <3>5, <4>1
        <3>6. CASE matches \subseteq {6, 7} /\ 6 \in matches
            <4>1. \A j \in matches : j >= 6
                BY <3>6
            <4> QED
                BY <3>3, <3>6, <4>1
        <3>7. CASE matches = {7}
            BY <3>7
        <3>8. CASE {1, 2, 3, 4, 5} \cap matches = {}
            <4>1. matches \subseteq {6, 7}
                BY <3>1, <3>8
            <4>2. 6 \in matches \/ matches = {7}
                BY <4>1, <1>2
            <4> QED
                BY <4>1, <4>2, <3>6, <3>7
        <3> QED
            BY <3>4, <3>5, <3>8
    <2>3. first \in matches
        <3> HIDE DEF matches
        <3> QED
            BY <2>2
    <2>4. first \in 1..7
        BY <2>1, <2>3
    <2>5. \A i \in 1..7 : RiskyPatterns[i][2] \in Risks
        BY DEF RiskyPatterns, Risks
    <2> QED
        <3>1. ClassifyRisk(goal) = RiskyPatterns[first][2]
            BY <1>2 DEF ClassifyRisk
        <3> HIDE DEF first
        <3> QED
            BY <3>1, <2>4, <2>5
<1> QED
    BY <1>1, <1>2

\* What the analysis adds to the row of its cycle, and nothing else.
LEMMA PlannedRow ==
    ASSUME NEW c \in Cycles, cycle[c] \in CycleRows, NEW goal \in AnalyzeProblems
    PROVE  /\ Planned(c, goal) \in CycleRows
           /\ Planned(c, goal).risk = ClassifyRisk(goal)
           /\ Planned(c, goal).task = cycle[c].task
           /\ Planned(c, goal).status = cycle[c].status
           /\ Planned(c, goal).approved = cycle[c].approved
           /\ Planned(c, goal).merged = cycle[c].merged
           /\ Planned(c, goal).gate = cycle[c].gate
           /\ Planned(c, goal).deploy = cycle[c].deploy
           /\ Planned(c, goal).incident = cycle[c].incident
           /\ Planned(c, goal).rollback = cycle[c].rollback
           /\ Planned(c, goal).retries = cycle[c].retries
<1> DEFINE row == cycle[c]
           risk == ClassifyRisk(goal)
           tiny == TinyFix \in goal
<1>1. Planned(c, goal) = [row EXCEPT !.risk = risk, !.compact = tiny]
    BY DEF Planned
<1>2. risk \in Risks /\ tiny \in BOOLEAN /\ row \in CycleRows
    BY RiskOfGoal
<1> HIDE DEF row, risk, tiny
<1>3. LET p == [row EXCEPT !.risk = risk, !.compact = tiny]
      IN  /\ p \in CycleRows /\ p.risk = risk /\ p.task = row.task /\ p.status = row.status
          /\ p.approved = row.approved /\ p.merged = row.merged /\ p.gate = row.gate
          /\ p.deploy = row.deploy /\ p.incident = row.incident /\ p.rollback = row.rollback
          /\ p.retries = row.retries
    BY <1>2 DEF CycleRows
<1> QED
    BY <1>1, <1>3, Zenon DEF row, risk

\* A change that is executed although it is risky waits for an approval.
LEMMA RiskyIsGated ==
    ASSUME NEW raw, NEW risk \in Risky, NEW d, Decide(raw, risk, d).executes
    PROVE  Decide(raw, risk, d).publishApproval
BY DEF Risky, Decide, Rule, Action

\* What the policy decides are truth values.
LEMMA DecisionTypes ==
    ASSUME NEW raw, NEW risk \in Risks, NEW d \in BOOLEAN
    PROVE  /\ Decide(raw, risk, d).deploy \in BOOLEAN
           /\ Decide(raw, risk, d).publishApproval \in BOOLEAN
BY DEF Risks, Decide, Rule, Action

-------------------------------------------------------------------------------
(* Rows *)

\* The next row of a table is not there yet, and the table stays in order with it.
LEMMA NextRow ==
    ASSUME NEW table, Contiguous(table), NEW r \in DOMAIN table, IsNext(r, table)
    PROVE  /\ table[r].status = "absent"
           /\ \A other : DOMAIN other = DOMAIN table /\ other[r].status # "absent"
                 /\ (\A q \in DOMAIN table \ {r} :
                       other[q].status = "absent" <=> table[q].status = "absent")
                 => Contiguous(other)
<1>1. PICK n \in Nat : Rows(table) = 1..n
    BY DEF Contiguous
<1>2. Cardinality(1..n) = n
    BY FS_Interval
<1>3. r = n + 1
    BY <1>1, <1>2 DEF IsNext
<1>4. table[r].status = "absent"
    BY <1>1, <1>3 DEF Rows
<1>5. ASSUME NEW other, DOMAIN other = DOMAIN table, other[r].status # "absent",
             \A q \in DOMAIN table \ {r} :
                other[q].status = "absent" <=> table[q].status = "absent"
      PROVE  Contiguous(other)
    <2>1. Rows(other) = Rows(table) \cup {r}
        BY <1>5 DEF Rows
    <2>2. Rows(other) = 1..(n+1)
        BY <2>1, <1>1, <1>3
    <2> QED
        BY <2>2 DEF Contiguous
<1> QED
    BY <1>4, <1>5

\* Without a new row a table stays in order.
LEMMA SameRows ==
    ASSUME NEW table, Contiguous(table), NEW other, DOMAIN other = DOMAIN table,
           \A q \in DOMAIN table : other[q].status = "absent" <=> table[q].status = "absent"
    PROVE  Contiguous(other)
<1>1. Rows(other) = Rows(table)
    BY DEF Rows
<1> QED
    BY <1>1 DEF Contiguous

-------------------------------------------------------------------------------
(* Types *)

\* A row keeps its type when a field gets a value of its own type.
LEMMA CycleUpdates ==
    ASSUME NEW row \in CycleRows
    PROVE  /\ \A x \in CycleStatuses : [row EXCEPT !.status = x] \in CycleRows
           /\ \A x \in Risks : [row EXCEPT !.risk = x] \in CycleRows
           /\ \A x \in Tasks : [row EXCEPT !.task = x] \in CycleRows
           /\ \A x \in Tasks : [row EXCEPT !.rollback = x] \in CycleRows
           /\ \A x \in Incidents : [row EXCEPT !.incident = x] \in CycleRows
           /\ \A x \in BOOLEAN : /\ [row EXCEPT !.compact = x] \in CycleRows
                                 /\ [row EXCEPT !.deploy = x] \in CycleRows
                                 /\ [row EXCEPT !.gate = x] \in CycleRows
                                 /\ [row EXCEPT !.approved = x] \in CycleRows
                                 /\ [row EXCEPT !.merged = x] \in CycleRows
           /\ [row EXCEPT !.retries = @ + 1] \in CycleRows
BY DEF CycleRows

\* Each field of a task's row may be rewritten with a value of its type.
LEMMA TaskUpdates ==
    ASSUME NEW row \in TaskRows
    PROVE  /\ \A x \in TaskStatuses : [row EXCEPT !.status = x] \in TaskRows
           /\ [row EXCEPT !.approved = TRUE] \in TaskRows
           /\ [row EXCEPT !.committed = TRUE] \in TaskRows
           /\ [row EXCEPT !.failedQA = TRUE] \in TaskRows
BY DEF TaskRows

\* A coroutine may be replaced by one of any kind, on any task.
LEMMA JobUpdates ==
    ASSUME NEW row \in Jobs
    PROVE  /\ \A x \in JobKinds : [row EXCEPT !.kind = x] \in Jobs
           /\ \A x \in JobKinds, t \in Tasks \cup {NoRow} : [kind |-> x, on |-> t] \in Jobs
           /\ Idle \in Jobs
BY DEF Jobs, Idle, JobKinds

\* The table keeps its type when a task is approved or gets another status.
LEMMA TaskApproved ==
    ASSUME TypeOK, NEW t \in Tasks,
           \/ task' = [task EXCEPT ![t].approved = TRUE]
           \/ \E x \in TaskStatuses : task' = [task EXCEPT ![t].status = x]
    PROVE  task' \in [Tasks -> TaskRows]
<1>1. task \in [Tasks -> TaskRows] /\ task[t] \in TaskRows
    BY DEF TypeOK
<1>2. \E row \in TaskRows : task' = [task EXCEPT ![t] = row]
    BY <1>1, TaskUpdates, Zenon
<1> QED
    BY <1>1, <1>2

\* Likewise the table of the cycles, when one gets another status.
LEMMA CycleMoved ==
    ASSUME TypeOK, NEW c \in Cycles, NEW x \in CycleStatuses,
           cycle' = [cycle EXCEPT ![c].status = x]
    PROVE  cycle' \in [Cycles -> CycleRows]
BY CycleUpdates DEF TypeOK

\* The record of a task created for a cycle is a task row.
LEMMA NewTaskTyped ==
    ASSUME NEW c \in Cycles, NEW kind \in Kinds, NEW deploy \in BOOLEAN, NEW gate \in BOOLEAN
    PROVE  NewTask(c, kind, deploy, gate) \in TaskRows
BY DEF NewTask, NoTask, TaskRows, TaskStatuses

\* The names of the statuses are all there.
LEMMA Names ==
    /\ {"analyzing", "implementing", "post_deploy_testing", "completed", "failed", "paused",
        "awaiting"} \subseteq CycleStatuses
    /\ {"running", "completed", "failed", "stopped", "awaiting"} \subseteq SessionStatuses
    /\ {"new", "working", "gated", "pr_created", "self_updating", "staged", "done", "failed"}
         \subseteq TaskStatuses
    /\ {"open", "rollback_running", "rolled_back"} \subseteq Incidents
    /\ {"none", "spawned", "analyzing", "creating", "watching", "merging", "observing"}
         \subseteq JobKinds
    /\ {"work", "revert", "restore"} \subseteq Kinds
    /\ {"armed", "dispatch_failed", "absent", "healthy", "timed_out", "rollback_running",
        "rolled_back", "rollback_failed"} \subseteq FileStatuses
BY DEF CycleStatuses, Active, SessionStatuses, TaskStatuses, Incidents, JobKinds, Kinds,
       FileStatuses, Pending

\* start_cycle's insert of a cycle and its pipeline keeps both tables typed.
LEMMA CreatesTyped ==
    ASSUME TypeOK, NEW c \in Cycles, CreateCycle(c)
    PROVE  cycle' \in [Cycles -> CycleRows] /\ job' \in [Cycles -> Jobs]
<1>1. [cycle[c] EXCEPT !.status = "analyzing"] \in CycleRows
    BY CycleUpdates, Names DEF TypeOK
<1>2. [kind |-> "spawned", on |-> NoRow] \in Jobs
    BY Names DEF Jobs
<1> QED
    BY <1>1, <1>2 DEF TypeOK, CreateCycle

\* The operator's handlers keep every variable in its type.
LEMMA OperatorTyped ==
    ASSUME TypeOK, Operator
    PROVE  TypeOK'
<1>0. decisions' \in 0..MaxDisturbances /\ restarts' \in 0..MaxRestarts
    <2>1. Decided
        BY DEF Operator, StartCycle, StartSession, StopCycle, StopSession, ApproveCycle,
               DecideTask, RestartFromQA
    <2> QED
        BY <2>1, RowsAssumption DEF TypeOK, Decided, Undisturbed
<1> USE Names DEF TypeOK, Decided, settings, coroutines
<1>1. CASE StartCycle
    BY <1>0, <1>1, CreatesTyped DEF StartCycle
<1>2. CASE StartSession
    <2>1. PICK s \in Sessions, force \in BOOLEAN :
              session' = [session EXCEPT ![s].status = "running", ![s].force = force]
              /\ loops' = loops \cup {s}
        BY <1>2 DEF StartSession
    <2>2. [[session[s] EXCEPT !.status = "running"] EXCEPT !.force = force] \in SessionRows
        BY DEF SessionRows
    <2>3. session' \in [Sessions -> SessionRows]
        BY <2>1, <2>2
    <2> QED
        BY <1>0, <1>2, <2>1, <2>3 DEF StartSession
<1>3. CASE StopCycle
    <2>1. cycle' \in [Cycles -> CycleRows]
        BY <1>3, CycleMoved DEF StopCycle
    <2> QED
        BY <1>0, <1>3, <2>1 DEF StopCycle
<1>4. CASE StopSession
    <2>1. PICK s \in Sessions :
            /\ session' = [session EXCEPT ![s].status = "stopped"]
            /\ cycle' = [c \in Cycles |->
                 IF c = session[s].current /\ c \in ActiveCycles
                 THEN [cycle[c] EXCEPT !.status = "paused"] ELSE cycle[c]]
        BY <1>4 DEF StopSession, ActiveSessions
    <2>2. [session[s] EXCEPT !.status = "stopped"] \in SessionRows
        BY DEF SessionRows
    <2>3. cycle' \in [Cycles -> CycleRows]
        BY <2>1, CycleUpdates
    <2> QED
        BY <1>0, <1>4, <2>1, <2>2, <2>3 DEF StopSession
<1>5. ASSUME NEW c \in Cycles, ApproveCycle(c)
      PROVE  TypeOK'
    <2>1. [[cycle[c] EXCEPT !.status = "implementing"] EXCEPT !.approved = TRUE] \in CycleRows
        BY CycleUpdates
    <2>2. cycle' \in [Cycles -> CycleRows]
        BY <1>5, <2>1 DEF ApproveCycle
    <2>3. CASE cycle[c].task # NoRow
        <3>1. cycle[c].task \in Tasks
            BY <2>3 DEF CycleRows
        <3>2. task' \in [Tasks -> TaskRows]
            BY <1>5, <2>3, <3>1, TaskApproved, Zenon DEF ApproveCycle
        <3>3. running' \subseteq Tasks /\ job' = job
            BY <1>5, <2>3, <3>1 DEF ApproveCycle
        <3>4. UNCHANGED <<settings, session, file, loops, autoStart>>
            BY <1>5 DEF ApproveCycle
        <3> QED
            BY <1>0, <2>2, <3>2, <3>3, <3>4
    <2>4. CASE cycle[c].task = NoRow
        BY <1>0, <1>5, <2>2, <2>4, JobUpdates DEF ApproveCycle
    <2> QED
        BY <2>3, <2>4
<1>6. ASSUME NEW t \in Tasks, DecideTask(t)
      PROVE  TypeOK'
    <2>1. task' \in [Tasks -> TaskRows]
        BY <1>6, TaskApproved, Zenon DEF DecideTask
    <2>2. running' \subseteq Tasks
        BY <1>6 DEF DecideTask
    <2>3. UNCHANGED <<settings, cycle, session, file, job, loops, autoStart>>
        BY <1>6 DEF DecideTask
    <2> QED
        BY <1>0, <2>1, <2>2, <2>3
<1>7. ASSUME NEW t \in Tasks, RestartFromQA(t)
      PROVE  TypeOK'
    <2>1. task' \in [Tasks -> TaskRows]
        BY <1>7, TaskApproved, Zenon DEF RestartFromQA
    <2> QED
        BY <1>0, <1>7, <2>1 DEF RestartFromQA
<1> QED
    BY <1>1, <1>2, <1>3, <1>4, <1>5, <1>6, <1>7 DEF Operator

\* A background run of a task keeps every variable in its type.
LEMMA RunTyped ==
    ASSUME TypeOK, NEW t \in Tasks, Run(t)
    PROVE  TypeOK'
<1> USE Names DEF TypeOK, settings, rows, coroutines, bounds
<1>1. CASE RunStops(t)
    BY <1>1 DEF RunStops
<1>2. CASE RunWorks(t)
    <2>1. task' \in [Tasks -> TaskRows]
        BY <1>2, TaskApproved, Zenon DEF RunWorks, Runs, Stops
    <2>2. running' \subseteq Tasks
        BY <1>2 DEF RunWorks, Runs, Stops
    <2>3. UNCHANGED <<settings, cycle, session, file, job, loops, autoStart, bounds>>
        BY <1>2 DEF RunWorks
    <2> QED
        BY <2>1, <2>2, <2>3
<1>3. CASE Publish(t)
    <2>1. task[t] \in TaskRows /\ [task[t] EXCEPT !.status = "pr_created"] \in TaskRows
        BY TaskUpdates
    <2>2. [[task[t] EXCEPT !.status = "pr_created"] EXCEPT !.committed = TRUE] \in TaskRows
        BY <2>1, TaskUpdates
    <2>3. task' = [task EXCEPT ![t] =
                     [[task[t] EXCEPT !.status = "pr_created"] EXCEPT !.committed = TRUE]]
        BY <1>3, Zenon DEF Publish
    <2>4. task' \in [Tasks -> TaskRows]
        BY <2>2, <2>3
    <2>5. UNCHANGED <<settings, cycle, session, file, coroutines, bounds>>
        BY <1>3 DEF Publish
    <2> QED
        BY <2>4, <2>5
<1>4. CASE Deploy(t)
    <2>1. task' \in [Tasks -> TaskRows] /\ running' \subseteq Tasks
        BY <1>4, TaskApproved DEF Deploy, Stops
    <2>2. file' \in [Tasks -> FileStatuses]
        BY <1>4 DEF Deploy
    <2>3. UNCHANGED <<settings, cycle, session, job, loops, autoStart, bounds>>
        BY <1>4 DEF Deploy
    <2> QED
        BY <2>1, <2>2, <2>3
<1>5. CASE Finish(t)
    <2>1. task[t] \in TaskRows /\ [task[t] EXCEPT !.status = "failed"] \in TaskRows
        BY TaskUpdates
    <2>2. [[task[t] EXCEPT !.status = "failed"] EXCEPT !.failedQA = TRUE] \in TaskRows
        BY <2>1, TaskUpdates
    <2>3. \/ Stops(t, "done")
          \/ task' = [task EXCEPT ![t] =
                        [[task[t] EXCEPT !.status = "failed"] EXCEPT !.failedQA = TRUE]]
        BY <1>5, Zenon DEF Finish
    <2>4. task' \in [Tasks -> TaskRows]
        BY <2>2, <2>3, TaskApproved DEF Stops
    <2>5. /\ running' \subseteq Tasks
          /\ UNCHANGED <<settings, cycle, session, file, job, loops, autoStart, bounds>>
        BY <1>5 DEF Finish, Stops
    <2> QED
        BY <2>4, <2>5
<1> QED
    BY <1>1, <1>2, <1>3, <1>4, <1>5 DEF Run

\* The watchdog's writes to its state file keep every variable in its type.
LEMMA WatchdogTyped ==
    ASSUME TypeOK, NEW t \in Tasks, Watchdog(t)
    PROVE  TypeOK'
<1>1. PICK status : file' = [file EXCEPT ![t] = status] /\ status \in WatchdogStep[file[t]]
    BY DEF Watchdog
<1>2. file[t] \in {"armed", "timed_out", "rollback_running", "dispatch_failed"}
    BY DEF Watchdog, WatchdogStep
<1>3. status \in FileStatuses
    BY <1>1, <1>2, Names DEF WatchdogStep
<1> QED
    BY <1>1, <1>3 DEF TypeOK, Watchdog, settings, coroutines, bounds

\* The start on boot keeps every variable in its type.
LEMMA AutoStartTyped ==
    ASSUME TypeOK, AutoStart
    PROVE  TypeOK'
<1>1. cycle' \in [Cycles -> CycleRows] /\ job' \in [Cycles -> Jobs]
    BY CreatesTyped DEF AutoStart, TypeOK
<1> QED
    BY <1>1 DEF AutoStart, TypeOK, settings, bounds

\* _create_and_start_task keeps the tables it writes typed.
LEMMA CreationTyped ==
    ASSUME TypeOK, NEW c \in Cycles, NEW t \in Tasks, NEW row \in CycleRows,
           NEW gate \in BOOLEAN, NEW deploy \in BOOLEAN,
           CreateAndStart(c, t, row, gate, deploy)
    PROVE  /\ task' \in [Tasks -> TaskRows] /\ cycle' \in [Cycles -> CycleRows]
           /\ job' \in [Cycles -> Jobs] /\ running' \subseteq Tasks
<1>1. NewTask(c, "work", deploy, gate) \in TaskRows
    BY NewTaskTyped, Names
<1>2. [row EXCEPT !.task = t] \in CycleRows
    BY CycleUpdates
<1>3. [[row EXCEPT !.task = t] EXCEPT !.gate = gate] \in CycleRows
    BY <1>2, CycleUpdates
<1>4. [[[row EXCEPT !.task = t] EXCEPT !.gate = gate] EXCEPT !.deploy = deploy] \in CycleRows
    BY <1>3, CycleUpdates
<1>5. cycle' = [cycle EXCEPT ![c] =
                 [[[row EXCEPT !.task = t] EXCEPT !.gate = gate] EXCEPT !.deploy = deploy]]
    BY Zenon DEF CreateAndStart
<1>6. task' = [task EXCEPT ![t] = NewTask(c, "work", deploy, gate)]
    BY DEF CreateAndStart
<1>7. cycle' \in [Cycles -> CycleRows] /\ task' \in [Tasks -> TaskRows]
    BY <1>1, <1>4, <1>5, <1>6 DEF TypeOK
<1>8. job' \in [Cycles -> Jobs] /\ running' \subseteq Tasks
    BY JobUpdates, Names DEF CreateAndStart, TypeOK
<1> QED
    BY <1>7, <1>8

\* The end of the analysis creates a task or only writes the row of its cycle.
LEMMA AnalysisEffect ==
    ASSUME NEW c \in Cycles, ConcludeAnalysis(c)
    PROVE  \/ \E t \in Tasks : \E row, gate, deploy : CreateAndStart(c, t, row, gate, deploy)
           \/ (\E row : cycle' = [cycle EXCEPT ![c] = row]) /\ task' = task
<1>1. PICK goal \in AnalyzeProblems :
         LET decision == Decide(mode, ClassifyRisk(goal), DeployAfterSuccess)
             planned == Planned(c, goal)
         IN IF decision.executes
            THEN \E t \in Tasks :
                   CreateAndStart(c, t, [planned EXCEPT !.status = "implementing"],
                                  decision.publishApproval, decision.deploy)
            ELSE /\ cycle' = [cycle EXCEPT ![c] =
                       [planned EXCEPT !.status = IF decision.awaits THEN "awaiting"
                                                  ELSE "completed"]]
                 /\ job' = [job EXCEPT ![c] = Idle]
                 /\ UNCHANGED <<task, running>>
    BY DEF ConcludeAnalysis
<1> DEFINE decision == Decide(mode, ClassifyRisk(goal), DeployAfterSuccess)
<1>2. CASE decision.executes
    BY <1>1, <1>2, Zenon
<1>3. CASE ~decision.executes
    BY <1>1, <1>3, Zenon
<1> QED
    BY <1>2, <1>3

\* A creation writes the row of one cycle and one new task.
LEMMA CreationEffect ==
    ASSUME NEW c, NEW t, NEW row, NEW gate, NEW deploy, CreateAndStart(c, t, row, gate, deploy)
    PROVE  /\ \E r : cycle' = [cycle EXCEPT ![c] = r]
           /\ IsNext(t, task) /\ \E r : task' = [task EXCEPT ![t] = r]
BY Zenon DEF CreateAndStart

\* So do the steps of a cycle that may create a task, if they create one.
LEMMA CreatorEffect ==
    ASSUME NEW c \in Cycles,
           ConcludeAnalysis(c) \/ CreateApproved(c) \/ HandleFailedTask(c)
    PROVE  /\ \E r : cycle' = [cycle EXCEPT ![c] = r]
           /\ \/ task' = task
              \/ \E t \in Tasks : IsNext(t, task) /\ \E r : task' = [task EXCEPT ![t] = r]
<1>1. CASE ConcludeAnalysis(c)
    BY <1>1, AnalysisEffect, CreationEffect, Zenon
<1>2. CASE CreateApproved(c)
    BY <1>2, CreationEffect, Zenon DEF CreateApproved
<1>3. CASE HandleFailedTask(c)
    <2>1. PICK t \in Tasks :
             \/ \E u \in Tasks :
                  /\ IsNext(u, task)
                  /\ task' = [task EXCEPT ![u] = NewTask(c, Undo(c, t), FALSE, FALSE)]
                  /\ \E r : cycle' = [cycle EXCEPT ![c] = r]
             \/ (\E r : cycle' = [cycle EXCEPT ![c] = r]) /\ task' = task
             \/ \E u \in Tasks : \E row, gate, deploy : CreateAndStart(c, u, row, gate, deploy)
        BY <1>3, Zenon DEF HandleFailedTask
    <2> QED
        BY <2>1, CreationEffect, Zenon
<1> QED
    BY <1>1, <1>2, <1>3

\* The end of the analysis, in each of its outcomes, keeps the tables typed.
LEMMA AnalysisTyped ==
    ASSUME TypeOK, NEW c \in Cycles, ConcludeAnalysis(c)
    PROVE  TypeOK'
<1>1. PICK goal \in AnalyzeProblems :
         LET decision == Decide(mode, ClassifyRisk(goal), DeployAfterSuccess)
             planned == Planned(c, goal)
         IN IF decision.executes
            THEN \E t \in Tasks :
                   CreateAndStart(c, t, [planned EXCEPT !.status = "implementing"],
                                  decision.publishApproval, decision.deploy)
            ELSE /\ cycle' = [cycle EXCEPT ![c] =
                       [planned EXCEPT !.status = IF decision.awaits THEN "awaiting"
                                                  ELSE "completed"]]
                 /\ job' = [job EXCEPT ![c] = Idle]
                 /\ UNCHANGED <<task, running>>
    BY DEF ConcludeAnalysis
<1> DEFINE risk == ClassifyRisk(goal)
           decision == Decide(mode, risk, DeployAfterSuccess)
           planned == Planned(c, goal)
<1>2. risk \in Risks
    BY RiskOfGoal
<1>3. decision.publishApproval \in BOOLEAN /\ decision.deploy \in BOOLEAN
    BY <1>2, DecisionTypes, SettingsAssumption
<1>4. planned \in CycleRows
    BY PlannedRow DEF TypeOK
<1> HIDE DEF risk
<1>5. \A x \in CycleStatuses : [planned EXCEPT !.status = x] \in CycleRows
    BY <1>4, CycleUpdates
<1>6. UNCHANGED <<settings, session, file, loops, autoStart, bounds>>
    BY DEF ConcludeAnalysis
<1>7. CASE decision.executes
    <2>1. PICK t \in Tasks : CreateAndStart(c, t, [planned EXCEPT !.status = "implementing"],
                                            decision.publishApproval, decision.deploy)
        BY <1>1, <1>7 DEF risk
    <2> HIDE DEF planned, decision
    <2> QED
        BY <2>1, <1>3, <1>5, <1>6, Names, CreationTyped DEF TypeOK, settings, bounds
<1>8. CASE ~decision.executes
    <2>1. /\ cycle' = [cycle EXCEPT ![c] =
                 [planned EXCEPT !.status = IF decision.awaits THEN "awaiting" ELSE "completed"]]
          /\ job' = [job EXCEPT ![c] = Idle]
          /\ UNCHANGED <<task, running>>
        BY <1>1, <1>8 DEF risk
    <2> HIDE DEF planned, decision
    <2> QED
        BY <2>1, <1>5, <1>6, Names, JobUpdates DEF TypeOK, settings, bounds
<1> QED
    BY <1>7, <1>8

\* What the outcome of a self-update makes of the rows keeps their types.
LEMMA FinalizeTyped ==
    ASSUME TypeOK, NEW c \in Cycles, NEW t \in Tasks, Finalize(c, t)
    PROVE  task' \in [Tasks -> TaskRows] /\ cycle' \in [Cycles -> CycleRows]
<1>1. TaskAfter(t, file[t]) \in TaskRows
    BY TaskUpdates, Names DEF TaskAfter, TypeOK
<1>2. CycleAfter(c, file[t]) \in CycleRows
    <2>1. [cycle[c] EXCEPT !.status = "failed"] \in CycleRows
        BY CycleUpdates, Names DEF TypeOK
    <2>2. \A row \in CycleRows : UpdateRollbackStatus(row, file[t]) \in CycleRows
        BY CycleUpdates, Names DEF UpdateRollbackStatus, CreateIncident
    <2> QED
        BY <2>1, <2>2, CycleUpdates, Names DEF CycleAfter, TypeOK
<1> QED
    BY <1>1, <1>2 DEF Finalize, TypeOK

\* Likewise the undoing of the work of a cycle.
LEMMA UndoingTyped ==
    ASSUME TypeOK, NEW c \in Cycles, NEW t \in Tasks, NEW u \in Tasks,
           task' = [task EXCEPT ![u] = NewTask(c, Undo(c, t), FALSE, FALSE)],
           cycle' = [cycle EXCEPT ![c] = AttachRollbackTask(
                        [CreateIncident(cycle[c]) EXCEPT !.status = "failed"], u)]
    PROVE  task' \in [Tasks -> TaskRows] /\ cycle' \in [Cycles -> CycleRows]
<1>1. Undo(c, t) \in Kinds
    BY Names DEF Undo
<1>2. NewTask(c, Undo(c, t), FALSE, FALSE) \in TaskRows
    BY <1>1, NewTaskTyped
<1>3. [CreateIncident(cycle[c]) EXCEPT !.status = "failed"] \in CycleRows
    BY CycleUpdates, Names DEF CreateIncident, TypeOK
<1>4. AttachRollbackTask([CreateIncident(cycle[c]) EXCEPT !.status = "failed"], u) \in CycleRows
    <2>1. \A row \in CycleRows : AttachRollbackTask(row, u) \in CycleRows
        BY CycleUpdates, Names DEF AttachRollbackTask
    <2> QED
        BY <2>1, <1>3
<1> QED
    BY <1>2, <1>4 DEF TypeOK

\* _handle_failed_task, in each of its outcomes, keeps the tables typed.
LEMMA FailedTaskTyped ==
    ASSUME TypeOK, NEW c \in Cycles, HandleFailedTask(c)
    PROVE  TypeOK'
<1> DEFINE row == CreateIncident(cycle[c])
<1>1. UNCHANGED <<settings, session, file, loops, autoStart, bounds>>
    BY DEF HandleFailedTask
<1>2. row \in CycleRows
    BY CycleUpdates, Names DEF CreateIncident, TypeOK
<1>3. PICK t \in Tasks :
         \/ \E u \in Tasks :
              /\ task' = [task EXCEPT ![u] = NewTask(c, Undo(c, t), FALSE, FALSE)]
              /\ cycle' = [cycle EXCEPT ![c] =
                    AttachRollbackTask([row EXCEPT !.status = "failed"], u)]
              /\ running' = running \cup {u}
              /\ job' = [job EXCEPT ![c] = Idle]
         \/ /\ cycle' = [cycle EXCEPT ![c] =
                  [row EXCEPT !.status = "failed", !.retries = @ + 1]]
            /\ job' = [job EXCEPT ![c] = Idle]
            /\ UNCHANGED <<task, running>>
         \/ \E u \in Tasks :
              CreateAndStart(c, u, [row EXCEPT !.status = "implementing", !.retries = @ + 1],
                             cycle[c].gate, cycle[c].deploy)
    BY DEF HandleFailedTask
<1>4. \A x \in {"failed", "implementing"} :
          [[row EXCEPT !.status = x] EXCEPT !.retries = @ + 1] \in CycleRows
    <2>1. \A x \in {"failed", "implementing"} : [row EXCEPT !.status = x] \in CycleRows
        BY <1>2, CycleUpdates, Names
    <2> HIDE DEF row
    <2> QED
        BY <2>1, CycleUpdates
<1>5. CASE \E u \in Tasks :
              /\ task' = [task EXCEPT ![u] = NewTask(c, Undo(c, t), FALSE, FALSE)]
              /\ cycle' = [cycle EXCEPT ![c] =
                    AttachRollbackTask([row EXCEPT !.status = "failed"], u)]
              /\ running' = running \cup {u}
              /\ job' = [job EXCEPT ![c] = Idle]
    <2>1. task' \in [Tasks -> TaskRows] /\ cycle' \in [Cycles -> CycleRows]
        BY <1>5, UndoingTyped
    <2>2. running' \subseteq Tasks /\ job' \in [Cycles -> Jobs]
        BY <1>5, JobUpdates DEF TypeOK
    <2> QED
        BY <1>1, <2>1, <2>2 DEF TypeOK, settings, bounds
<1>6. CASE /\ cycle' = [cycle EXCEPT ![c] =
                  [row EXCEPT !.status = "failed", !.retries = @ + 1]]
           /\ job' = [job EXCEPT ![c] = Idle]
           /\ UNCHANGED <<task, running>>
    <2> HIDE DEF row
    <2>1. cycle' = [cycle EXCEPT ![c] =
                     [[row EXCEPT !.status = "failed"] EXCEPT !.retries = @ + 1]]
        BY <1>6, Zenon
    <2>2. cycle' \in [Cycles -> CycleRows]
        BY <2>1, <1>4 DEF TypeOK
    <2> QED
        BY <1>1, <1>6, <2>2, JobUpdates DEF TypeOK, settings, bounds
<1>7. CASE \E u \in Tasks :
              CreateAndStart(c, u, [row EXCEPT !.status = "implementing", !.retries = @ + 1],
                             cycle[c].gate, cycle[c].deploy)
    <2>1. cycle[c].gate \in BOOLEAN /\ cycle[c].deploy \in BOOLEAN
        BY DEF TypeOK, CycleRows
    <2> HIDE DEF row
    <2>2. [row EXCEPT !.status = "implementing", !.retries = @ + 1] \in CycleRows
        BY <1>4, Zenon
    <2>3. /\ task' \in [Tasks -> TaskRows] /\ cycle' \in [Cycles -> CycleRows]
          /\ job' \in [Cycles -> Jobs] /\ running' \subseteq Tasks
        BY <1>7, <2>1, <2>2, CreationTyped
    <2> QED
        BY <1>1, <2>3 DEF TypeOK, settings, bounds
<1> QED
    BY <1>3, <1>5, <1>6, <1>7

\* Every step of a cycle's coroutine keeps every variable in its type.
LEMMA PipelineTyped ==
    ASSUME TypeOK, LinksHold, NEW c \in Cycles, Pipeline(c)
    PROVE  TypeOK'
<1> USE Names, JobUpdates DEF TypeOK, settings, rows, bounds, coroutines
<1>1. CASE BeginAnalysis(c)
    BY <1>1, CycleMoved DEF BeginAnalysis
<1>2. CASE CreateApproved(c)
    <2>1. UNCHANGED <<settings, session, file, loops, autoStart, bounds>>
        BY <1>2 DEF CreateApproved
    <2>2. cycle[c] \in CycleRows
        OBVIOUS
    <2>3. /\ task' \in [Tasks -> TaskRows] /\ cycle' \in [Cycles -> CycleRows]
          /\ job' \in [Cycles -> Jobs] /\ running' \subseteq Tasks
        BY <1>2, <2>2, CreationTyped DEF CreateApproved
    <2> QED
        BY <2>1, <2>3
<1>3. CASE PollMirrors(c)
    <2>1. cycle[c].status \in CycleStatuses
        BY DEF CycleRows
    <2>2. \A t \in Tasks : Mirror(t, c) \in CycleStatuses
        BY <2>1 DEF Mirror
    <2>3. cycle' \in [Cycles -> CycleRows]
        BY <1>3, <2>2, CycleMoved DEF PollMirrors
    <2> QED
        BY <1>3, <2>3 DEF PollMirrors
<1>4. CASE PollSucceeds(c)
    <2>1. cycle' \in [Cycles -> CycleRows]
        BY <1>4, CycleMoved DEF PollSucceeds
    <2>2. job' \in [Cycles -> Jobs]
        BY <1>4 DEF PollSucceeds
    <2> QED
        BY <1>4, <2>1, <2>2 DEF PollSucceeds
<1>5. CASE Merge(c)
    <2>1. PICK merged \in BOOLEAN :
             cycle' = [cycle EXCEPT ![c] =
                 [[cycle[c] EXCEPT !.status = IF merged THEN "completed" ELSE "failed"]
                           EXCEPT !.merged = merged]]
        BY <1>5, Zenon DEF Merge
    <2>2. [cycle[c] EXCEPT !.status = IF merged THEN "completed" ELSE "failed"] \in CycleRows
        BY CycleUpdates
    <2>3. [[cycle[c] EXCEPT !.status = IF merged THEN "completed" ELSE "failed"]
                     EXCEPT !.merged = merged] \in CycleRows
        BY <2>2, CycleUpdates
    <2>4. cycle' \in [Cycles -> CycleRows]
        BY <2>1, <2>3
    <2> QED
        BY <1>5, <2>4 DEF Merge
<1>6. CASE PollFindsUpdateOver(c)
    <2>1. task' \in [Tasks -> TaskRows] /\ cycle' \in [Cycles -> CycleRows]
        BY <1>6, FinalizeTyped DEF PollFindsUpdateOver
    <2> QED
        BY <1>6, <2>1 DEF PollFindsUpdateOver, Continued
<1>7. CASE Deadline(c)
    BY <1>7, CycleMoved DEF Deadline
<1>8. CASE Observe(c)
    <2>1. job[c].on \in Tasks
        BY <1>8 DEF Observe, LinksHold, Own
    <2>2. task' \in [Tasks -> TaskRows] /\ cycle' \in [Cycles -> CycleRows]
        BY <1>8, <2>1, FinalizeTyped DEF Observe
    <2> QED
        BY <1>8, <2>1, <2>2 DEF Observe, Continued
<1> QED
    BY <1>1, <1>2, <1>3, <1>4, <1>5, <1>6, <1>7, <1>8, AnalysisTyped, FailedTaskTyped DEF Pipeline

\* A restart keeps every variable in its type.
LEMMA RestartTyped ==
    ASSUME TypeOK, Restart
    PROVE  TypeOK'
<1> USE Names, JobUpdates DEF TypeOK, settings
<1>1. restarts' \in 0..MaxRestarts
    BY RowsAssumption DEF Restart
<1>2. /\ loops' \subseteq Sessions /\ autoStart' \in BOOLEAN
      /\ UNCHANGED <<settings, session, file, decisions>>
    BY DEF Restart
<1>3. CASE KeepsOnly({}) /\ running' = {} /\ UNCHANGED <<cycle, task>>
    BY <1>1, <1>2, <1>3 DEF KeepsOnly
<1>4. ASSUME NEW c \in Cycles, TakesUp(c, cycle[c].task)
      PROVE  TypeOK'
    <2>1. cycle[c].task \in Tasks \cup {NoRow}
        BY DEF CycleRows
    <2>2. \A d \in Cycles : cycle[d].task \in Tasks \cup {NoRow}
        BY DEF CycleRows
    <2>3. job' \in [Cycles -> Jobs]
        BY <1>4, <2>2 DEF TakesUp, KeepsOnly
    <2>4. /\ task' \in [Tasks -> TaskRows] /\ cycle' \in [Cycles -> CycleRows]
          /\ running' \subseteq Tasks
        BY <1>4, <2>1, FinalizeTyped, CycleMoved DEF TakesUp, Continued
    <2> QED
        BY <1>1, <1>2, <2>3, <2>4
<1> QED
    BY <1>3, <1>4 DEF Restart

\* Each field of a session's row may be rewritten with a value of its type.
LEMMA SessionUpdates ==
    ASSUME NEW row \in SessionRows
    PROVE  /\ \A x \in SessionStatuses : [row EXCEPT !.status = x] \in SessionRows
           /\ \A x \in Cycles \cup {NoRow} : [row EXCEPT !.current = x] \in SessionRows
           /\ row.started < SessionCycles => [row EXCEPT !.started = @ + 1] \in SessionRows
           /\ row.completed < SessionCycles => [row EXCEPT !.completed = @ + 1] \in SessionRows
           /\ row.success < SessionCycles => [row EXCEPT !.success = @ + 1] \in SessionRows
           /\ row.failed < SessionCycles => [row EXCEPT !.failed = @ + 1] \in SessionRows
BY SettingsAssumption DEF SessionRows

\* The books of one session.
Balanced(row) ==
    /\ row.completed = row.success + row.failed
    /\ row.started = row.completed + (IF row.current = NoRow THEN 0 ELSE 1)
    /\ row.started <= SessionCycles

\* A session that counts its current cycle, as a success or as a failure.
Counted(row) ==
    { [[[row EXCEPT !.completed = @ + 1] EXCEPT !.current = NoRow] EXCEPT !.success = @ + 1],
      [[[row EXCEPT !.completed = @ + 1] EXCEPT !.current = NoRow] EXCEPT !.failed = @ + 1] }

\* Counting one more cycle, as a success or as a failure, keeps a session's
\* counters in balance.
LEMMA CountingBalances ==
    ASSUME NEW row \in SessionRows, Balanced(row), row.current # NoRow, NEW new \in Counted(row)
    PROVE  /\ new \in SessionRows /\ Balanced(new)
           /\ new.current = NoRow /\ new.status = row.status
           /\ \A x \in SessionStatuses : /\ [new EXCEPT !.status = x] \in SessionRows
                                         /\ [new EXCEPT !.status = x].status = x
                                         /\ Balanced([new EXCEPT !.status = x])
                                         /\ [new EXCEPT !.status = x].current = NoRow
<1>1. /\ row.completed \in 0..SessionCycles /\ row.success \in 0..SessionCycles
      /\ row.failed \in 0..SessionCycles /\ row.started \in 0..SessionCycles
      /\ SessionCycles \in Nat
    BY SettingsAssumption DEF SessionRows
<1>2. /\ row.completed + 1 \in 0..SessionCycles
      /\ row.success + 1 \in 0..SessionCycles /\ row.failed + 1 \in 0..SessionCycles
    BY <1>1 DEF Balanced
<1>3. new \in SessionRows
    BY <1>2 DEF Counted, SessionRows
<1>4. /\ new.current = NoRow /\ new.status = row.status
      /\ new.completed = row.completed + 1 /\ new.started = row.started
      /\ \/ new.success = row.success + 1 /\ new.failed = row.failed
         \/ new.success = row.success /\ new.failed = row.failed + 1
    BY DEF Counted, SessionRows
<1>5. Balanced(new)
    BY <1>1, <1>4 DEF Balanced
<1>6. ASSUME NEW x \in SessionStatuses
      PROVE  /\ [new EXCEPT !.status = x] \in SessionRows
             /\ [new EXCEPT !.status = x].status = x
             /\ Balanced([new EXCEPT !.status = x])
             /\ [new EXCEPT !.status = x].current = NoRow
    BY <1>3, <1>4, <1>5 DEF Balanced, SessionRows
<1> QED
    BY <1>3, <1>4, <1>5, <1>6

\* What the loop of a session does to its row: nothing to the books but to count
\* the cycle it follows, or to start one.
LEMMA LoopStep ==
    ASSUME TypeOK, SessionsHold, SessionBooks, NEW s \in Sessions, Loop(s)
    PROVE  /\ loops' \in {loops, loops \ {s}}
           /\ \/ session' = session
              \/ /\ session[s].status = "running"
                 /\ \E row \in SessionRows :
                      /\ session' = [session EXCEPT ![s] = row] /\ Balanced(row)
                      /\ row.status # "absent"
                      /\ \/ row.current \in {NoRow, session[s].current}
                         \/ row.current \in Cycles /\ CreateCycle(row.current)
<1> DEFINE Goal == \E row \in SessionRows :
                     /\ session' = [session EXCEPT ![s] = row] /\ Balanced(row)
                     /\ row.status # "absent"
                     /\ \/ row.current \in {NoRow, session[s].current}
                        \/ row.current \in Cycles /\ CreateCycle(row.current)
<1> DEFINE old == session[s]
<1>1. old \in SessionRows /\ Balanced(old)
    BY DEF TypeOK, SessionBooks, Balanced
<1>2. \A x \in SessionStatuses : /\ [old EXCEPT !.status = x] \in SessionRows
                                 /\ [old EXCEPT !.status = x].status = x
                                 /\ Balanced([old EXCEPT !.status = x])
                                 /\ [old EXCEPT !.status = x].current = old.current
    BY <1>1 DEF SessionRows, Balanced
<1>3. CASE StartNextCycle(s)
    <2>1. old.status = "running" /\ old.current = NoRow
        BY <1>3 DEF StartNextCycle
    <2>2. CASE \E x \in {"completed", "failed"} : SessionEnds(s, [old EXCEPT !.status = x])
        BY <1>2, <2>1, <2>2, Names DEF SessionEnds
    <2>3. ASSUME old.started < SessionCycles, NEW c \in Cycles, CreateCycle(c),
                 session' = [session EXCEPT ![s].current = c, ![s].started = @ + 1]
          PROVE  \E row \in SessionRows :
                   /\ session' = [session EXCEPT ![s] = row] /\ Balanced(row)
                   /\ row.current = c /\ row.status # "absent"
        <3> DEFINE row == [[old EXCEPT !.current = c] EXCEPT !.started = @ + 1]
        <3>1. session' = [session EXCEPT ![s] = row]
            BY <2>3, Zenon
        <3>2. old.started + 1 \in 0..SessionCycles /\ c # NoRow
            BY <1>1, <2>3, SettingsAssumption, RowsAssumption DEF SessionRows, Cycles, NoRow
        <3>3. row \in SessionRows
            BY <1>1, <3>2 DEF SessionRows
        <3>4. /\ row.current = c /\ row.started = old.started + 1 /\ row.status = old.status
              /\ row.completed = old.completed /\ row.success = old.success
              /\ row.failed = old.failed
            BY <1>1 DEF SessionRows
        <3>5. Balanced(row)
            BY <1>1, <2>1, <2>3, <3>2, <3>4, SettingsAssumption DEF Balanced, SessionRows
        <3> QED
            BY <2>1, <3>1, <3>3, <3>4, <3>5
    <2>4. \/ \E x \in {"completed", "failed"} : SessionEnds(s, [old EXCEPT !.status = x])
          \/ /\ old.started < SessionCycles /\ UNCHANGED loops
             /\ \E c \in Cycles :
                  CreateCycle(c)
                  /\ session' = [session EXCEPT ![s].current = c, ![s].started = @ + 1]
        BY <1>3, Zenon DEF StartNextCycle
    <2>5. loops' \in {loops, loops \ {s}}
        BY <2>4 DEF SessionEnds
    <2>6. ASSUME old.started < SessionCycles, NEW c \in Cycles, CreateCycle(c),
                 session' = [session EXCEPT ![s].current = c, ![s].started = @ + 1]
          PROVE  Goal
        <3>1. PICK row \in SessionRows :
                 /\ session' = [session EXCEPT ![s] = row] /\ Balanced(row)
                 /\ row.current = c /\ row.status # "absent"
            BY <2>3, <2>6
        <3>2. row.current \in Cycles /\ CreateCycle(row.current)
            BY <2>6, <3>1
        <3> QED
            BY <3>1, <3>2
    <2>7. CASE Goal
        BY <2>1, <2>5, <2>7
    <2> HIDE DEF Goal
    <2> QED
        BY <2>2, <2>4, <2>6, <2>7
<1>4. CASE FollowCycle(s)
    <2> DEFINE c == old.current
               ended == [old EXCEPT !.completed = @ + 1, !.current = NoRow]
               good == [ended EXCEPT !.success = @ + 1]
               bad == [ended EXCEPT !.failed = @ + 1]
    <2>1. old.status = "running" /\ c # NoRow /\ cycle[c].status \notin Active
        BY <1>4 DEF FollowCycle
    <2>2. cycle[c].status \in {"completed", "failed", "paused", "awaiting"}
        <3>1. c \in Cycles
            BY <1>1, <2>1 DEF SessionRows
        <3>2. cycle[c].status \in CycleStatuses
            BY <3>1 DEF TypeOK, CycleRows
        <3> QED
            BY <2>1, <3>2 DEF CycleStatuses, SessionsHold
    <2>3. good \in Counted(old) /\ bad \in Counted(old)
        BY Zenon DEF Counted
    <2> HIDE DEF ended
    <2>4. \/ SessionEnds(s, [old EXCEPT !.status = "awaiting"])
          \/ SessionEnds(s, [good EXCEPT !.status = "completed"])
          \/ session' = [session EXCEPT ![s] = good] /\ UNCHANGED loops
          \/ SessionEnds(s, [bad EXCEPT !.status = "failed"])
          \/ session' = [session EXCEPT ![s] = bad] /\ UNCHANGED loops
        <3>1. JudgeCycle(s, c)
            BY <1>4 DEF FollowCycle
        <3> QED
            BY <2>2, <3>1, Zenon DEF JudgeCycle, ended
    <2> HIDE DEF good, bad
    <2>5. loops' \in {loops, loops \ {s}}
        BY <2>4 DEF SessionEnds
    <2>6. CASE SessionEnds(s, [old EXCEPT !.status = "awaiting"])
        <3>1. session' = [session EXCEPT ![s] = [old EXCEPT !.status = "awaiting"]]
            BY <2>6 DEF SessionEnds
        <3> QED
            BY <1>2, <2>1, <2>5, <3>1, Names
    <2>7. ASSUME NEW new \in Counted(old),
                 \/ session' = [session EXCEPT ![s] = new]
                 \/ \E x \in {"completed", "failed"} : SessionEnds(s, [new EXCEPT !.status = x])
          PROVE  Goal
        <3>1. PICK row : /\ session' = [session EXCEPT ![s] = row]
                         /\ \/ row = new
                            \/ \E x \in {"completed", "failed"} : row = [new EXCEPT !.status = x]
            BY <2>7 DEF SessionEnds
        <3>2. /\ new \in SessionRows /\ Balanced(new)
              /\ new.current = NoRow /\ new.status = old.status
              /\ \A x \in SessionStatuses : /\ [new EXCEPT !.status = x] \in SessionRows
                                            /\ [new EXCEPT !.status = x].status = x
                                            /\ Balanced([new EXCEPT !.status = x])
                                            /\ [new EXCEPT !.status = x].current = NoRow
            BY <1>1, <2>1, <2>7, CountingBalances, Zenon
        <3>3. row \in SessionRows /\ Balanced(row) /\ row.current = NoRow /\ row.status # "absent"
            <4>1. {"completed", "failed"} \subseteq SessionStatuses
                BY Names
            <4>2. CASE row = new
                BY <2>1, <3>2, <4>2
            <4>3. ASSUME NEW x \in SessionStatuses, row = [new EXCEPT !.status = x]
                  PROVE  row \in SessionRows /\ Balanced(row) /\ row.current = NoRow /\ row.status = x
                BY <3>2, <4>3, Zenon
            <4> QED
                BY <3>1, <4>1, <4>2, <4>3
        <3> QED
            BY <3>1, <3>3
    <2>8. CASE Goal
        BY <2>1, <2>5, <2>8
    <2> HIDE DEF Goal
    <2> QED
        BY <2>3, <2>4, <2>6, <2>7, <2>8
<1>5. CASE LoopReturns(s)
    BY <1>5 DEF LoopReturns, rows
<1> QED
    BY <1>3, <1>4, <1>5, Zenon DEF Loop

\* An iteration of a session's loop keeps every variable in its type.
LEMMA LoopTyped ==
    ASSUME TypeOK, SessionsHold, SessionBooks, NEW s \in Sessions, Loop(s)
    PROVE  TypeOK' /\ SessionBooks'
<1>1. session' \in [Sessions -> SessionRows]
    BY LoopStep DEF TypeOK
<1>2. SessionBooks'
    <2> SUFFICES ASSUME NEW q \in Sessions
                 PROVE  Balanced(session'[q])
        BY DEF SessionBooks, Balanced
    <2>1. Balanced(session[q])
        BY DEF SessionBooks, Balanced
    <2> QED
        BY <2>1, LoopStep DEF TypeOK
<1>3. loops' \subseteq Sessions
    BY LoopStep DEF TypeOK
<1>4. cycle' \in [Cycles -> CycleRows] /\ job' \in [Cycles -> Jobs]
    BY CreatesTyped DEF Loop, StartNextCycle, FollowCycle, LoopReturns, rows, TypeOK
<1>5. UNCHANGED <<settings, task, file, running, autoStart, bounds>>
    BY DEF Loop, StartNextCycle, FollowCycle, LoopReturns, rows
<1> QED
    BY <1>1, <1>2, <1>3, <1>4, <1>5 DEF TypeOK, settings, bounds

-------------------------------------------------------------------------------
(* Steps that create no cycle and no task *)

\* Such a step leaves alone who belongs to whom and what was decided at creation.
QuietCycle(c) ==
    /\ cycle'[c].status = "absent" <=> cycle[c].status = "absent"
    /\ cycle[c].status = "absent" => cycle'[c] = cycle[c] /\ job'[c] = job[c]
    /\ cycle'[c].risk = cycle[c].risk /\ cycle'[c].task = cycle[c].task
    /\ cycle'[c].compact = cycle[c].compact
    /\ cycle'[c].gate = cycle[c].gate /\ cycle'[c].deploy = cycle[c].deploy
    /\ cycle[c].approved => cycle'[c].approved
    /\ cycle'[c].merged => cycle[c].merged \/ cycle[c].deploy

QuietTask(t) ==
    /\ task'[t].status = "absent" <=> task[t].status = "absent"
    /\ task[t].status = "absent" => task'[t] = task[t] /\ file'[t] = file[t]
    /\ task'[t].cycle = task[t].cycle /\ task'[t].kind = task[t].kind
    /\ task'[t].gate = task[t].gate /\ task'[t].deploy = task[t].deploy
    /\ task[t].approved => task'[t].approved
    /\ task'[t].committed
         => task[t].committed \/ Compact(t) \/ (task[t].gate => task[t].approved)
    /\ file'[t] # "absent" => file[t] # "absent" \/ task[t].deploy

QuietJob(c) ==
    /\ job'[c].kind \in {"watching", "merging", "observing"}
         => cycle[c].task # NoRow /\ job'[c].on = cycle[c].task
    /\ job'[c].kind \in {"spawned", "analyzing"} => job[c].kind \in {"spawned", "analyzing"}
    /\ job'[c].kind = "creating" => cycle'[c].approved /\ ~cycle[c].deploy
    /\ job'[c].kind = "merging" => cycle[c].deploy

Quiet ==
    /\ \A c \in Cycles : QuietCycle(c) /\ QuietJob(c)
    /\ \A t \in Tasks : QuietTask(t)
    /\ mode' = mode

Links == RowsInOrder /\ LinksHold /\ GrantsHold /\ GatesHold

\* A step that changes no ownership and no decision of a row keeps the links
\* between cycles, tasks and coroutines.
LEMMA QuietKeepsLinks ==
    ASSUME TypeOK, TypeOK', Links, Quiet
    PROVE  Links'
<1>1. /\ DOMAIN cycle = Cycles /\ DOMAIN cycle' = Cycles
      /\ DOMAIN task = Tasks /\ DOMAIN task' = Tasks
    BY DEF TypeOK
<1>2. RowsInOrder'
    <2>1. Contiguous(cycle')
        BY <1>1, SameRows DEF Links, RowsInOrder, Quiet, QuietCycle
    <2>2. Contiguous(task')
        BY <1>1, SameRows DEF Links, RowsInOrder, Quiet, QuietTask
    <2>3. \A c \in Cycles : cycle'[c].status = "absent" => cycle'[c] = NoCycle /\ job'[c] = Idle
        BY DEF Links, RowsInOrder, Quiet, QuietCycle
    <2>4. \A t \in Tasks : task'[t].status = "absent" => task'[t] = NoTask /\ file'[t] = "absent"
        BY DEF Links, RowsInOrder, Quiet, QuietTask
    <2> QED
        BY <2>1, <2>2, <2>3, <2>4 DEF RowsInOrder, Contiguous
<1>3. LinksHold'
    <2>1. \A t \in Tasks : task[t].cycle # NoRow => task[t].cycle \in Cycles
        BY DEF TypeOK, TaskRows
    <2>2. \A t \in Tasks : task'[t].cycle # NoRow => cycle'[task'[t].cycle].status # "absent"
        BY <2>1 DEF Links, LinksHold, Quiet, QuietCycle, QuietTask
    <2> QED
        BY <2>2 DEF Links, LinksHold, Own, Quiet, QuietCycle, QuietTask, QuietJob
<1>4. GrantsHold'
    <2>1. \A c \in Cycles : Granted(c)' = Granted(c)
        BY DEF Granted, Quiet, QuietCycle
    <2>2. \A t \in Tasks : task[t].cycle # NoRow => task[t].cycle \in Cycles
        BY DEF TypeOK, TaskRows
    <2>3. \A c \in Cycles : /\ cycle'[c].deploy => Granted(c)'
                            /\ cycle'[c].merged => cycle'[c].deploy
        BY <2>1 DEF Links, GrantsHold, Quiet, QuietCycle
    <2>4. \A t \in Tasks : /\ task'[t].deploy /\ task'[t].cycle # NoRow => Granted(task[t].cycle)'
                           /\ file'[t] # "absent" => task'[t].deploy
        BY <2>1, <2>2 DEF Links, GrantsHold, Quiet, QuietTask
    <2> QED
        BY <2>3, <2>4 DEF GrantsHold, Granted, Quiet, QuietTask
<1>5. GatesHold'
    <2>1. \A t \in Tasks : task[t].cycle # NoRow => task[t].cycle \in Cycles
        BY DEF TypeOK, TaskRows
    <2>2. \A t \in Tasks : task[t].cycle # NoRow => Compact(t)' = Compact(t)
        BY <2>1 DEF Compact, Quiet, QuietCycle, QuietTask
    <2> QED
        BY <2>1, <2>2 DEF Links, GatesHold, Quiet, QuietCycle, QuietTask
<1> QED
    BY <1>2, <1>3, <1>4, <1>5 DEF Links

\* Two frames: what a step that leaves tasks alone, or cycles, need not look at.
LEMMA StillTasks ==
    ASSUME TypeOK, UNCHANGED <<task, file>>
    PROVE  \A t \in Tasks : QuietTask(t)
BY DEF QuietTask

\* A step that leaves the cycles alone changes no ownership or decision of one.
LEMMA StillCycles ==
    ASSUME TypeOK, LinksHold, UNCHANGED <<cycle, job>>
    PROVE  \A c \in Cycles : QuietCycle(c) /\ QuietJob(c)
BY DEF QuietCycle, QuietJob, LinksHold

\* A task that gets another status.
LEMMA MovedTask ==
    ASSUME TypeOK, NEW t \in Tasks, task[t].status # "absent",
           NEW x \in TaskStatuses \ {"absent"},
           task' = [task EXCEPT ![t].status = x], file' = file
    PROVE  \A u \in Tasks : QuietTask(u)
BY DEF QuietTask, TypeOK, TaskRows

\* A coroutine that ends, or goes on, in a cycle that is there.
LEMMA StatusAndJob ==
    ASSUME TypeOK, RowsInOrder, LinksHold, NEW c \in Cycles, cycle[c].status # "absent",
           \/ cycle' = cycle
           \/ \E x \in CycleStatuses \ {"absent"} : cycle' = [cycle EXCEPT ![c].status = x],
           \/ job' = job
           \/ job' = [job EXCEPT ![c] = Idle]
           \/ job[c].kind = "watching" /\ cycle[c].deploy
              /\ job' = [job EXCEPT ![c].kind = "merging"]
           \/ job[c].kind = "spawned" /\ job' = [job EXCEPT ![c].kind = "analyzing"]
    PROVE  \A d \in Cycles : QuietCycle(d) /\ QuietJob(d)
<1>1. \A d \in Cycles : QuietCycle(d)
    BY DEF QuietCycle, TypeOK, CycleRows
<1>2. \A d \in Cycles : cycle'[d].approved = cycle[d].approved
    BY DEF TypeOK, CycleRows
<1>3. \A d \in Cycles : QuietJob(d)
    BY <1>2 DEF QuietJob, TypeOK, Jobs, Idle, LinksHold
<1> QED
    BY <1>1, <1>3

\* A background run changes no ownership or decision.
LEMMA RunIsQuiet ==
    ASSUME TypeOK, LinksHold, NEW t \in Tasks, Run(t)
    PROVE  Quiet
<1>1. /\ UNCHANGED <<cycle, job, mode>>
    BY DEF Run, RunStops, RunWorks, Publish, Deploy, Finish, settings, rows, coroutines
<1>2. \A u \in Tasks : QuietTask(u)
    <2> USE Names
    <2>1. CASE RunStops(t)
        BY <2>1, StillTasks DEF RunStops, rows
    <2>2. CASE RunWorks(t)
        BY <2>2, MovedTask DEF RunWorks, Runs, Stops
    <2>3. CASE Publish(t)
        <3>1. task[t] \in TaskRows
            BY DEF TypeOK
        <3>2. task' = [task EXCEPT ![t] =
                     [[task[t] EXCEPT !.status = "pr_created"] EXCEPT !.committed = TRUE]]
            BY <2>3, Zenon DEF Publish
        <3>3. \A u \in Tasks \ {t} : task'[u] = task[u]
            BY <3>2 DEF TypeOK
        <3>4. /\ task'[t].status = "pr_created" /\ task'[t].cycle = task[t].cycle
              /\ task'[t].kind = task[t].kind /\ task'[t].gate = task[t].gate
              /\ task'[t].deploy = task[t].deploy /\ task'[t].approved = task[t].approved
            BY <3>1, <3>2 DEF TypeOK, TaskRows
        <3>5. /\ task[t].status = "working" /\ (task[t].gate /\ ~Compact(t) => task[t].approved)
              /\ file' = file
            BY <2>3 DEF Publish
        <3> QED
            BY <3>3, <3>4, <3>5 DEF QuietTask
    <2>4. CASE Deploy(t)
        <3>1. task[t].status = "pr_created" /\ task[t].deploy
            BY <2>4 DEF Deploy
        <3>2. \/ task' = task
              \/ \E x \in {"self_updating", "failed"} : task' = [task EXCEPT ![t].status = x]
            BY <2>4 DEF Deploy, Stops
        <3>3. \A u \in Tasks \ {t} : file'[u] = file[u]
            BY <2>4 DEF Deploy, TypeOK
        <3> QED
            BY <3>1, <3>2, <3>3 DEF QuietTask, TypeOK, TaskRows
    <2>5. CASE Finish(t)
        <3>1. task[t] \in TaskRows
            BY DEF TypeOK
        <3>2. \/ Stops(t, "done")
              \/ task' = [task EXCEPT ![t] =
                         [[task[t] EXCEPT !.status = "failed"] EXCEPT !.failedQA = TRUE]]
            BY <2>5, Zenon DEF Finish
        <3>3. \A u \in Tasks \ {t} : task'[u] = task[u]
            BY <3>2 DEF TypeOK, Stops
        <3>4. /\ task'[t].status \in {"done", "failed"} /\ task'[t].cycle = task[t].cycle
              /\ task'[t].kind = task[t].kind /\ task'[t].gate = task[t].gate
              /\ task'[t].deploy = task[t].deploy /\ task'[t].approved = task[t].approved
              /\ task'[t].committed = task[t].committed
            <4>1. CASE task' = [task EXCEPT ![t].status = "done"]
                BY <3>1, <4>1 DEF TypeOK, TaskRows
            <4>2. CASE task' = [task EXCEPT ![t] =
                         [[task[t] EXCEPT !.status = "failed"] EXCEPT !.failedQA = TRUE]]
                BY <3>1, <4>2 DEF TypeOK, TaskRows
            <4> QED
                BY <3>2, <4>1, <4>2, Zenon DEF Stops
        <3>5. task[t].status # "absent" /\ file' = file
            BY <2>5 DEF Finish
        <3> QED
            BY <3>3, <3>4, <3>5 DEF QuietTask
    <2> QED
        BY <2>1, <2>2, <2>3, <2>4, <2>5 DEF Run
<1> QED
    BY <1>1, <1>2, StillCycles DEF Quiet

\* Nor does the watchdog.
LEMMA WatchdogIsQuiet ==
    ASSUME TypeOK, RowsInOrder, LinksHold, NEW t \in Tasks, Watchdog(t)
    PROVE  Quiet
<1>1. UNCHANGED <<cycle, job, mode, task>>
    BY DEF Watchdog, settings, coroutines
<1>2. file[t] # "absent" /\ \A u \in Tasks \ {t} : file'[u] = file[u]
    BY DEF Watchdog, WatchdogStep, TypeOK
<1>3. \A u \in Tasks : QuietTask(u)
    <2>1. task[t].status # "absent"
        BY <1>2 DEF RowsInOrder
    <2> QED
        BY <1>1, <1>2, <2>1 DEF QuietTask
<1> QED
    BY <1>1, <1>3, StillCycles DEF Quiet

\* Whoever approves a task changes nothing else about it.
LEMMA ApprovedTask ==
    ASSUME TypeOK, NEW t \in Tasks, task[t].status # "absent",
           task' = [task EXCEPT ![t].approved = TRUE], file' = file
    PROVE  \A u \in Tasks : QuietTask(u)
<1>1. task[t] \in TaskRows
    BY DEF TypeOK
<1>2. task' = [task EXCEPT ![t] = [task[t] EXCEPT !.approved = TRUE]]
    BY Zenon
<1>3. \A u \in Tasks \ {t} : task'[u] = task[u]
    BY <1>2 DEF TypeOK
<1>4. /\ task'[t].status = task[t].status /\ task'[t].cycle = task[t].cycle
      /\ task'[t].kind = task[t].kind /\ task'[t].gate = task[t].gate
      /\ task'[t].deploy = task[t].deploy /\ task'[t].approved
      /\ task'[t].committed = task[t].committed
    BY <1>1, <1>2 DEF TypeOK, TaskRows
<1> QED
    BY <1>3, <1>4 DEF QuietTask

\* Nor do the operator's handlers that create no cycle.
LEMMA OperatorIsQuiet ==
    ASSUME TypeOK, TypeOK', RowsInOrder, LinksHold,
           StopCycle \/ StopSession \/ (\E c \in Cycles : ApproveCycle(c))
             \/ (\E t \in Tasks : DecideTask(t) \/ RestartFromQA(t))
    PROVE  Quiet
<1> USE Names
<1>1. CASE StopCycle
    <2>1. PICK c \in Cycles : /\ cycle[c].status \in Active
                              /\ cycle' = [cycle EXCEPT ![c].status = "paused"]
        BY <1>1 DEF StopCycle, LatestActive, ActiveCycles
    <2>2. UNCHANGED <<job, task, file, mode>>
        BY <1>1 DEF StopCycle, coroutines, settings
    <2>3. cycle[c].status # "absent"
        BY <2>1 DEF Active
    <2> QED
        BY <2>1, <2>2, <2>3, StatusAndJob, StillTasks DEF Quiet
<1>2. CASE StopSession
    <2>1. PICK s \in Sessions : cycle' = [c \in Cycles |->
                 IF c = session[s].current /\ c \in ActiveCycles
                 THEN [cycle[c] EXCEPT !.status = "paused"] ELSE cycle[c]]
        BY <1>2 DEF StopSession, ActiveSessions
    <2>2. UNCHANGED <<job, task, file, mode>>
        BY <1>2 DEF StopSession, coroutines, settings
    <2>3. \A c \in Cycles : cycle[c].status = "absent" => c \notin ActiveCycles
        BY DEF ActiveCycles, Active
    <2>4. \A c \in Cycles : cycle'[c].approved = cycle[c].approved
        BY <2>1 DEF TypeOK, CycleRows
    <2>5. \A c \in Cycles : QuietCycle(c)
        BY <2>1, <2>2, <2>3 DEF QuietCycle, TypeOK, CycleRows
    <2>6. \A c \in Cycles : QuietJob(c)
        BY <2>2, <2>4 DEF QuietJob, LinksHold
    <2> QED
        BY <2>2, <2>5, <2>6, StillTasks DEF Quiet
<1>3. ASSUME NEW c \in Cycles, ApproveCycle(c)
      PROVE  Quiet
    <2>1. cycle[c] \in CycleRows /\ cycle[c].status = "awaiting"
        BY <1>3 DEF ApproveCycle, TypeOK
    <2>2. cycle' = [cycle EXCEPT ![c] =
                     [[cycle[c] EXCEPT !.status = "implementing"] EXCEPT !.approved = TRUE]]
        BY <1>3, Zenon DEF ApproveCycle
    <2>3. UNCHANGED <<file, mode>>
        BY <1>3 DEF ApproveCycle, settings
    <2>4. \A d \in Cycles \ {c} : cycle'[d] = cycle[d] /\ job'[d] = job[d]
        BY <1>3, <2>2 DEF ApproveCycle, TypeOK
    <2>5. /\ cycle'[c].status = "implementing" /\ cycle'[c].risk = cycle[c].risk
          /\ cycle'[c].compact = cycle[c].compact
          /\ cycle'[c].task = cycle[c].task /\ cycle'[c].gate = cycle[c].gate
          /\ cycle'[c].deploy = cycle[c].deploy /\ cycle'[c].approved
          /\ cycle'[c].merged = cycle[c].merged
        BY <2>1, <2>2 DEF TypeOK, CycleRows
    <2>6. \A d \in Cycles : QuietCycle(d)
        BY <2>1, <2>4, <2>5 DEF QuietCycle
    <2>7. CASE cycle[c].task # NoRow
        <3>1. cycle[c].task \in Tasks
            BY <2>1, <2>7 DEF CycleRows
        <3>2. task[cycle[c].task].cycle = c
            BY <2>7 DEF LinksHold, Own
        <3>3. task[cycle[c].task].status # "absent"
            BY <3>1, <3>2, RowsAssumption DEF RowsInOrder, NoTask, NoRow, Cycles
        <3>4. /\ task' = [task EXCEPT ![cycle[c].task].approved = TRUE] /\ job' = job
            BY <1>3, <2>7 DEF ApproveCycle
        <3>5. \A d \in Cycles : QuietJob(d)
            BY <2>4, <2>5, <3>4 DEF QuietJob, LinksHold
        <3> QED
            BY <2>3, <2>6, <3>1, <3>3, <3>4, <3>5, ApprovedTask DEF Quiet
    <2>8. CASE cycle[c].task = NoRow
        <3>1. task' = task /\ job' = [job EXCEPT ![c] = [kind |-> "creating", on |-> NoRow]]
            BY <1>3, <2>8 DEF ApproveCycle
        <3>2. \A d \in Cycles \ {c} : QuietJob(d)
            BY <2>4 DEF QuietJob, LinksHold
        <3>3. job'[c].kind = "creating"
            BY <3>1 DEF TypeOK
        <3>4. QuietJob(c)
            BY <2>5, <2>8, <3>3 DEF QuietJob, LinksHold
        <3> QED
            BY <2>3, <2>6, <3>1, <3>2, <3>4, StillTasks DEF Quiet
    <2> QED
        BY <2>7, <2>8
<1>4. ASSUME NEW t \in Tasks, DecideTask(t) \/ RestartFromQA(t)
      PROVE  Quiet
    <2>1. UNCHANGED <<cycle, job, file, mode>>
        BY <1>4 DEF DecideTask, RestartFromQA, settings
    <2>2. /\ task[t].status # "absent"
          /\ \/ task' = [task EXCEPT ![t].approved = TRUE]
             \/ \E x \in TaskStatuses \ {"absent"} : task' = [task EXCEPT ![t].status = x]
        <3>1. "failed" # "absent" /\ "staged" # "absent" /\ {"failed", "staged"} \subseteq TaskStatuses
            OBVIOUS
        <3>2. task[t].status \in {"gated", "self_updating"}
            BY <1>4 DEF DecideTask, RestartFromQA
        <3> QED
            BY <1>4, <3>1, <3>2, Zenon DEF DecideTask, RestartFromQA
    <2>3. \A u \in Tasks : QuietTask(u)
        BY <2>1, <2>2, ApprovedTask, MovedTask
    <2> QED
        BY <2>1, <2>3, StillCycles DEF Quiet
<1> QED
    BY <1>1, <1>2, <1>3, <1>4

\* The outcome of a self-update changes a status, an incident and the task's status.
LEMMA FinalizeIsQuiet ==
    ASSUME TypeOK, RowsInOrder, NEW c \in Cycles, NEW t \in Tasks,
           task[t].status # "absent", cycle[c].status # "absent",
           Finalize(c, t), file' = file,
           \A d \in Cycles : cycle[d].status = "absent" => job'[d] = job[d]
    PROVE  /\ \A u \in Tasks : QuietTask(u)
           /\ \A d \in Cycles : QuietCycle(d) /\ cycle'[d].approved = cycle[d].approved
<1>1. \A u \in Tasks : QuietTask(u)
    <2>1. task' = [task EXCEPT ![t].status = IF file[t] = "healthy" THEN "staged" ELSE "failed"]
        BY Zenon DEF Finalize, TaskAfter
    <2>2. (IF file[t] = "healthy" THEN "staged" ELSE "failed") \in TaskStatuses \ {"absent"}
        BY Names
    <2> QED
        BY <2>1, <2>2, MovedTask
<1>2. cycle' = [cycle EXCEPT ![c] = CycleAfter(c, file[t])]
    BY DEF Finalize
<1>3. LET row == CycleAfter(c, file[t]) IN
      /\ row.status # "absent" /\ row.risk = cycle[c].risk /\ row.task = cycle[c].task
      /\ row.compact = cycle[c].compact
      /\ row.gate = cycle[c].gate /\ row.deploy = cycle[c].deploy
      /\ row.approved = cycle[c].approved /\ row.merged = cycle[c].merged
    BY DEF CycleAfter, UpdateRollbackStatus, CreateIncident, TypeOK, CycleRows
<1>4. /\ cycle'[c] = CycleAfter(c, file[t])
      /\ \A d \in Cycles \ {c} : cycle'[d] = cycle[d]
    BY <1>2 DEF TypeOK
<1>5. \A d \in Cycles : QuietCycle(d) /\ cycle'[d].approved = cycle[d].approved
    BY <1>3, <1>4 DEF QuietCycle
<1> QED
    BY <1>1, <1>5

\* A row with a coroutine is there.
LEMMA BusyIsThere ==
    ASSUME RowsInOrder, NEW c \in Cycles, job[c].kind # "none"
    PROVE  cycle[c].status # "absent"
BY DEF RowsInOrder, Idle

\* The task a cycle is about is there, and so is the cycle.
LEMMA OwnIsThere ==
    ASSUME RowsInOrder, LinksHold, NEW c \in Cycles, cycle[c].task # NoRow
    PROVE  /\ cycle[c].task \in Tasks /\ task[cycle[c].task].status # "absent"
           /\ task[cycle[c].task].cycle = c /\ cycle[c].status # "absent"
<1>1. cycle[c].task \in Tasks /\ task[cycle[c].task].cycle = c
    BY DEF LinksHold, Own
<1>2. task[cycle[c].task].status # "absent"
    BY <1>1, RowsAssumption DEF RowsInOrder, NoTask, NoRow, Cycles
<1>3. cycle[c].status # "absent"
    BY DEF RowsInOrder, NoCycle
<1> QED
    BY <1>1, <1>2, <1>3

QuietPipeline(c) ==
    \/ BeginAnalysis(c) \/ PollMirrors(c) \/ PollSucceeds(c) \/ Merge(c)
    \/ PollFindsUpdateOver(c) \/ Deadline(c) \/ Observe(c)

\* Nor do the steps of a cycle's coroutine that create no task.
LEMMA PipelineIsQuiet ==
    ASSUME TypeOK, TypeOK', RowsInOrder, LinksHold, NEW c \in Cycles, QuietPipeline(c)
    PROVE  Quiet
<1> USE Names
<1>1. job[c].kind # "none" /\ cycle[c].status # "absent"
    <2>1. job[c].kind # "none"
        <3>1. \A t \in Tasks : Watches(c, t) => job[c].kind = "watching"
            BY DEF Watches
        <3>2. (\E t \in Tasks : Watches(c, t))
              \/ job[c].kind \in {"spawned", "merging", "watching", "observing"}
            BY DEF QuietPipeline, BeginAnalysis, PollMirrors, PollSucceeds, Merge,
                   PollFindsUpdateOver, Deadline, Observe
        <3> QED
            BY <3>1, <3>2
    <2> QED
        BY <2>1, BusyIsThere
<1>2. mode' = mode /\ file' = file
    BY DEF QuietPipeline, BeginAnalysis, PollMirrors, PollSucceeds, Merge,
           PollFindsUpdateOver, Deadline, Observe, settings, rows
<1>3. CASE BeginAnalysis(c)
    BY <1>1, <1>2, <1>3, StatusAndJob, StillTasks DEF BeginAnalysis, Quiet
<1>4. CASE PollMirrors(c)
    <2>1. cycle[c].status \in CycleStatuses
        BY DEF TypeOK, CycleRows
    <2>2. \A t \in Tasks : Mirror(t, c) \in CycleStatuses \ {"absent"}
        BY <1>1, <2>1 DEF Mirror
    <2> QED
        BY <1>1, <1>2, <1>4, <2>2, StatusAndJob, StillTasks DEF PollMirrors, coroutines, Quiet
<1>5. CASE PollSucceeds(c)
    <2>1. job[c].kind = "watching" /\ UNCHANGED <<task, file>>
        BY <1>5 DEF PollSucceeds, Watches
    <2>2. \/ cycle[c].deploy /\ cycle' = cycle /\ job' = [job EXCEPT ![c].kind = "merging"]
          \/ /\ cycle' = [cycle EXCEPT ![c].status = "completed"]
             /\ job' = [job EXCEPT ![c] = Idle]
        BY <1>5 DEF PollSucceeds
    <2> QED
        BY <1>1, <1>2, <2>1, <2>2, StatusAndJob, StillTasks DEF Quiet
<1>6. CASE Merge(c)
    <2>1. PICK merged \in BOOLEAN :
             cycle' = [cycle EXCEPT ![c] =
                 [[cycle[c] EXCEPT !.status = IF merged THEN "completed" ELSE "failed"]
                           EXCEPT !.merged = merged]]
        BY <1>6, Zenon DEF Merge
    <2>2. job' = [job EXCEPT ![c] = Idle] /\ task' = task /\ cycle[c].deploy
        BY <1>6 DEF Merge, LinksHold
    <2>3. \A d \in Cycles \ {c} : cycle'[d] = cycle[d] /\ job'[d] = job[d]
        BY <2>1, <2>2 DEF TypeOK
    <2>4. cycle[c] \in CycleRows
        BY DEF TypeOK
    <2>5. /\ cycle'[c].status # "absent" /\ cycle'[c].risk = cycle[c].risk
          /\ cycle'[c].compact = cycle[c].compact
          /\ cycle'[c].task = cycle[c].task /\ cycle'[c].gate = cycle[c].gate
          /\ cycle'[c].deploy = cycle[c].deploy /\ cycle'[c].approved = cycle[c].approved
        BY <2>1, <2>4 DEF TypeOK, CycleRows
    <2>6. \A d \in Cycles : QuietCycle(d)
        BY <1>1, <2>2, <2>3, <2>5 DEF QuietCycle
    <2>7. job'[c] = Idle
        BY <2>2 DEF TypeOK
    <2>8. \A d \in Cycles : QuietJob(d)
        BY <2>3, <2>7 DEF QuietJob, LinksHold, Idle
    <2> QED
        BY <1>2, <2>2, <2>6, <2>8, StillTasks DEF Quiet
<1>7. ASSUME NEW t \in Tasks, t = job[c].on, job[c].kind \in {"watching", "observing"},
             Finalize(c, t), job' = [job EXCEPT ![c] = Idle]
      PROVE  Quiet
    <2>1. cycle[c].task = t /\ task[t].status # "absent"
        BY <1>7, OwnIsThere DEF LinksHold
    <2>2. \A d \in Cycles \ {c} : job'[d] = job[d]
        BY <1>7 DEF TypeOK
    <2>3. /\ \A u \in Tasks : QuietTask(u)
          /\ \A d \in Cycles : QuietCycle(d) /\ cycle'[d].approved = cycle[d].approved
        BY <1>1, <1>2, <1>7, <2>1, <2>2, FinalizeIsQuiet
    <2>4. job'[c] = Idle
        BY <1>7 DEF TypeOK
    <2>5. \A d \in Cycles : QuietJob(d)
        BY <2>2, <2>3, <2>4 DEF QuietJob, LinksHold, Idle
    <2> QED
        BY <1>2, <2>3, <2>5 DEF Quiet
<1>8. CASE PollFindsUpdateOver(c)
    BY <1>7, <1>8 DEF PollFindsUpdateOver, Watches
<1>9. CASE Deadline(c)
    BY <1>1, <1>2, <1>9, StatusAndJob, StillTasks DEF Deadline, Quiet
<1>10. CASE Observe(c)
    <2>1. job[c].on \in Tasks
        BY <1>10, OwnIsThere DEF Observe, LinksHold
    <2> QED
        BY <1>7, <1>10, <2>1 DEF Observe
<1> QED
    BY <1>3, <1>4, <1>5, <1>6, <1>8, <1>9, <1>10 DEF QuietPipeline

\* Nor does a restart.
LEMMA RestartIsQuiet ==
    ASSUME TypeOK, TypeOK', RowsInOrder, LinksHold, Restart
    PROVE  Quiet
<1> USE Names
<1>1. mode' = mode /\ file' = file
    BY DEF Restart, settings
<1>2. ASSUME NEW observed \in SUBSET Cycles, KeepsOnly(observed),
             \A c \in observed : cycle[c].task # NoRow
      PROVE  /\ \A d \in Cycles : QuietJob(d)
             /\ \A d \in Cycles : cycle[d].status = "absent" => job'[d] = job[d]
    <2>1. \A d \in Cycles : job'[d] = Idle \/ (job'[d].kind = "observing" /\ cycle[d].task # NoRow
                                               /\ job'[d].on = cycle[d].task)
        BY <1>2 DEF KeepsOnly
    <2>2. \A d \in Cycles : cycle[d].status = "absent" => job[d] = Idle /\ cycle[d].task = NoRow
        BY DEF RowsInOrder, NoCycle
    <2> QED
        BY <2>1, <2>2 DEF QuietJob, Idle
<1>3. CASE KeepsOnly({}) /\ UNCHANGED <<cycle, task>>
    BY <1>1, <1>2, <1>3, StillTasks DEF Quiet, QuietCycle
<1>4. ASSUME NEW c \in Cycles, LatestActive(c), TakesUp(c, cycle[c].task)
      PROVE  Quiet
    <2>1. cycle[c].status # "absent"
        BY <1>4 DEF LatestActive, ActiveCycles, Active
    <2>2. CASE cycle[c].task # NoRow /\ KeepsOnly({c}) /\ UNCHANGED <<cycle, task>>
        BY <1>1, <1>2, <2>2, StillTasks DEF Quiet, QuietCycle
    <2>3. CASE cycle[c].task # NoRow /\ KeepsOnly({}) /\ Finalize(c, cycle[c].task)
        <3>1. cycle[c].task \in Tasks /\ task[cycle[c].task].status # "absent"
            BY <2>3, OwnIsThere
        <3>2. \A d \in Cycles : QuietJob(d) /\ (cycle[d].status = "absent" => job'[d] = job[d])
            BY <1>2, <2>3
        <3> QED
            BY <1>1, <2>1, <2>3, <3>1, <3>2, FinalizeIsQuiet DEF Quiet
    <2>4. CASE KeepsOnly({}) /\ cycle' = [cycle EXCEPT ![c].status = "failed"] /\ task' = task
        <3>1. \A d \in Cycles : QuietJob(d) /\ (cycle[d].status = "absent" => job'[d] = job[d])
            BY <1>2, <2>4
        <3>2. \A d \in Cycles : QuietCycle(d)
            BY <2>1, <2>4, <3>1 DEF QuietCycle, TypeOK, CycleRows
        <3> QED
            BY <1>1, <2>4, <3>1, <3>2, StillTasks DEF Quiet
    <2> QED
        BY <1>4, <2>2, <2>3, <2>4, Zenon DEF TakesUp
<1> QED
    BY <1>3, <1>4, Zenon DEF Restart

-------------------------------------------------------------------------------
(* Steps that create a cycle or a task *)

\* A new cycle owns nothing yet, so the links stay.
LEMMA CreateCycleKeepsLinks ==
    ASSUME TypeOK, TypeOK', Links, NEW c \in Cycles, CreateCycle(c), UNCHANGED <<task, file, mode>>
    PROVE  Links' /\ cycle[c].status = "absent" /\ cycle'[c].status # "absent"
           /\ \A d \in Cycles \ {c} : cycle'[d] = cycle[d]
<1>1. /\ cycle[c].status = "absent"
      /\ \A other : DOMAIN other = Cycles /\ other[c].status # "absent"
            /\ (\A q \in Cycles \ {c} : other[q].status = "absent" <=> cycle[q].status = "absent")
            => Contiguous(other)
    <2>1. Contiguous(cycle) /\ DOMAIN cycle = Cycles /\ IsNext(c, cycle)
        BY DEF CreateCycle, Links, RowsInOrder, TypeOK
    <2> QED
        BY <2>1, NextRow
<1>2. cycle[c] = NoCycle /\ job[c] = Idle /\ \A t \in Tasks : task[t].cycle # c
    <2>1. c # NoRow
        BY RowsAssumption DEF Cycles, NoRow
    <2> QED
        BY <1>1, <2>1 DEF Links, RowsInOrder, LinksHold
<1>3. \A d \in Cycles \ {c} : cycle'[d] = cycle[d] /\ job'[d] = job[d]
    BY DEF CreateCycle, TypeOK
<1>4. /\ cycle'[c].status = "analyzing" /\ cycle'[c].task = NoRow /\ ~cycle'[c].deploy
      /\ ~cycle'[c].merged
    <2>1. cycle' = [cycle EXCEPT ![c] = [NoCycle EXCEPT !.status = "analyzing"]]
        BY <1>2 DEF CreateCycle
    <2>2. cycle'[c] = [NoCycle EXCEPT !.status = "analyzing"]
        BY <2>1 DEF TypeOK
    <2> QED
        BY <2>2 DEF NoCycle
<1>5. job'[c].kind = "spawned"
    BY DEF CreateCycle, TypeOK
<1>6. RowsInOrder'
    <2>1. Contiguous(cycle')
        <3>1. DOMAIN cycle' = Cycles
            BY DEF TypeOK
        <3> QED
            BY <1>1, <1>3, <1>4, <3>1
    <2>2. Contiguous(task')
        BY DEF Links, RowsInOrder
    <2> QED
        BY <1>3, <1>4, <2>1, <2>2 DEF Links, RowsInOrder, Contiguous
<1>7. LinksHold'
    <2>1. \A t \in Tasks : task[t].cycle # NoRow => task[t].cycle \in Cycles \ {c}
        BY <1>2 DEF TypeOK, TaskRows
    <2>2. \A d \in Cycles : cycle'[d].task # NoRow => Own(d, cycle[d].task)'
        BY <1>3, <1>4 DEF Links, LinksHold, Own
    <2>3. \A t \in Tasks : task'[t].cycle # NoRow => cycle'[task'[t].cycle].status # "absent"
        BY <1>3, <2>1 DEF Links, LinksHold
    <2> QED
        BY <1>2, <1>3, <1>4, <1>5, <2>2, <2>3 DEF Links, LinksHold
<1>8. GrantsHold'
    <2>1. \A t \in Tasks : task[t].cycle # NoRow => task[t].cycle \in Cycles \ {c}
        BY <1>2 DEF TypeOK, TaskRows
    <2>2. \A d \in Cycles \ {c} : Granted(d)' = Granted(d)
        BY <1>3 DEF Granted
    <2>3. \A d \in Cycles : /\ cycle'[d].deploy => Granted(d)'
                            /\ cycle'[d].merged => cycle'[d].deploy
        BY <1>3, <1>4, <2>2 DEF Links, GrantsHold
    <2>4. \A t \in Tasks : /\ task'[t].deploy /\ task'[t].cycle # NoRow => Granted(task[t].cycle)'
                           /\ file'[t] # "absent" => task'[t].deploy
        BY <2>1, <2>2 DEF Links, GrantsHold
    <2> QED
        BY <2>3, <2>4 DEF GrantsHold, Granted
<1>9. GatesHold'
    <2>1. \A t \in Tasks : task[t].cycle # NoRow => task[t].cycle \in Cycles \ {c}
        BY <1>2 DEF TypeOK, TaskRows
    <2> QED
        BY <1>3, <1>4, <2>1 DEF Links, GatesHold, Compact
<1> QED
    BY <1>1, <1>3, <1>4, <1>6, <1>7, <1>8, <1>9 DEF Links

\* A new row of a cycle, and a new task in it: what they have to agree on.
LEMMA NewTaskKeepsLinks ==
    ASSUME TypeOK, TypeOK', Links, UNCHANGED <<file, mode>>,
           NEW c \in Cycles, cycle[c].status # "absent",
           NEW t \in Tasks, IsNext(t, task), NEW kind \in Kinds,
           NEW deploy \in BOOLEAN, NEW gate \in BOOLEAN,
           task' = [task EXCEPT ![t] = NewTask(c, kind, deploy, gate)],
           \A d \in Cycles \ {c} : cycle'[d] = cycle[d] /\ job'[d] = job[d],
           cycle'[c].status # "absent",
           \/ cycle'[c].task = cycle[c].task /\ job'[c] = Idle
           \/ cycle'[c].task = t /\ kind = "work" /\ job'[c] = [kind |-> "watching", on |-> t],
           \/ cycle'[c].risk = cycle[c].risk /\ cycle'[c].compact = cycle[c].compact
           \/ \A u \in Tasks : task[u].cycle # c,
           deploy \/ cycle'[c].deploy => Granted(c)',
           cycle'[c].deploy => cycle'[c].task # NoRow,
           cycle'[c].merged => cycle'[c].deploy,
           cycle[c].approved => cycle'[c].approved,
           kind = "work" /\ cycle'[c].risk \in Risky => gate \/ cycle'[c].approved,
           cycle'[c].task # NoRow /\ cycle'[c].risk \in Risky
             => cycle'[c].gate \/ cycle'[c].approved
    PROVE  Links'
<1>1. /\ task[t].status = "absent"
      /\ \A other : DOMAIN other = Tasks /\ other[t].status # "absent"
            /\ (\A q \in Tasks \ {t} : other[q].status = "absent" <=> task[q].status = "absent")
            => Contiguous(other)
    <2>1. Contiguous(task) /\ DOMAIN task = Tasks
        BY DEF Links, RowsInOrder, TypeOK
    <2> QED
        BY <2>1, NextRow
<1>2. task[t] = NoTask /\ file[t] = "absent" /\ c # NoRow /\ t # NoRow
    BY <1>1, RowsAssumption DEF Links, RowsInOrder, Cycles, Tasks, NoRow
<1>3. /\ \A u \in Tasks \ {t} : task'[u] = task[u]
      /\ task'[t].status = "new" /\ task'[t].cycle = c /\ task'[t].kind = kind
      /\ task'[t].deploy = deploy /\ task'[t].gate = gate /\ ~task'[t].committed
    <2>1. task'[t] = NewTask(c, kind, deploy, gate)
        BY DEF TypeOK
    <2>2. \A u \in Tasks \ {t} : task'[u] = task[u]
        BY DEF TypeOK
    <2>4. task'[t] = [status |-> "new", cycle |-> c, kind |-> kind, deploy |-> deploy,
                      gate |-> gate, approved |-> FALSE, committed |-> FALSE, failedQA |-> FALSE]
        BY <2>1, Zenon DEF NewTask
    <2> QED
        BY <2>2, <2>4
<1>4. \A u \in Tasks : task[u].cycle # NoRow => task[u].cycle \in Cycles
    BY DEF TypeOK, TaskRows
<1>5. task[t].cycle = NoRow
    BY <1>2 DEF NoTask
<1>6. RowsInOrder'
    <2>1. Contiguous(task')
        <3>1. DOMAIN task' = Tasks
            BY DEF TypeOK
        <3> QED
            BY <1>1, <1>3, <3>1
    <2>2. Contiguous(cycle')
        <3>1. DOMAIN cycle = Cycles /\ DOMAIN cycle' = Cycles
            BY DEF TypeOK
        <3> QED
            BY <3>1, SameRows DEF Links, RowsInOrder
    <2> QED
        BY <1>3, <2>1, <2>2 DEF Links, RowsInOrder, Contiguous
<1>7. LinksHold'
    <2>1. \A d \in Cycles : cycle[d].task # NoRow => cycle[d].task # t
        BY <1>2, RowsAssumption DEF Links, LinksHold, Own, NoTask, Cycles, NoRow
    <2>2. \A d \in Cycles : cycle'[d].task # NoRow => Own(d, cycle[d].task)'
        BY <1>3, <2>1 DEF Links, LinksHold, Own
    <2>3. \A u \in Tasks : task'[u].cycle # NoRow => cycle'[task'[u].cycle].status # "absent"
        BY <1>3, <1>4 DEF Links, LinksHold
    <2>4. \A d \in Cycles \ {c} :
             job[d].kind \in {"spawned", "analyzing"} => \A u \in Tasks : task'[u].cycle # d
        BY <1>3 DEF Links, LinksHold
    <2>5. job'[c].kind \in {"none", "watching"} /\ (job'[c].kind = "watching" =>
             cycle'[c].task # NoRow /\ job'[c].on = cycle'[c].task)
        BY <1>2 DEF Idle
    <2> QED
        BY <2>2, <2>3, <2>4, <2>5 DEF Links, LinksHold
<1>8. GrantsHold'
    <2>1. \A d \in Cycles \ {c} : Granted(d)' = Granted(d)
        BY DEF Granted
    <2>2. \A u \in Tasks \ {t} : task[u].cycle = c => Granted(c)' = Granted(c)
        BY DEF Granted
    <2>3. \A d \in Cycles : /\ cycle'[d].deploy => Granted(d)'
                            /\ cycle'[d].merged => cycle'[d].deploy
        BY <2>1 DEF Links, GrantsHold
    <2>4. \A u \in Tasks : /\ task'[u].deploy /\ task'[u].cycle # NoRow => Granted(task[u].cycle)'
                           /\ file'[u] # "absent" => task'[u].deploy
        BY <1>2, <1>3, <1>4, <2>1, <2>2 DEF Links, GrantsHold
    <2> QED
        BY <2>3, <2>4 DEF GrantsHold, Granted
<1>9. GatesHold'
    <2>1. \A u \in Tasks \ {t} : task[u].cycle # NoRow =>
             /\ cycle'[task[u].cycle].risk = cycle[task[u].cycle].risk
             /\ cycle'[task[u].cycle].compact = cycle[task[u].cycle].compact
             /\ cycle[task[u].cycle].approved => cycle'[task[u].cycle].approved
        BY <1>4
    <2>2. \A d \in Cycles : cycle'[d].task # NoRow /\ cycle'[d].risk \in Risky
             => cycle'[d].gate \/ cycle'[d].approved
        BY DEF Links, GatesHold
    <2> QED
        BY <1>3, <2>1, <2>2 DEF Links, GatesHold, Compact
<1> QED
    BY <1>6, <1>7, <1>8, <1>9 DEF Links

\* The row and the coroutine of a cycle once its task is created.
LEMMA CreatedRow ==
    ASSUME TypeOK, NEW c \in Cycles, NEW t \in Tasks, NEW row \in CycleRows,
           NEW gate \in BOOLEAN, NEW deploy \in BOOLEAN,
           CreateAndStart(c, t, row, gate, deploy)
    PROVE  /\ cycle'[c].status = row.status /\ cycle'[c].risk = row.risk
           /\ cycle'[c].compact = row.compact
           /\ cycle'[c].task = t /\ cycle'[c].gate = gate /\ cycle'[c].deploy = deploy
           /\ cycle'[c].approved = row.approved /\ cycle'[c].merged = row.merged
           /\ cycle'[c].incident = row.incident
           /\ job'[c] = [kind |-> "watching", on |-> t]
           /\ \A d \in Cycles \ {c} : cycle'[d] = cycle[d] /\ job'[d] = job[d]
<1> DEFINE r1 == [row EXCEPT !.task = t]
           r2 == [r1 EXCEPT !.gate = gate]
           r3 == [r2 EXCEPT !.deploy = deploy]
<1>1. cycle' = [cycle EXCEPT ![c] = r3]
    BY Zenon DEF CreateAndStart
<1>2. /\ r1 \in CycleRows /\ r1.task = t /\ r1.status = row.status /\ r1.risk = row.risk
      /\ r1.compact = row.compact /\ r1.approved = row.approved /\ r1.merged = row.merged
      /\ r1.incident = row.incident
    BY DEF CycleRows
<1>3. /\ r2 \in CycleRows /\ r2.task = t /\ r2.status = row.status /\ r2.risk = row.risk
      /\ r2.compact = row.compact /\ r2.approved = row.approved /\ r2.merged = row.merged
      /\ r2.incident = row.incident
      /\ r2.gate = gate
    <2> HIDE DEF r1
    <2> QED
        BY <1>2 DEF CycleRows
<1>4. /\ r3.task = t /\ r3.status = row.status /\ r3.risk = row.risk
      /\ r3.compact = row.compact
      /\ r3.approved = row.approved /\ r3.merged = row.merged /\ r3.incident = row.incident
      /\ r3.gate = gate /\ r3.deploy = deploy
    <2> HIDE DEF r2
    <2> QED
        BY <1>3 DEF CycleRows
<1> HIDE DEF r3
<1>5. cycle'[c] = r3 /\ \A d \in Cycles \ {c} : cycle'[d] = cycle[d]
    BY <1>1 DEF TypeOK
<1>6. /\ job'[c] = [kind |-> "watching", on |-> t]
      /\ \A d \in Cycles \ {c} : job'[d] = job[d]
    BY DEF CreateAndStart, TypeOK
<1> QED
    BY <1>4, <1>5, <1>6

\* _create_and_start_task keeps the links: the new task carries the decision
\* made for its cycle.
LEMMA CreationKeepsLinks ==
    ASSUME TypeOK, TypeOK', Links, UNCHANGED <<file, mode>>,
           NEW c \in Cycles, NEW t \in Tasks, NEW row \in CycleRows,
           NEW gate \in BOOLEAN, NEW deploy \in BOOLEAN,
           CreateAndStart(c, t, row, gate, deploy),
           cycle[c].status # "absent", row.status # "absent",
           \/ row.risk = cycle[c].risk /\ row.compact = cycle[c].compact
           \/ \A u \in Tasks : task[u].cycle # c,
           row.approved = cycle[c].approved, row.merged => deploy,
           deploy => Decide(mode, row.risk, DeployAfterSuccess).deploy,
           row.risk \in Risky => gate \/ row.approved
    PROVE  Links'
<1>1. /\ cycle'[c].status = row.status /\ cycle'[c].risk = row.risk
      /\ cycle'[c].compact = row.compact
      /\ cycle'[c].task = t /\ cycle'[c].gate = gate /\ cycle'[c].deploy = deploy
      /\ cycle'[c].approved = row.approved /\ cycle'[c].merged = row.merged
      /\ job'[c] = [kind |-> "watching", on |-> t]
      /\ \A d \in Cycles \ {c} : cycle'[d] = cycle[d] /\ job'[d] = job[d]
    BY CreatedRow
<1>2. /\ task' = [task EXCEPT ![t] = NewTask(c, "work", deploy, gate)] /\ IsNext(t, task)
    BY DEF CreateAndStart
<1>3. Granted(c)' = Decide(mode, row.risk, DeployAfterSuccess).deploy
    BY <1>1 DEF Granted
<1>4. "work" \in Kinds
    BY Names
<1>5. t # NoRow
    BY RowsAssumption DEF Tasks, NoRow
<1>6. /\ cycle'[c].status # "absent" /\ cycle'[c].task # NoRow
      /\ \/ cycle'[c].risk = cycle[c].risk /\ cycle'[c].compact = cycle[c].compact
         \/ \A u \in Tasks : task[u].cycle # c
      /\ deploy \/ cycle'[c].deploy => Granted(c)'
      /\ cycle'[c].merged => cycle'[c].deploy
      /\ cycle[c].approved => cycle'[c].approved
      /\ cycle'[c].risk \in Risky => gate \/ cycle'[c].approved
      /\ cycle'[c].risk \in Risky => cycle'[c].gate \/ cycle'[c].approved
    BY <1>1, <1>3, <1>5
<1> QED
    BY <1>1, <1>2, <1>4, <1>6, NewTaskKeepsLinks

\* The end of the analysis keeps the links, whichever branch it takes.
LEMMA AnalysisKeepsLinks ==
    ASSUME TypeOK, TypeOK', Links, NEW c \in Cycles, ConcludeAnalysis(c)
    PROVE  Links'
<1>1. PICK goal \in AnalyzeProblems :
         LET decision == Decide(mode, ClassifyRisk(goal), DeployAfterSuccess)
             planned == Planned(c, goal)
         IN IF decision.executes
            THEN \E t \in Tasks :
                   CreateAndStart(c, t, [planned EXCEPT !.status = "implementing"],
                                  decision.publishApproval, decision.deploy)
            ELSE /\ cycle' = [cycle EXCEPT ![c] =
                       [planned EXCEPT !.status = IF decision.awaits THEN "awaiting"
                                                  ELSE "completed"]]
                 /\ job' = [job EXCEPT ![c] = Idle]
                 /\ UNCHANGED <<task, running>>
    BY DEF ConcludeAnalysis
<1> DEFINE risk == ClassifyRisk(goal)
           decision == Decide(mode, risk, DeployAfterSuccess)
           planned == Planned(c, goal)
<1>2. risk \in Risks
    BY RiskOfGoal
<1>3. decision.publishApproval \in BOOLEAN /\ decision.deploy \in BOOLEAN
    BY <1>2, DecisionTypes, SettingsAssumption
<1>4. risk \in Risky /\ decision.executes => decision.publishApproval
    BY RiskyIsGated
<1>5. UNCHANGED <<file, mode>> /\ job[c].kind = "analyzing"
    BY DEF ConcludeAnalysis, settings
<1>6. /\ cycle[c].status # "absent" /\ ~cycle[c].deploy /\ ~cycle[c].merged
      /\ \A t \in Tasks : task[t].cycle # c
    BY <1>5, BusyIsThere DEF Links, LinksHold, GrantsHold
<1>7. /\ planned \in CycleRows /\ planned.risk = risk /\ planned.task = cycle[c].task
      /\ planned.approved = cycle[c].approved /\ planned.merged = cycle[c].merged
      /\ planned.deploy = cycle[c].deploy /\ planned.gate = cycle[c].gate
    <2>1. cycle[c] \in CycleRows
        BY DEF TypeOK
    <2> QED
        BY <2>1, PlannedRow
<1> HIDE DEF risk
<1>8. \A x \in CycleStatuses \ {"absent"} :
         LET row == [planned EXCEPT !.status = x] IN
         /\ row \in CycleRows /\ row.status # "absent" /\ row.risk = risk
         /\ row.task = cycle[c].task
         /\ row.approved = cycle[c].approved /\ row.merged = cycle[c].merged
         /\ row.deploy = cycle[c].deploy /\ row.gate = cycle[c].gate
    <2> HIDE DEF planned
    <2> QED
        BY <1>7 DEF CycleRows
<1>9. CASE decision.executes
    <2>1. PICK t \in Tasks : CreateAndStart(c, t, [planned EXCEPT !.status = "implementing"],
                                            decision.publishApproval, decision.deploy)
        BY <1>1, <1>9 DEF risk
    <2>2. PICK row \in CycleRows : /\ row = [planned EXCEPT !.status = "implementing"]
                                   /\ row.status # "absent" /\ row.risk = risk
                                   /\ row.approved = cycle[c].approved
                                   /\ row.merged = cycle[c].merged
        BY <1>8, Names
    <2>3. row.risk \in Risky => decision.publishApproval
        BY <1>4, <1>9, <2>2
    <2>4. decision.deploy => Decide(mode, row.risk, DeployAfterSuccess).deploy
        BY <2>2
    <2>5. CreateAndStart(c, t, row, decision.publishApproval, decision.deploy)
        BY <2>1, <2>2
    <2> HIDE DEF planned, decision
    <2> QED
        BY <1>3, <1>5, <1>6, <2>2, <2>3, <2>4, <2>5, CreationKeepsLinks
<1>10. CASE ~decision.executes
    <2>1. PICK x \in {"awaiting", "completed"} :
             cycle' = [cycle EXCEPT ![c] = [planned EXCEPT !.status = x]]
        BY <1>1, <1>10 DEF risk
    <2>2. job' = [job EXCEPT ![c] = Idle] /\ task' = task
        BY <1>1, <1>10 DEF risk
    <2> HIDE DEF planned, decision
    <2>3. cycle'[c] = [planned EXCEPT !.status = x]
        BY <2>1 DEF TypeOK
    <2>4. \A d \in Cycles \ {c} : cycle'[d] = cycle[d]
        BY <2>1 DEF TypeOK
    <2>5. /\ cycle'[c].status # "absent" /\ cycle'[c].task = cycle[c].task
          /\ cycle'[c].merged = cycle[c].merged /\ cycle'[c].deploy = cycle[c].deploy
        BY <1>8, <2>3, Names
    <2>6. job'[c] = Idle /\ \A d \in Cycles \ {c} : job'[d] = job[d]
        BY <2>2 DEF TypeOK
    <2>7. cycle[c].task = NoRow
        BY <1>6 DEF Links, LinksHold, Own
    <2>8. RowsInOrder'
        <3>1. DOMAIN cycle = Cycles /\ DOMAIN cycle' = Cycles
            BY DEF TypeOK
        <3>2. Contiguous(cycle')
            <4>1. \A d \in Cycles : cycle'[d].status = "absent" <=> cycle[d].status = "absent"
                BY <1>6, <2>4, <2>5
            <4> QED
                BY <3>1, <4>1, SameRows DEF Links, RowsInOrder
        <3> QED
            BY <1>5, <2>2, <2>4, <2>5, <2>6, <3>2 DEF Links, RowsInOrder, Contiguous
    <2>9. \A t \in Tasks : task[t].cycle # NoRow => task[t].cycle \in Cycles \ {c}
        BY <1>6 DEF TypeOK, TaskRows
    <2>10. LinksHold'
        BY <2>2, <2>4, <2>5, <2>6, <2>7, <2>9 DEF Links, LinksHold, Own, Idle
    <2>11. GrantsHold'
        <3>1. \A d \in Cycles \ {c} : Granted(d)' = Granted(d)
            BY <1>5, <2>4 DEF Granted
        <3>2. \A d \in Cycles : /\ cycle'[d].deploy => Granted(d)'
                                /\ cycle'[d].merged => cycle'[d].deploy
            BY <1>6, <2>4, <2>5, <3>1 DEF Links, GrantsHold
        <3>3. \A t \in Tasks : /\ task'[t].deploy /\ task'[t].cycle # NoRow => Granted(task[t].cycle)'
                               /\ file'[t] # "absent" => task'[t].deploy
            BY <1>5, <2>2, <2>9, <3>1 DEF Links, GrantsHold
        <3> QED
            BY <2>2, <3>2, <3>3 DEF GrantsHold, Granted
    <2>12. GatesHold'
        BY <2>2, <2>4, <2>5, <2>7, <2>9 DEF Links, GatesHold, Compact
    <2> QED
        BY <2>8, <2>10, <2>11, <2>12 DEF Links
<1> QED
    BY <1>9, <1>10

\* So does the task created after an approval.
LEMMA ApprovedCreationKeepsLinks ==
    ASSUME TypeOK, TypeOK', Links, NEW c \in Cycles, CreateApproved(c)
    PROVE  Links'
<1>1. PICK t \in Tasks : CreateAndStart(c, t, cycle[c], FALSE, FALSE)
    BY DEF CreateApproved
<1>2. UNCHANGED <<file, mode>> /\ job[c].kind = "creating"
    BY DEF CreateApproved, settings
<1>3. /\ cycle[c].status # "absent" /\ cycle[c].approved /\ ~cycle[c].merged
      /\ cycle[c] \in CycleRows
    BY <1>2, BusyIsThere DEF Links, LinksHold, GrantsHold, TypeOK
<1> QED
    BY <1>1, <1>2, <1>3, CreationKeepsLinks

\* So does the handling of a failed task: the retry, the rollback task and the
\* end without either.
LEMMA FailedTaskKeepsLinks ==
    ASSUME TypeOK, TypeOK', Links, NEW c \in Cycles, HandleFailedTask(c)
    PROVE  Links'
<1> DEFINE row == CreateIncident(cycle[c])
<1>1. UNCHANGED <<file, mode>>
    BY DEF HandleFailedTask, settings
<1>2. PICK t \in Tasks :
         /\ Watches(c, t)
         /\ \/ \E u \in Tasks :
                 /\ IsNext(u, task)
                 /\ task' = [task EXCEPT ![u] = NewTask(c, Undo(c, t), FALSE, FALSE)]
                 /\ cycle' = [cycle EXCEPT ![c] =
                       AttachRollbackTask([row EXCEPT !.status = "failed"], u)]
                 /\ job' = [job EXCEPT ![c] = Idle]
            \/ /\ cycle' = [cycle EXCEPT ![c] =
                     [row EXCEPT !.status = "failed", !.retries = @ + 1]]
               /\ job' = [job EXCEPT ![c] = Idle]
               /\ UNCHANGED task
            \/ \E u \in Tasks :
                 CreateAndStart(c, u, [row EXCEPT !.status = "implementing", !.retries = @ + 1],
                                cycle[c].gate, cycle[c].deploy)
    BY DEF HandleFailedTask
<1>3. /\ job[c].kind = "watching" /\ cycle[c].status # "absent" /\ cycle[c].task # NoRow
      /\ cycle[c] \in CycleRows /\ cycle[c].gate \in BOOLEAN /\ cycle[c].deploy \in BOOLEAN
    <2>1. job[c].kind = "watching"
        BY <1>2 DEF Watches
    <2> QED
        BY <2>1, BusyIsThere DEF Links, LinksHold, TypeOK, CycleRows
<1>4. /\ row \in CycleRows /\ row.risk = cycle[c].risk /\ row.task = cycle[c].task
      /\ row.compact = cycle[c].compact
      /\ row.approved = cycle[c].approved /\ row.merged = cycle[c].merged
      /\ row.gate = cycle[c].gate /\ row.deploy = cycle[c].deploy
    BY <1>3, Names DEF CreateIncident, CycleRows
<1>5. /\ cycle[c].deploy => Granted(c)
      /\ cycle[c].risk \in Risky => cycle[c].gate \/ cycle[c].approved
      /\ cycle[c].merged => cycle[c].deploy
    BY <1>3 DEF Links, GrantsHold, GatesHold
<1>6. ASSUME NEW u \in Tasks, IsNext(u, task),
             task' = [task EXCEPT ![u] = NewTask(c, Undo(c, t), FALSE, FALSE)],
             cycle' = [cycle EXCEPT ![c] = AttachRollbackTask([row EXCEPT !.status = "failed"], u)],
             job' = [job EXCEPT ![c] = Idle]
      PROVE  Links'
    <2> DEFINE failed == [row EXCEPT !.status = "failed"]
               final == AttachRollbackTask(failed, u)
    <2>1. Undo(c, t) \in Kinds \ {"work"}
        BY DEF Undo, Kinds
    <2>2. \A d \in Cycles \ {c} : cycle'[d] = cycle[d] /\ job'[d] = job[d]
        BY <1>6 DEF TypeOK
    <2> HIDE DEF row
    <2>3. /\ failed \in CycleRows /\ failed.risk = row.risk /\ failed.task = row.task
          /\ failed.compact = row.compact
          /\ failed.approved = row.approved /\ failed.merged = row.merged
          /\ failed.gate = row.gate /\ failed.deploy = row.deploy /\ failed.status = "failed"
        BY <1>4, Names DEF CycleRows
    <2> HIDE DEF failed
    <2>4. /\ final.risk = failed.risk /\ final.task = failed.task
          /\ final.compact = failed.compact
          /\ final.approved = failed.approved /\ final.merged = failed.merged
          /\ final.gate = failed.gate /\ final.deploy = failed.deploy /\ final.status = "failed"
        BY <2>3 DEF AttachRollbackTask, CycleRows
    <2>5. cycle'[c] = final /\ job'[c] = Idle
        BY <1>6 DEF TypeOK, failed
    <2> HIDE DEF final
    <2>6. /\ cycle'[c].status # "absent" /\ cycle'[c].risk = cycle[c].risk
          /\ cycle'[c].compact = cycle[c].compact
          /\ cycle'[c].task = cycle[c].task /\ cycle'[c].approved = cycle[c].approved
          /\ cycle'[c].merged = cycle[c].merged /\ cycle'[c].gate = cycle[c].gate
          /\ cycle'[c].deploy = cycle[c].deploy
        BY <1>4, <2>3, <2>4, <2>5
    <2>7. Granted(c)' = Granted(c)
        BY <1>1, <2>6 DEF Granted
    <2>8. /\ FALSE \/ cycle'[c].deploy => Granted(c)'
          /\ cycle'[c].task # NoRow /\ (cycle'[c].merged => cycle'[c].deploy)
          /\ cycle'[c].task # NoRow /\ cycle'[c].risk \in Risky
               => cycle'[c].gate \/ cycle'[c].approved
        BY <1>3, <1>5, <2>6, <2>7
    <2>9. /\ cycle'[c].risk = cycle[c].risk /\ cycle'[c].compact = cycle[c].compact
          /\ cycle'[c].task = cycle[c].task /\ cycle'[c].status # "absent"
          /\ cycle[c].approved => cycle'[c].approved
        BY <2>6
    <2>10. Undo(c, t) \in Kinds /\ Undo(c, t) # "work"
        BY <2>1
    <2> QED
        BY <1>1, <1>3, <1>6, <2>2, <2>5, <2>8, <2>9, <2>10, NewTaskKeepsLinks
<1>7. CASE /\ cycle' = [cycle EXCEPT ![c] =
                  [row EXCEPT !.status = "failed", !.retries = @ + 1]]
           /\ job' = [job EXCEPT ![c] = Idle]
           /\ UNCHANGED task
    <2> DEFINE failed == [row EXCEPT !.status = "failed"]
               final == [failed EXCEPT !.retries = @ + 1]
    <2>1. \A d \in Cycles \ {c} : cycle'[d] = cycle[d] /\ job'[d] = job[d]
        BY <1>7 DEF TypeOK
    <2> HIDE DEF row
    <2>2. cycle' = [cycle EXCEPT ![c] = final]
        BY <1>7, Zenon
    <2>3. /\ failed \in CycleRows /\ failed.risk = row.risk /\ failed.task = row.task
          /\ failed.compact = row.compact
          /\ failed.approved = row.approved /\ failed.merged = row.merged
          /\ failed.gate = row.gate /\ failed.deploy = row.deploy /\ failed.status = "failed"
        BY <1>4, Names DEF CycleRows
    <2> HIDE DEF failed
    <2>4. /\ final.risk = failed.risk /\ final.task = failed.task
          /\ final.compact = failed.compact
          /\ final.approved = failed.approved /\ final.merged = failed.merged
          /\ final.gate = failed.gate /\ final.deploy = failed.deploy /\ final.status = "failed"
        BY <2>3 DEF CycleRows
    <2> HIDE DEF final
    <2>5. cycle'[c] = final
        BY <2>2 DEF TypeOK
    <2>6. job'[c] = Idle
        BY <1>7 DEF TypeOK
    <2>7. \A d \in Cycles : QuietCycle(d)
        BY <1>3, <1>4, <2>1, <2>3, <2>4, <2>5 DEF QuietCycle
    <2>8. \A d \in Cycles : QuietJob(d)
        BY <2>1, <2>6 DEF QuietJob, Idle, Links, LinksHold
    <2> QED
        BY <1>1, <1>7, <2>7, <2>8, StillTasks, QuietKeepsLinks DEF Quiet
<1>8. ASSUME NEW u \in Tasks,
             CreateAndStart(c, u, [row EXCEPT !.status = "implementing", !.retries = @ + 1],
                            cycle[c].gate, cycle[c].deploy)
      PROVE  Links'
    <2> DEFINE next == [row EXCEPT !.status = "implementing"]
               final == [next EXCEPT !.retries = @ + 1]
    <2> HIDE DEF row
    <2>1. /\ next \in CycleRows /\ next.risk = row.risk /\ next.approved = row.approved
          /\ next.compact = row.compact
          /\ next.merged = row.merged /\ next.status = "implementing"
        BY <1>4, Names DEF CycleRows
    <2>2. CreateAndStart(c, u, final, cycle[c].gate, cycle[c].deploy)
        BY <1>8, Zenon
    <2> HIDE DEF next
    <2>3. /\ final \in CycleRows /\ final.risk = next.risk /\ final.approved = next.approved
          /\ final.compact = next.compact
          /\ final.merged = next.merged /\ final.status = "implementing"
        BY <2>1 DEF CycleRows
    <2> HIDE DEF final
    <2>4. /\ final.status # "absent" /\ final.risk = cycle[c].risk
          /\ final.compact = cycle[c].compact
          /\ final.approved = cycle[c].approved /\ (final.merged => cycle[c].deploy)
          /\ (final.risk \in Risky => cycle[c].gate \/ final.approved)
        BY <1>4, <1>5, <2>1, <2>3
    <2>5. cycle[c].deploy => Decide(mode, final.risk, DeployAfterSuccess).deploy
        BY <1>5, <2>4 DEF Granted
    <2> QED
        BY <1>1, <1>3, <2>2, <2>3, <2>4, <2>5, CreationKeepsLinks
<1> QED
    BY <1>2, <1>6, <1>7, <1>8

-------------------------------------------------------------------------------
(* Every step *)

\* Nothing deletes a cycle.
CyclesStay == \A c \in Cycles : cycle[c].status # "absent" => cycle'[c].status # "absent"

\* When such a step creates no task to follow, the cycle is over, or waits for an
\* approval straight after its analysis.
LEMMA CreationEnds ==
    ASSUME TypeOK, TypeOK', NEW c \in Cycles,
           ConcludeAnalysis(c) \/ CreateApproved(c) \/ HandleFailedTask(c),
           job'[c].kind # "watching"
    PROVE  /\ cycle'[c].status \in {"awaiting", "completed", "failed"}
           /\ cycle'[c].status = "awaiting"
                => job[c].kind = "analyzing" /\ cycle'[c].task = cycle[c].task
           /\ \A d \in Cycles \ {c} : cycle'[d] = cycle[d]
<1>1. \A t \in Tasks : \A row, gate, deploy :
          ~CreateAndStart(c, t, row, gate, deploy)
    BY DEF CreateAndStart, TypeOK
<1>2. \/ job[c].kind = "analyzing" /\ \E goal \in AnalyzeProblems, x \in {"awaiting", "completed"} :
              cycle' = [cycle EXCEPT ![c] =
                [Planned(c, goal) EXCEPT !.status = x]]
      \/ \E u \in Tasks :
            cycle' = [cycle EXCEPT ![c] =
               AttachRollbackTask([CreateIncident(cycle[c]) EXCEPT !.status = "failed"], u)]
      \/ cycle' = [cycle EXCEPT ![c] =
               [CreateIncident(cycle[c]) EXCEPT !.status = "failed", !.retries = @ + 1]]
    <2>1. CASE ConcludeAnalysis(c)
        <3>0. job[c].kind = "analyzing"
            BY <2>1 DEF ConcludeAnalysis
        <3>1. PICK goal \in AnalyzeProblems :
                 cycle' = [cycle EXCEPT ![c] =
                     [Planned(c, goal) EXCEPT !.status =
                         IF Decide(mode, ClassifyRisk(goal), DeployAfterSuccess).awaits
                         THEN "awaiting" ELSE "completed"]]
            BY <1>1, <2>1, Zenon DEF ConcludeAnalysis
        <3>2. (IF Decide(mode, ClassifyRisk(goal), DeployAfterSuccess).awaits
               THEN "awaiting" ELSE "completed") \in {"awaiting", "completed"}
            OBVIOUS
        <3> QED
            BY <3>0, <3>1, <3>2, Zenon
    <2>2. CASE HandleFailedTask(c)
        BY <1>1, <2>2, Zenon DEF HandleFailedTask
    <2> QED
        BY <1>1, <2>1, <2>2 DEF CreateApproved
<1>3. \/ /\ cycle'[c].status \in {"awaiting", "completed"}
         /\ job[c].kind = "analyzing" /\ cycle'[c].task = cycle[c].task
      \/ cycle'[c].status = "failed"
    <2>1. cycle[c] \in CycleRows
        BY DEF TypeOK
    <2>2. ASSUME NEW goal \in AnalyzeProblems, NEW x \in {"awaiting", "completed"},
                 cycle' = [cycle EXCEPT ![c] =
                   [Planned(c, goal) EXCEPT !.status = x]]
          PROVE  cycle'[c].status = x /\ cycle'[c].task = cycle[c].task
        <3>1. Planned(c, goal) \in CycleRows /\ Planned(c, goal).task = cycle[c].task
            BY <2>1, PlannedRow
        <3> QED
            BY <2>1, <2>2, <3>1 DEF CycleRows, TypeOK
    <2>3. ASSUME NEW u \in Tasks,
                 cycle' = [cycle EXCEPT ![c] =
                   AttachRollbackTask([CreateIncident(cycle[c]) EXCEPT !.status = "failed"], u)]
          PROVE  cycle'[c].status = "failed"
        BY <2>1, <2>3 DEF CycleRows, TypeOK, AttachRollbackTask, CreateIncident
    <2>4. CASE cycle' = [cycle EXCEPT ![c] =
                 [CreateIncident(cycle[c]) EXCEPT !.status = "failed", !.retries = @ + 1]]
        <3>1. cycle'[c] = [CreateIncident(cycle[c]) EXCEPT !.status = "failed", !.retries = @ + 1]
            BY <2>4 DEF TypeOK
        <3> QED
            BY <2>1, <3>1 DEF CycleRows, CreateIncident
    <2> QED
        BY <1>2, <2>2, <2>3, <2>4
<1>4. \A d \in Cycles \ {c} : cycle'[d] = cycle[d]
    BY <1>2 DEF TypeOK
<1> QED
    BY <1>3, <1>4

\* The steps that create a task keep the links.
LEMMA CreationsKeep ==
    ASSUME TypeOK, TypeOK', Links, NEW c \in Cycles,
           ConcludeAnalysis(c) \/ CreateApproved(c) \/ HandleFailedTask(c)
    PROVE  Links' /\ CyclesStay
<1>1. Links'
    BY AnalysisKeepsLinks, ApprovedCreationKeepsLinks, FailedTaskKeepsLinks
<1>2. CASE job'[c].kind = "watching"
    <2>1. cycle'[c].status # "absent"
        BY <1>1, <1>2 DEF Links, RowsInOrder, Idle
    <2>2. \A d \in Cycles \ {c} : cycle'[d] = cycle[d]
        BY CreatorEffect DEF TypeOK
    <2> QED
        BY <1>1, <2>1, <2>2 DEF CyclesStay
<1>3. CASE job'[c].kind # "watching"
    BY <1>1, <1>3, CreationEnds DEF CyclesStay
<1> QED
    BY <1>1, <1>2, <1>3

\* A step that leaves rows and coroutines alone keeps the links.
LEMMA StillKeeps ==
    ASSUME TypeOK, TypeOK', Links, UNCHANGED <<cycle, job, task, file, mode>>
    PROVE  Links' /\ CyclesStay
BY StillCycles, StillTasks, QuietKeepsLinks DEF Quiet, Links, CyclesStay

\* A quiet step keeps all of Links.
LEMMA QuietKeeps ==
    ASSUME TypeOK, TypeOK', Links, Quiet
    PROVE  Links' /\ CyclesStay
BY QuietKeepsLinks DEF Quiet, QuietCycle, CyclesStay

\* The creation of a cycle keeps all of Links.
LEMMA CreateCycleKeeps ==
    ASSUME TypeOK, TypeOK', Links, NEW c \in Cycles, CreateCycle(c), UNCHANGED <<task, file, mode>>
    PROVE  Links' /\ CyclesStay /\ cycle'[c].status # "absent"
BY CreateCycleKeepsLinks DEF CyclesStay

IInv == TypeOK /\ Links /\ SessionsHold /\ SessionBooks

\* Every step of the service keeps the links.
LEMMA StepKeepsLinks ==
    ASSUME IInv, TypeOK', Next
    PROVE  Links' /\ CyclesStay
<1> USE DEF IInv
<1>1. CASE Operator
    <2>1. CASE StartCycle
        BY <2>1, CreateCycleKeeps DEF StartCycle, settings
    <2>2. CASE StartSession
        BY <2>2, StillKeeps DEF StartSession, settings
    <2> QED
        BY <1>1, <2>1, <2>2, OperatorIsQuiet, QuietKeeps DEF Operator, Links
<1>2. CASE AutoStart
    BY <1>2, CreateCycleKeeps, StillKeeps DEF AutoStart, settings
<1>3. CASE Restart
    BY <1>3, RestartIsQuiet, QuietKeeps DEF Links
<1>4. ASSUME NEW c \in Cycles, Pipeline(c)
      PROVE  Links' /\ CyclesStay
    BY <1>4, CreationsKeep, PipelineIsQuiet, QuietKeeps DEF Pipeline, QuietPipeline, Links
<1>5. ASSUME NEW s \in Sessions, Loop(s)
      PROVE  Links' /\ CyclesStay
    <2>1. UNCHANGED <<task, file, mode>>
        BY <1>5 DEF Loop, StartNextCycle, FollowCycle, LoopReturns, settings, rows
    <2>2. UNCHANGED <<cycle, job>> \/ \E c \in Cycles : CreateCycle(c)
        BY <1>5 DEF Loop, StartNextCycle, FollowCycle, LoopReturns, rows
    <2> QED
        BY <2>1, <2>2, CreateCycleKeeps, StillKeeps
<1>6. ASSUME NEW t \in Tasks, Run(t) \/ Watchdog(t)
      PROVE  Links' /\ CyclesStay
    BY <1>6, RunIsQuiet, WatchdogIsQuiet, QuietKeeps DEF Links
<1> QED
    BY <1>1, <1>2, <1>3, <1>4, <1>5, <1>6 DEF Next

\* A session that is over.
Over(s) == session[s].status \in {"stopped", "completed", "failed"}

\* A step that rewrites one session as its loop does keeps what holds of all
\* sessions.
LEMMA RowKeepsSessions ==
    ASSUME TypeOK, TypeOK', SessionsHold, SessionBooks, CyclesStay,
           NEW s \in Sessions, NEW row \in SessionRows,
           session[s].status # "absent", ~Over(s),
           session' = [session EXCEPT ![s] = row], row.status # "absent", Balanced(row),
           row.current # NoRow => cycle'[row.current].status # "absent"
    PROVE  /\ SessionsHold' /\ SessionBooks'
           /\ \A q \in Sessions : Over(q) => session'[q] = session[q]
<1>1. session'[s] = row /\ \A q \in Sessions \ {s} : session'[q] = session[q]
    BY DEF TypeOK
<1>2. Contiguous(session')
    <2>1. DOMAIN session = Sessions /\ DOMAIN session' = Sessions
        BY DEF TypeOK
    <2>2. \A q \in Sessions : session'[q].status = "absent" <=> session[q].status = "absent"
        BY <1>1
    <2> QED
        BY <2>1, <2>2, SameRows DEF SessionsHold
<1>3. \A q \in Sessions : session[q].current # NoRow => session[q].current \in Cycles
    BY DEF TypeOK, SessionRows
<1>4. SessionsHold'
    BY <1>1, <1>2, <1>3 DEF SessionsHold, CyclesStay, Contiguous
<1>5. SessionBooks'
    BY <1>1 DEF SessionBooks, Balanced
<1> QED
    BY <1>1, <1>4, <1>5

\* Every step of the service keeps the sessions' invariants.
LEMMA StepKeepsSessions ==
    ASSUME IInv, TypeOK', Next
    PROVE  /\ SessionsHold' /\ SessionBooks'
           /\ \A s \in Sessions : Over(s) => session'[s] = session[s]
<1> USE DEF IInv
<1>1. CyclesStay
    BY StepKeepsLinks
<1>2. CASE session' = session
    <2>1. \A s \in Sessions : session[s].current # NoRow => session[s].current \in Cycles
        BY DEF TypeOK, SessionRows
    <2> QED
        BY <1>1, <1>2, <2>1 DEF SessionsHold, SessionBooks, CyclesStay, Contiguous
<1>3. CASE StartSession
    <2>1. PICK s \in Sessions, force \in BOOLEAN :
             /\ IsNext(s, session)
             /\ session' = [session EXCEPT ![s] =
                  [[session[s] EXCEPT !.status = "running"] EXCEPT !.force = force]]
        BY <1>3, Zenon DEF StartSession
    <2> DEFINE row == [[session[s] EXCEPT !.status = "running"] EXCEPT !.force = force]
    <2>2. session[s] \in SessionRows
        BY DEF TypeOK
    <2>3. /\ row.status = "running" /\ row.current = session[s].current
          /\ row.started = session[s].started /\ row.completed = session[s].completed
          /\ row.success = session[s].success /\ row.failed = session[s].failed
        BY <2>2 DEF SessionRows
    <2> HIDE DEF row
    <2>4. session'[s] = row /\ \A q \in Sessions \ {s} : session'[q] = session[q]
        <3>1. session' = [session EXCEPT ![s] = row]
            BY <2>1 DEF row
        <3> QED
            BY <3>1 DEF TypeOK
    <2>5. /\ session[s].status = "absent" /\ Contiguous(session')
        <3>1. Contiguous(session) /\ DOMAIN session = Sessions /\ DOMAIN session' = Sessions
            BY DEF SessionsHold, TypeOK
        <3>2. session[s].status = "absent"
            BY <2>1, <3>1, NextRow
        <3>3. /\ session'[s].status # "absent"
              /\ \A q \in Sessions \ {s} :
                    session'[q].status = "absent" <=> session[q].status = "absent"
            BY <2>3, <2>4
        <3>4. \A other : DOMAIN other = Sessions /\ other[s].status # "absent"
                 /\ (\A q \in Sessions \ {s} :
                       other[q].status = "absent" <=> session[q].status = "absent")
                 => Contiguous(other)
            BY <2>1, <3>1, NextRow
        <3> QED
            BY <3>1, <3>2, <3>3, <3>4
    <2>6. \A q \in Sessions : session[q].current # NoRow => session[q].current \in Cycles
        BY DEF TypeOK, SessionRows
    <2>7. SessionsHold'
        BY <1>1, <2>3, <2>4, <2>5, <2>6 DEF SessionsHold, CyclesStay, Contiguous
    <2>8. SessionBooks'
        BY <2>3, <2>4 DEF SessionBooks
    <2> QED
        BY <2>4, <2>5, <2>7, <2>8 DEF Over
<1>4. CASE StopSession
    <2>1. PICK s \in Sessions : /\ session[s].status \in {"running", "awaiting"}
                                /\ session' = [session EXCEPT ![s].status = "stopped"]
        BY <1>4 DEF StopSession, ActiveSessions
    <2> DEFINE row == [session[s] EXCEPT !.status = "stopped"]
    <2>2. /\ row \in SessionRows /\ row.status = "stopped"
          /\ row.current = session[s].current
          /\ row.started = session[s].started /\ row.completed = session[s].completed
          /\ row.success = session[s].success /\ row.failed = session[s].failed
        <3>1. session[s] \in SessionRows
            BY DEF TypeOK
        <3> QED
            BY <3>1, Names DEF SessionRows
    <2>3. session' = [session EXCEPT ![s] = row]
        BY <2>1
    <2> HIDE DEF row
    <2>4. Balanced(row)
        BY <2>2 DEF SessionBooks, Balanced
    <2>5. row.current # NoRow => cycle'[row.current].status # "absent"
        <3>1. row.current # NoRow => row.current \in Cycles
            BY <2>2 DEF SessionRows
        <3> QED
            BY <1>1, <2>2, <3>1 DEF SessionsHold, CyclesStay
    <2> QED
        BY <1>1, <2>1, <2>2, <2>3, <2>4, <2>5, RowKeepsSessions DEF Over
<1>5. ASSUME NEW s \in Sessions, Loop(s), session' # session
      PROVE  /\ SessionsHold' /\ SessionBooks'
             /\ \A q \in Sessions : Over(q) => session'[q] = session[q]
    <2>1. session[s].status = "running"
        BY <1>5, LoopStep
    <2>2. PICK row \in SessionRows :
             /\ session' = [session EXCEPT ![s] = row] /\ Balanced(row) /\ row.status # "absent"
             /\ \/ row.current \in {NoRow, session[s].current}
                \/ row.current \in Cycles /\ CreateCycle(row.current)
        BY <1>5, LoopStep
    <2>3. row.current # NoRow => cycle'[row.current].status # "absent"
        <3>1. row.current # NoRow => row.current \in Cycles
            BY DEF SessionRows
        <3>2. CASE row.current \in {NoRow, session[s].current}
            BY <1>1, <3>1, <3>2 DEF SessionsHold, CyclesStay
        <3>3. CASE row.current \in Cycles /\ CreateCycle(row.current)
            BY <3>3 DEF CreateCycle, TypeOK, CycleRows
        <3> QED
            BY <2>2, <3>2, <3>3
    <2> QED
        BY <1>1, <2>1, <2>2, <2>3, RowKeepsSessions DEF Over
<1>6. session' = session \/ StartSession \/ StopSession \/ \E s \in Sessions : Loop(s)
    <2>1. CASE Operator
        BY <2>1, Zenon DEF Operator, StartCycle, StopCycle, ApproveCycle, DecideTask, RestartFromQA
    <2>2. CASE AutoStart \/ Restart
        BY <2>2 DEF AutoStart, Restart
    <2>3. ASSUME NEW c \in Cycles, Pipeline(c)
          PROVE  session' = session
        BY <2>3 DEF Pipeline, BeginAnalysis, ConcludeAnalysis, CreateApproved, PollMirrors,
               PollSucceeds, Merge, PollFindsUpdateOver, Deadline, HandleFailedTask, Observe, rows
    <2>4. ASSUME NEW t \in Tasks, Run(t) \/ Watchdog(t)
          PROVE  session' = session
        BY <2>4 DEF Run, RunStops, RunWorks, Publish, Deploy, Finish, Watchdog, rows
    <2> QED
        BY <2>1, <2>2, <2>3, <2>4 DEF Next
<1> QED
    BY <1>2, <1>3, <1>4, <1>5, <1>6

-------------------------------------------------------------------------------
(* The specification *)

\* The invariant holds of an empty database.
LEMMA InitInv == Init => IInv
<1> SUFFICES ASSUME Init PROVE IInv
    OBVIOUS
<1>1. NoCycle \in CycleRows /\ NoSession \in SessionRows /\ NoTask \in TaskRows /\ Idle \in Jobs
    BY SettingsAssumption
       DEF NoCycle, NoSession, NoTask, Idle, CycleRows, SessionRows, TaskRows, Jobs, CycleStatuses,
           SessionStatuses, TaskStatuses, JobKinds, Risks, Incidents, Kinds
<1>2. TypeOK
    BY <1>1, RowsAssumption DEF Init, TypeOK, FileStatuses
<1>3. Contiguous(cycle) /\ Contiguous(session) /\ Contiguous(task)
    <2>1. Rows(cycle) = {} /\ Rows(session) = {} /\ Rows(task) = {}
        BY DEF Init, Rows, NoCycle, NoSession, NoTask
    <2>2. 1..0 = {} /\ 0 \in Nat
        OBVIOUS
    <2> QED
        BY <2>1, <2>2 DEF Contiguous
<1>4. RowsInOrder /\ SessionsHold
    BY <1>3 DEF Init, RowsInOrder, SessionsHold, NoSession
<1>5. LinksHold
    BY DEF Init, LinksHold, NoCycle, NoTask, Idle
<1>6. GrantsHold /\ GatesHold
    BY DEF Init, GrantsHold, GatesHold, NoCycle, NoTask
<1>7. SessionBooks
    BY SettingsAssumption DEF Init, SessionBooks, NoSession
<1> QED
    BY <1>2, <1>4, <1>5, <1>6, <1>7 DEF IInv, Links

\* Every step of the service keeps every variable in its type.
LEMMA StepTyped ==
    ASSUME IInv, Next
    PROVE  TypeOK'
BY OperatorTyped, AutoStartTyped, RestartTyped, PipelineTyped, LoopTyped, RunTyped, WatchdogTyped
   DEF IInv, Links, Next

\* A step that changes no variable keeps the invariant.
LEMMA StutterKeeps ==
    ASSUME IInv, UNCHANGED vars
    PROVE  IInv'
<1>1. UNCHANGED <<mode, limit, cycle, session, task, file, job, loops, running, autoStart,
                  decisions, restarts>>
    BY DEF vars, settings, rows, coroutines, bounds
<1>2. TypeOK'
    BY <1>1 DEF IInv, TypeOK
<1>3. Links'
    BY <1>1, <1>2, StillKeeps DEF IInv
<1>4. SessionsHold' /\ SessionBooks'
    BY <1>1 DEF IInv, SessionsHold, SessionBooks, Contiguous
<1> QED
    BY <1>2, <1>3, <1>4 DEF IInv

\* The invariant is inductive.
LEMMA NextInv == IInv /\ [Next]_vars => IInv'
<1>1. ASSUME IInv, Next PROVE IInv'
    BY <1>1, StepTyped, StepKeepsLinks, StepKeepsSessions DEF IInv
<1> QED
    BY <1>1, StutterKeeps

\* So it holds in every reachable state.
LEMMA InvariantHolds == Spec => []IInv
BY InitInv, NextInv, PTL DEF Spec

\* Every row, coroutine and setting keeps its type.
THEOREM TypesHold == Spec => []TypeOK
<1>1. IInv => TypeOK
    BY DEF IInv
<1> QED
    BY <1>1, InvariantHolds, PTL

\* The gate of a risky cycle is handed down to every task it ever creates, so what
\* was published was approved, unless the goal reads like a tiny fix.
THEOREM RiskHolds == Spec => []RiskyChangeIsApproved
<1>1. IInv => RiskyChangeIsApproved
    BY DEF IInv, Links, GatesHold, RiskyChangeIsApproved, Compact
<1> QED
    BY <1>1, InvariantHolds, PTL

\* A deployment, or a merge after it, goes back to what the policy granted.
THEOREM GrantsAreKept == Spec => []DeployWasGranted
<1>1. ASSUME IInv PROVE DeployWasGranted
    <2>1. \A t \in Tasks : task[t].cycle # NoRow => task[t].cycle \in Cycles
        BY <1>1 DEF IInv, TypeOK, TaskRows
    <2> QED
        BY <1>1, <2>1 DEF IInv, Links, GrantsHold, Granted, DeployWasGranted
<1> QED
    BY <1>1, InvariantHolds, PTL

\* The books of every session balance, however its cycles ended.
THEOREM BooksHold == Spec => []SessionBooks
<1>1. IInv => SessionBooks
    BY DEF IInv
<1> QED
    BY <1>1, InvariantHolds, PTL

\* A session that is over stays as it was.
THEOREM FinishedHolds == Spec => FinishedSessionRests
<1>1. IInv /\ [Next]_vars =>
         [\A s \in Sessions :
            session[s].status \in {"stopped", "completed", "failed"}
              => session'[s] = session[s]]_vars
    <2>1. ASSUME IInv, Next
          PROVE  \A s \in Sessions :
                   session[s].status \in {"stopped", "completed", "failed"}
                     => session'[s] = session[s]
        BY <2>1, StepTyped, StepKeepsSessions DEF Over
    <2> QED
        BY <2>1
<1> QED
    BY <1>1, InvariantHolds, PTL DEF Spec, FinishedSessionRests

-------------------------------------------------------------------------------
(* Nothing active is forgotten while the orchestrator stays up *)

\* A cycle whose task waits for an approval has its coroutine too.
Followed(c) ==
    /\ cycle[c].status \in Active
         => job[c].kind # "none" \/ cycle[c].status = "post_deploy_testing"
    /\ cycle[c].status = "awaiting" /\ cycle[c].task # NoRow => job[c].kind # "none"

AllFollowed == restarts = 0 => \A c \in Cycles : Followed(c)

\* A step that rewrites one cycle and its coroutine leaves the others followed.
LEMMA OthersFollowed ==
    ASSUME AllFollowed, restarts = 0, NEW c \in Cycles, Followed(c)',
           \A d \in Cycles \ {c} : cycle'[d] = cycle[d] /\ job'[d] = job[d]
    PROVE  AllFollowed'
BY DEF AllFollowed, Followed

\* A coroutine that lives, or a status that nobody has to follow.
LEMMA LiveFollowed ==
    ASSUME NEW c \in Cycles,
           \/ job'[c].kind # "none"
           \/ cycle'[c].status \in {"paused", "completed", "failed", "post_deploy_testing"}
    PROVE  Followed(c)'
BY DEF Followed, Active

\* The operator's handlers leave no active cycle without its coroutine.
LEMMA OperatorFollows ==
    ASSUME IInv, IInv', AllFollowed, restarts = 0, Operator
    PROVE  AllFollowed'
<1> USE DEF IInv
<1>1. CASE StartCycle
    <2>1. PICK c \in Cycles : CreateCycle(c)
        BY <1>1 DEF StartCycle
    <2>2. /\ job'[c].kind = "spawned"
          /\ \A d \in Cycles \ {c} : cycle'[d] = cycle[d] /\ job'[d] = job[d]
        BY <2>1 DEF CreateCycle, TypeOK
    <2> QED
        BY <2>2, LiveFollowed, OthersFollowed
<1>2. CASE StopCycle
    <2>1. PICK c \in Cycles : cycle' = [cycle EXCEPT ![c].status = "paused"]
        BY <1>2 DEF StopCycle
    <2>2. /\ cycle'[c].status = "paused"
          /\ \A d \in Cycles \ {c} : cycle'[d] = cycle[d]
        BY <2>1 DEF TypeOK, CycleRows
    <2>3. job' = job
        BY <1>2 DEF StopCycle, coroutines
    <2> QED
        BY <2>2, <2>3, LiveFollowed, OthersFollowed
<1>3. CASE StopSession
    <2>1. \A d \in Cycles : cycle'[d] = cycle[d] \/ cycle'[d].status = "paused"
        BY <1>3 DEF StopSession, TypeOK, CycleRows
    <2>2. job' = job
        BY <1>3 DEF StopSession, coroutines
    <2> QED
        BY <2>1, <2>2 DEF AllFollowed, Followed, Active
<1>4. ASSUME NEW c \in Cycles, ApproveCycle(c)
      PROVE  AllFollowed'
    <2>1. cycle' = [cycle EXCEPT ![c] =
                     [[cycle[c] EXCEPT !.status = "implementing"] EXCEPT !.approved = TRUE]]
        BY <1>4, Zenon DEF ApproveCycle
    <2>2. \A d \in Cycles \ {c} : cycle'[d] = cycle[d]
        BY <2>1 DEF TypeOK
    <2>3. CASE cycle[c].task # NoRow
        <3>1. job' = job
            BY <1>4, <2>3 DEF ApproveCycle
        <3>2. job[c].kind # "none"
            BY <1>4, <2>3 DEF ApproveCycle, AllFollowed, Followed
        <3> QED
            BY <2>2, <3>1, <3>2, LiveFollowed, OthersFollowed
    <2>4. CASE cycle[c].task = NoRow
        <3>1. job' = [job EXCEPT ![c] = [kind |-> "creating", on |-> NoRow]]
            BY <1>4, <2>4 DEF ApproveCycle
        <3>2. job'[c].kind # "none" /\ \A d \in Cycles \ {c} : job'[d] = job[d]
            BY <3>1 DEF TypeOK
        <3> QED
            BY <2>2, <3>2, LiveFollowed, OthersFollowed
    <2> QED
        BY <2>3, <2>4
<1>5. CASE StartSession \/ \E t \in Tasks : DecideTask(t) \/ RestartFromQA(t)
    <2>1. UNCHANGED <<cycle, job, restarts>>
        BY <1>5 DEF StartSession, DecideTask, RestartFromQA, Decided
    <2> QED
        BY <2>1 DEF AllFollowed, Followed
<1> QED
    BY <1>1, <1>2, <1>3, <1>4, <1>5 DEF Operator

\* Nor do the coroutines: one that ends has moved its cycle out of the active
\* statuses.
LEMMA PipelineFollows ==
    ASSUME IInv, IInv', AllFollowed, restarts = 0, NEW c \in Cycles, Pipeline(c)
    PROVE  AllFollowed'
<1> USE DEF IInv
<1>1. \A d \in Cycles \ {c} : cycle'[d] = cycle[d] /\ job'[d] = job[d]
    <2>1. \A t : Finalize(c, t) => \A d \in Cycles \ {c} : cycle'[d] = cycle[d]
        BY DEF Finalize, TypeOK
    <2>2. \A t, row, gate, deploy : CreateAndStart(c, t, row, gate, deploy)
             => \A d \in Cycles \ {c} : cycle'[d] = cycle[d] /\ job'[d] = job[d]
        BY DEF CreateAndStart, TypeOK
    <2>3. CASE BeginAnalysis(c) \/ PollMirrors(c) \/ PollSucceeds(c) \/ Merge(c) \/ Deadline(c)
        BY <2>3 DEF BeginAnalysis, PollMirrors, PollSucceeds, Merge, Deadline, TypeOK, coroutines
    <2>4. CASE PollFindsUpdateOver(c) \/ Observe(c)
        BY <2>1, <2>4 DEF PollFindsUpdateOver, Observe, TypeOK
    <2>5. CASE CreateApproved(c) \/ ConcludeAnalysis(c)
        BY <2>2, <2>5 DEF CreateApproved, ConcludeAnalysis, TypeOK
    <2>6. CASE HandleFailedTask(c)
        BY <2>2, <2>6 DEF HandleFailedTask, TypeOK
    <2> QED
        BY <2>3, <2>4, <2>5, <2>6 DEF Pipeline

<1>2. Followed(c)'
    <2>1. CASE BeginAnalysis(c)
        BY <2>1, LiveFollowed DEF BeginAnalysis, TypeOK, Jobs
    <2>2. CASE PollMirrors(c)
        <3>1. job'[c].kind # "none"
            BY <2>2 DEF PollMirrors, coroutines, Watches
        <3> QED
            BY <3>1, LiveFollowed
    <2>3. CASE PollSucceeds(c)
        BY <2>3, LiveFollowed DEF PollSucceeds, TypeOK, Jobs, CycleRows
    <2>4. CASE Merge(c)
        <3>1. \E merged \in BOOLEAN :
                 cycle' = [cycle EXCEPT ![c] =
                     [[cycle[c] EXCEPT !.status = IF merged THEN "completed" ELSE "failed"]
                               EXCEPT !.merged = merged]]
            BY <2>4, Zenon DEF Merge
        <3>2. cycle[c] \in CycleRows
            BY DEF TypeOK
        <3>3. cycle'[c].status \in {"completed", "failed"}
            BY <3>1, <3>2 DEF CycleRows, TypeOK
        <3> QED
            BY <3>3, LiveFollowed
    <2>5. CASE PollFindsUpdateOver(c) \/ Observe(c)
        <3>1. \E t : cycle' = [cycle EXCEPT ![c] = CycleAfter(c, file[t])]
            BY <2>5 DEF PollFindsUpdateOver, Observe, Finalize
        <3>2. cycle'[c].status \in {"post_deploy_testing", "failed"}
            BY <3>1 DEF CycleAfter, UpdateRollbackStatus, CreateIncident, TypeOK, CycleRows
        <3> QED
            BY <3>2, LiveFollowed
    <2>6. CASE Deadline(c)
        BY <2>6, LiveFollowed DEF Deadline, TypeOK, CycleRows
    <2>7. CASE ConcludeAnalysis(c) \/ CreateApproved(c) \/ HandleFailedTask(c)
        <3>1. CASE job'[c].kind = "watching"
            BY <3>1, LiveFollowed
        <3>2. CASE job'[c].kind # "watching"
            <4>1. job[c].kind = "analyzing" => cycle[c].task = NoRow
                BY DEF Links, LinksHold, Own
            <4>2. \/ cycle'[c].status \in {"completed", "failed"}
                  \/ cycle'[c].status = "awaiting" /\ cycle'[c].task = NoRow
                BY <2>7, <3>2, <4>1, CreationEnds
            <4> QED
                BY <4>2, LiveFollowed DEF Followed, Active
        <3> QED
            BY <3>1, <3>2
    <2> QED
        BY <2>1, <2>2, <2>3, <2>4, <2>5, <2>6, <2>7 DEF Pipeline
<1> QED
    BY <1>1, <1>2, OthersFollowed

\* Nor does any step.
LEMMA NextFollows == IInv /\ IInv' /\ AllFollowed /\ [Next]_vars => AllFollowed'
<1> SUFFICES ASSUME IInv, IInv', AllFollowed, [Next]_vars, restarts' = 0
             PROVE  AllFollowed'
    BY DEF AllFollowed
<1> USE DEF IInv
<1>1. restarts = 0
    <2>1. CASE Restart
        BY <2>1, RowsAssumption DEF Restart, TypeOK
    <2>2. CASE Operator \/ AutoStart
        BY <2>2, Zenon DEF Operator, StartCycle, StartSession, StopCycle, StopSession, ApproveCycle,
               DecideTask, RestartFromQA, Decided, AutoStart, bounds
    <2>3. ASSUME NEW c \in Cycles, Pipeline(c)
          PROVE  restarts' = restarts
        BY <2>3 DEF Pipeline, BeginAnalysis, ConcludeAnalysis, CreateApproved, PollMirrors,
               PollSucceeds, Merge, PollFindsUpdateOver, Deadline, HandleFailedTask, Observe, bounds
    <2>4. ASSUME NEW s \in Sessions, Loop(s)
          PROVE  restarts' = restarts
        BY <2>4 DEF Loop, StartNextCycle, FollowCycle, LoopReturns, bounds
    <2>5. ASSUME NEW t \in Tasks, Run(t) \/ Watchdog(t)
          PROVE  restarts' = restarts
        BY <2>5 DEF Run, RunStops, RunWorks, Publish, Deploy, Finish, Watchdog, bounds
    <2>6. CASE UNCHANGED restarts
        BY <2>6
    <2> QED
        <3>1. CASE AutoStart
            BY <3>1 DEF AutoStart, bounds
        <3>3. CASE Operator
            <4>1. Decided
                BY <3>3, Zenon DEF Operator, StartCycle, StartSession, StopCycle, StopSession,
                                   ApproveCycle, DecideTask, RestartFromQA
            <4> QED
                BY <4>1 DEF Decided
        <3>2. CASE UNCHANGED vars
            BY <3>2 DEF vars, bounds
        <3> QED
            BY <2>1, <2>3, <2>4, <2>5, <2>6, <3>1, <3>2, <3>3 DEF Next
<1>2. CASE UNCHANGED <<cycle, job, restarts>>
    BY <1>2 DEF AllFollowed, Followed
<1>3. CASE Operator
    BY <1>1, <1>3, OperatorFollows
<1>4. ASSUME NEW c \in Cycles, Pipeline(c)
      PROVE  AllFollowed'
    BY <1>1, <1>4, PipelineFollows
<1>5. ASSUME NEW c \in Cycles, CreateCycle(c)
      PROVE  AllFollowed'
    <2>1. /\ job'[c].kind = "spawned"
          /\ \A d \in Cycles \ {c} : cycle'[d] = cycle[d] /\ job'[d] = job[d]
        BY <1>5 DEF CreateCycle, TypeOK
    <2> QED
        BY <1>1, <2>1, LiveFollowed, OthersFollowed
<1>6. CASE AutoStart
    BY <1>5, <1>6, <1>2 DEF AutoStart, bounds
<1>7. ASSUME NEW s \in Sessions, Loop(s)
      PROVE  AllFollowed'
    BY <1>2, <1>5, <1>7 DEF Loop, StartNextCycle, FollowCycle, LoopReturns, rows, bounds
<1>8. ASSUME NEW t \in Tasks, Run(t) \/ Watchdog(t)
      PROVE  AllFollowed'
    <2>1. UNCHANGED <<cycle, job, restarts>>
        BY <1>8 DEF Run, RunStops, RunWorks, Publish, Deploy, Finish, Watchdog, rows, coroutines,
                    bounds
    <2> QED
        BY <1>2, <2>1
<1>9. CASE Restart
    BY <1>1, <1>9 DEF Restart
<1> QED
    BY <1>2, <1>3, <1>4, <1>6, <1>7, <1>8, <1>9 DEF Next, vars, rows, coroutines, bounds

\* Without a restart, every active cycle has a coroutine until its update is confirmed.
THEOREM PipelineHolds == Spec => []ActiveCycleHasPipeline
<1>1. Init => AllFollowed
    BY DEF Init, AllFollowed, Followed, NoCycle, Active
<1>2. AllFollowed => ActiveCycleHasPipeline
    BY DEF AllFollowed, Followed, ActiveCycleHasPipeline, ActiveCycles
<1> QED
    BY <1>1, <1>2, NextFollows, InvariantHolds, PTL DEF Spec

-------------------------------------------------------------------------------
(* Incidents *)

TakenBack(t) == file[t] = "rolled_back" /\ task[t].status = "failed"

\* A task keeps its owner, and being taken back.
StaysTakenBack(t) ==
    TakenBack(t)' /\ task'[t].cycle = task[t].cycle /\ task'[t].kind = task[t].kind

\* Runs, decisions and the watchdog have no step from a task that was taken back.
LEMMA RunsLeaveTakenBack ==
    ASSUME TypeOK, NEW t \in Tasks, TakenBack(t),
           \/ \E u \in Tasks : Run(u) \/ Watchdog(u)
           \/ Operator
    PROVE  StaysTakenBack(t)
<1>1. task \in [Tasks -> TaskRows] /\ file \in [Tasks -> FileStatuses] /\ task[t] \in TaskRows
    BY DEF TypeOK
<1>2. ASSUME file'[t] = file[t], task'[t] = task[t] PROVE StaysTakenBack(t)
    BY <1>2 DEF StaysTakenBack, TakenBack
<1>3. ASSUME NEW u \in Tasks, Run(u) PROVE StaysTakenBack(t)
    <2>1. CASE RunStops(u)
        BY <1>2, <2>1 DEF RunStops, rows
    <2>2. CASE u = t /\ ~RunStops(u)
        <3>1. FALSE
            BY <1>3, <2>2 DEF Run, RunWorks, Publish, Deploy, Finish, TakenBack
        <3> QED
            BY <3>1
    <2>3. CASE u # t /\ ~RunStops(u)
        <3>1. task'[t] = task[t]
            BY <1>1, <1>3, <2>3 DEF Run, RunWorks, Publish, Deploy, Finish, Runs, Stops
        <3>2. file'[t] = file[t]
            BY <1>1, <1>3, <2>3 DEF Run, RunWorks, Publish, Deploy, Finish
        <3> QED
            BY <1>2, <3>1, <3>2
    <2> QED
        BY <2>1, <2>2, <2>3
<1>4. ASSUME NEW u \in Tasks, Watchdog(u) PROVE StaysTakenBack(t)
    <2>1. u # t
        BY <1>4 DEF Watchdog, WatchdogStep, TakenBack
    <2>2. task' = task /\ file'[t] = file[t]
        BY <1>1, <1>4, <2>1 DEF Watchdog
    <2> QED
        BY <1>2, <2>2
<1>5. CASE Operator
    <2>1. file' = file
        BY <1>5 DEF Operator, StartCycle, StartSession, StopCycle, StopSession, ApproveCycle,
                    DecideTask, RestartFromQA
    <2>2. CASE StartCycle \/ StartSession \/ StopCycle \/ StopSession
        BY <1>2, <2>1, <2>2 DEF StartCycle, StartSession, StopCycle, StopSession
    <2>3. ASSUME NEW c \in Cycles, ApproveCycle(c) PROVE StaysTakenBack(t)
        <3>1. task' = task \/ \E u \in Tasks \cup {NoRow} : task' = [task EXCEPT ![u].approved = TRUE]
            BY <2>3, Zenon DEF ApproveCycle, TypeOK, CycleRows
        <3>2. /\ task'[t].status = task[t].status /\ task'[t].cycle = task[t].cycle
              /\ task'[t].kind = task[t].kind
            BY <1>1, <3>1 DEF TaskRows
        <3> QED
            BY <2>1, <3>2 DEF StaysTakenBack, TakenBack
    <2>4. ASSUME NEW u \in Tasks, DecideTask(u) \/ RestartFromQA(u) PROVE StaysTakenBack(t)
        <3>1. u # t
            BY <2>4 DEF DecideTask, RestartFromQA, TakenBack
        <3>2. task'[t] = task[t]
            BY <1>1, <2>4, <3>1 DEF DecideTask, RestartFromQA
        <3> QED
            BY <1>2, <2>1, <3>2
    <2> QED
        BY <1>5, <2>2, <2>3, <2>4 DEF Operator
<1> QED
    BY <1>3, <1>4, <1>5

\* A coroutine that finishes a task fails one that was taken back, and a new task
\* has a row of its own.
LEMMA PipelinesLeaveTakenBack ==
    ASSUME TypeOK, RowsInOrder, NEW t \in Tasks, TakenBack(t),
           (\E c \in Cycles : Pipeline(c)) \/ Restart
    PROVE  StaysTakenBack(t)
<1>1. task \in [Tasks -> TaskRows] /\ task[t] \in TaskRows /\ Contiguous(task)
    BY DEF TypeOK, RowsInOrder
<1>2. ASSUME file'[t] = file[t], task'[t] = task[t] PROVE StaysTakenBack(t)
    BY <1>2 DEF StaysTakenBack, TakenBack
<1>3. ASSUME NEW c, NEW u, Finalize(c, u), file' = file PROVE StaysTakenBack(t)
    <2> DEFINE status == IF file[u] = "healthy" THEN "staged" ELSE "failed"
    <2>1. task' = [task EXCEPT ![u].status = status]
        BY <1>3, Zenon DEF Finalize, TaskAfter
    <2>2. u = t => status = "failed"
        BY DEF TakenBack
    <2> HIDE DEF status
    <2>3. /\ task'[t].status = "failed" /\ task'[t].cycle = task[t].cycle
          /\ task'[t].kind = task[t].kind
        BY <1>1, <2>1, <2>2 DEF TaskRows, TakenBack
    <2> QED
        BY <1>3, <2>3 DEF StaysTakenBack, TakenBack
<1>4. ASSUME NEW u \in Tasks, NEW row, IsNext(u, task), task' = [task EXCEPT ![u] = row],
             file' = file
      PROVE  StaysTakenBack(t)
    <2>1. task[u].status = "absent"
        BY <1>1, <1>4, NextRow
    <2>2. u # t
        BY <2>1 DEF TakenBack
    <2> QED
        BY <1>1, <1>2, <1>4, <2>2
<1>5. ASSUME NEW c \in Cycles, Pipeline(c) PROVE StaysTakenBack(t)
    <2>1. file' = file
        BY <1>5 DEF Pipeline, BeginAnalysis, ConcludeAnalysis, CreateApproved, PollMirrors,
                    PollSucceeds, Merge, PollFindsUpdateOver, Deadline, HandleFailedTask, Observe,
                    rows
    <2>2. CASE ConcludeAnalysis(c) \/ CreateApproved(c) \/ HandleFailedTask(c)
        BY <1>2, <1>4, <2>1, <2>2, CreatorEffect
    <2>4. CASE PollFindsUpdateOver(c) \/ Observe(c)
        BY <1>3, <2>1, <2>4 DEF PollFindsUpdateOver, Observe
    <2> QED
        BY <1>2, <1>5, <2>1, <2>2, <2>4
           DEF Pipeline, BeginAnalysis, PollMirrors, PollSucceeds, Merge, Deadline, rows
<1>6. CASE Restart
    <2>1. file' = file
        BY <1>6 DEF Restart
    <2>2. task' = task \/ \E c \in Cycles : Finalize(c, cycle[c].task)
        BY <1>6 DEF Restart, TakesUp
    <2> QED
        BY <1>2, <1>3, <2>1, <2>2
<1> QED
    BY <1>5, <1>6

\* A task that a rollback took back stays so, whatever happens to it and to the others.
LEMMA StepLeavesTakenBack ==
    ASSUME IInv, [Next]_vars, NEW t \in Tasks, TakenBack(t)
    PROVE  StaysTakenBack(t)
<1>1. TypeOK /\ RowsInOrder
    BY DEF IInv, Links
<1>2. CASE AutoStart \/ (\E s \in Sessions : Loop(s)) \/ UNCHANGED vars
    <2>1. task' = task /\ file' = file
        BY <1>2 DEF AutoStart, Loop, StartNextCycle, FollowCycle, LoopReturns, rows, vars
    <2> QED
        BY <2>1 DEF StaysTakenBack, TakenBack
<1> QED
    BY <1>1, <1>2, RunsLeaveTakenBack, PipelinesLeaveTakenBack DEF Next

\* What a step may do to the incident of a cycle: leave it, open it, or begin a
\* rollback.  That it was rolled back is written by Finalize alone.
KeepsIncident(c) == cycle'[c].incident \in {cycle[c].incident, "open", "rollback_running"}

\* The start of a cycle writes its status.
LEMMA CreatedKeepsIncident ==
    ASSUME TypeOK, NEW c \in Cycles, NEW d \in Cycles, CreateCycle(d)
    PROVE  KeepsIncident(c)
BY DEF TypeOK, CycleRows, CreateCycle, KeepsIncident

\* The operator's requests write no incident.
LEMMA OperatorKeepsIncident ==
    ASSUME TypeOK, NEW c \in Cycles, Operator
    PROVE  KeepsIncident(c)
<1>1. cycle \in [Cycles -> CycleRows] /\ cycle[c] \in CycleRows
    BY DEF TypeOK
<1>2. CASE StartCycle
    BY <1>2, CreatedKeepsIncident DEF StartCycle
<1>3. CASE StartSession \/ \E t \in Tasks : DecideTask(t) \/ RestartFromQA(t)
    BY <1>3 DEF StartSession, DecideTask, RestartFromQA, KeepsIncident
<1>4. CASE StopCycle
    BY <1>1, <1>4 DEF StopCycle, KeepsIncident, CycleRows
<1>5. CASE StopSession
    <2>1. cycle'[c] \in {cycle[c], [cycle[c] EXCEPT !.status = "paused"]}
        BY <1>5 DEF StopSession
    <2> QED
        BY <1>1, <2>1 DEF KeepsIncident, CycleRows
<1>6. ASSUME NEW d \in Cycles, ApproveCycle(d) PROVE KeepsIncident(c)
    BY <1>1, <1>6 DEF ApproveCycle, KeepsIncident, CycleRows
<1> QED
    BY <1>2, <1>3, <1>4, <1>5, <1>6 DEF Operator

\* Before its update is over, a pipeline writes incidents that are open or begin a rollback.
LEMMA PipelineKeepsIncident ==
    ASSUME TypeOK, NEW c \in Cycles, NEW d \in Cycles, Pipeline(d),
           ~PollFindsUpdateOver(d), ~Observe(d)
    PROVE  KeepsIncident(c)
<1>1. cycle \in [Cycles -> CycleRows] /\ cycle[c] \in CycleRows /\ cycle[d] \in CycleRows
    BY DEF TypeOK
<1>2. ASSUME NEW row, cycle' = [cycle EXCEPT ![d] = row],
             row.incident \in {cycle[d].incident, "open", "rollback_running"}
      PROVE  KeepsIncident(c)
    BY <1>1, <1>2 DEF KeepsIncident
<1>3. CASE BeginAnalysis(d) \/ PollMirrors(d) \/ Deadline(d)
    <2>1. \E x : cycle' = [cycle EXCEPT ![d].status = x]
        BY <1>3 DEF BeginAnalysis, PollMirrors, Deadline
    <2> QED
        BY <1>1, <2>1 DEF KeepsIncident, CycleRows
<1>4. CASE PollSucceeds(d)
    <2>1. cycle' = cycle \/ cycle' = [cycle EXCEPT ![d].status = "completed"]
        BY <1>4 DEF PollSucceeds
    <2> QED
        BY <1>1, <2>1 DEF KeepsIncident, CycleRows
<1>5. CASE Merge(d)
    <2>1. PICK merged \in BOOLEAN :
             cycle' = [cycle EXCEPT ![d] =
                 [[cycle[d] EXCEPT !.status = IF merged THEN "completed" ELSE "failed"]
                           EXCEPT !.merged = merged]]
        BY <1>5, Zenon DEF Merge
    <2> QED
        BY <1>1, <2>1 DEF KeepsIncident, CycleRows
<1>6. ASSUME NEW t, NEW row, NEW gate, NEW deploy, CreateAndStart(d, t, row, gate, deploy),
             DOMAIN row = DOMAIN cycle[d],
             row.incident \in {cycle[d].incident, "open", "rollback_running"}
      PROVE  KeepsIncident(c)
    <2> DEFINE final == [[[row EXCEPT !.task = t] EXCEPT !.gate = gate] EXCEPT !.deploy = deploy]
    <2>1. cycle' = [cycle EXCEPT ![d] = final]
        BY <1>6, Zenon DEF CreateAndStart
    <2>2. final.incident = row.incident
        BY <1>1, <1>6 DEF CycleRows
    <2> HIDE DEF final
    <2> QED
        BY <1>2, <1>6, <2>1, <2>2
<1>7. CASE ConcludeAnalysis(d)
    <2>1. PICK goal \in AnalyzeProblems :
            LET planned == Planned(d, goal) IN
            \/ \E t \in Tasks : \E gate, deploy :
                 CreateAndStart(d, t, [planned EXCEPT !.status = "implementing"], gate, deploy)
            \/ \E x : cycle' = [cycle EXCEPT ![d] = [planned EXCEPT !.status = x]]
        BY <1>7 DEF ConcludeAnalysis
    <2> DEFINE planned == Planned(d, goal)
    <2>2. ASSUME NEW x PROVE /\ DOMAIN [planned EXCEPT !.status = x] = DOMAIN cycle[d]
                             /\ [planned EXCEPT !.status = x].incident = cycle[d].incident
        <3>1. planned \in CycleRows /\ planned.incident = cycle[d].incident /\ cycle[d] \in CycleRows
            BY <1>1, <2>1, PlannedRow DEF TypeOK
        <3> HIDE DEF planned
        <3> QED
            BY <3>1 DEF CycleRows
    <2>3. CASE \E t \in Tasks : \E gate, deploy :
                 CreateAndStart(d, t, [planned EXCEPT !.status = "implementing"], gate, deploy)
        <3> HIDE DEF planned
        <3> QED
            BY <1>6, <2>2, <2>3
    <2>4. CASE \E x : cycle' = [cycle EXCEPT ![d] = [planned EXCEPT !.status = x]]
        <3> HIDE DEF planned
        <3> QED
            BY <1>2, <2>2, <2>4
    <2> QED
        BY <2>1, <2>3, <2>4
<1>8. CASE CreateApproved(d)
    BY <1>6, <1>8 DEF CreateApproved
<1>9. CASE HandleFailedTask(d)
    <2> DEFINE row == CreateIncident(cycle[d])
               stopped == [row EXCEPT !.status = "failed"]
               over == [row EXCEPT !.status = "failed", !.retries = @ + 1]
               retry == [row EXCEPT !.status = "implementing", !.retries = @ + 1]
    <2>1. /\ DOMAIN retry = DOMAIN cycle[d] /\ retry.incident = "open"
          /\ over.incident = "open"
          /\ \A u : AttachRollbackTask(stopped, u).incident = "rollback_running"
        BY <1>1 DEF CreateIncident, AttachRollbackTask, CycleRows
    <2>2. \E t \in Tasks :
             IF AutoRollback /\ task[t].committed
             THEN \E u \in Tasks :
                    cycle' = [cycle EXCEPT ![d] = AttachRollbackTask(stopped, u)]
             ELSE IF cycle[d].retries + 1 >= limit
             THEN cycle' = [cycle EXCEPT ![d] = over]
             ELSE \E u \in Tasks :
                    CreateAndStart(d, u, retry, cycle[d].gate, cycle[d].deploy)
        BY <1>9 DEF HandleFailedTask
    <2> HIDE DEF retry, over, stopped
    <2> QED
        BY <1>2, <1>6, <2>1, <2>2
<1> QED
    BY <1>3, <1>4, <1>5, <1>7, <1>8, <1>9 DEF Pipeline

\* Who finalizes a task for a cycle finalizes the latest task of that cycle.
LEMMA FinalizedIsOwn ==
    ASSUME TypeOK, RowsInOrder, LinksHold, NEW c \in Cycles,
           NEW t, Finalize(c, t), file' = file,
           t = cycle[c].task, t # NoRow,
           NEW d \in Cycles, cycle'[d].incident = "rolled_back"
    PROVE  \/ cycle[d].incident = "rolled_back"
           \/ Own(d, t) /\ file[t] = "rolled_back" /\ task'[t].status = "failed"
<1>1. Own(c, t) /\ t \in Tasks /\ task[t] \in TaskRows /\ cycle[c] \in CycleRows
    BY DEF LinksHold, Own, TypeOK
<1>2. cycle' = [cycle EXCEPT ![c] = CycleAfter(c, file[t])]
    BY DEF Finalize
<1>3. CASE d # c
    BY <1>2, <1>3 DEF TypeOK
<1>4. CASE d = c /\ file[t] = "rolled_back"
    <2>1. task' = [task EXCEPT ![t].status = "failed"]
        BY <1>4 DEF Finalize, TaskAfter
    <2> QED
        BY <1>1, <1>4, <2>1 DEF TypeOK, TaskRows
<1>5. CASE d = c /\ file[t] # "rolled_back"
    <2>1. CycleAfter(c, file[t]).incident \in {cycle[c].incident, "open"}
        BY <1>1, <1>5 DEF CycleAfter, UpdateRollbackStatus, CreateIncident, CycleRows
    <2>2. cycle'[c] = CycleAfter(c, file[t])
        BY <1>2 DEF TypeOK
    <2> QED
        BY <1>5, <2>1, <2>2
<1> QED
    BY <1>3, <1>4, <1>5

\* An incident becomes rolled back with the task whose file says so.
LEMMA IncidentComesFromFile ==
    ASSUME IInv, [Next]_vars, NEW c \in Cycles, cycle'[c].incident = "rolled_back"
    PROVE  \/ cycle[c].incident = "rolled_back"
           \/ \E t \in Tasks : Own(c, t) /\ file[t] = "rolled_back" /\ file' = file
                               /\ task'[t].status = "failed"
                               /\ task'[t].cycle = task[t].cycle /\ task'[t].kind = task[t].kind
<1>1. TypeOK /\ RowsInOrder /\ LinksHold
    BY DEF IInv, Links
<1>2. ASSUME KeepsIncident(c) PROVE cycle[c].incident = "rolled_back"
    BY <1>2 DEF KeepsIncident
<1>3. ASSUME NEW d \in Cycles, NEW t, Finalize(d, t), file' = file,
             t = cycle[d].task, t # NoRow
      PROVE  \/ cycle[c].incident = "rolled_back"
             \/ \E u \in Tasks : Own(c, u) /\ file[u] = "rolled_back" /\ file' = file
                                 /\ task'[u].status = "failed"
                                 /\ task'[u].cycle = task[u].cycle /\ task'[u].kind = task[u].kind
    <2>1. \/ cycle[c].incident = "rolled_back"
          \/ Own(c, t) /\ file[t] = "rolled_back" /\ task'[t].status = "failed"
        BY <1>1, <1>3, FinalizedIsOwn
    <2>2. task' = [task EXCEPT ![t] = TaskAfter(t, file[t])]
        BY <1>3 DEF Finalize
    <2>3. t \in Tasks => task'[t].cycle = task[t].cycle /\ task'[t].kind = task[t].kind
        BY <1>1, <2>2 DEF TypeOK, TaskRows, TaskAfter
    <2> QED
        BY <1>3, <2>1, <2>3 DEF Own
<1>4. CASE Operator
    BY <1>1, <1>2, <1>4, OperatorKeepsIncident
<1>5. ASSUME NEW d \in Cycles, Pipeline(d), ~PollFindsUpdateOver(d), ~Observe(d)
      PROVE  cycle[c].incident = "rolled_back"
    BY <1>1, <1>2, <1>5, PipelineKeepsIncident
<1>6. ASSUME NEW d \in Cycles, PollFindsUpdateOver(d) \/ Observe(d)
      PROVE  \E t : Finalize(d, t) /\ file' = file /\ t = cycle[d].task /\ t # NoRow
    <2>1. \A t : Watches(d, t) => job[d].kind = "watching" /\ job[d].on = t
        BY DEF Watches
    <2>2. CASE PollFindsUpdateOver(d)
        <3>1. PICK t \in Tasks : Watches(d, t) /\ Finalize(d, t) /\ file' = file
            BY <2>2, Zenon DEF PollFindsUpdateOver
        <3> QED
            BY <1>1, <2>1, <3>1 DEF LinksHold
    <2>3. CASE Observe(d)
        <3>1. job[d].kind = "observing" /\ Finalize(d, job[d].on) /\ file' = file
            BY <2>3, Zenon DEF Observe
        <3> QED
            BY <1>1, <3>1 DEF LinksHold
    <2> QED
        BY <1>6, <2>2, <2>3
<1>7. CASE Restart
    <2>1. \/ cycle' = cycle
          \/ \E d \in Cycles : cycle' = [cycle EXCEPT ![d].status = "failed"]
          \/ \E d \in Cycles : Finalize(d, cycle[d].task) /\ cycle[d].task # NoRow
        BY <1>7 DEF Restart, TakesUp
    <2>2. file' = file
        BY <1>7 DEF Restart
    <2>3. CASE \E d \in Cycles : cycle' = [cycle EXCEPT ![d].status = "failed"]
        BY <1>1, <2>3 DEF TypeOK, CycleRows
    <2> QED
        BY <1>3, <2>1, <2>2, <2>3
<1>8. CASE AutoStart
    <2>1. cycle' = cycle \/ \E d \in Cycles : CreateCycle(d)
        BY <1>8 DEF AutoStart
    <2> QED
        BY <1>1, <1>2, <2>1, CreatedKeepsIncident
<1>9. ASSUME NEW s \in Sessions, Loop(s) PROVE cycle[c].incident = "rolled_back"
    <2>1. cycle' = cycle \/ \E d \in Cycles : CreateCycle(d)
        BY <1>9 DEF Loop, StartNextCycle, FollowCycle, LoopReturns, rows
    <2> QED
        BY <1>1, <1>2, <2>1, CreatedKeepsIncident
<1>10. CASE (\E t \in Tasks : Run(t) \/ Watchdog(t)) \/ UNCHANGED vars
    <2>1. cycle' = cycle
        BY <1>10 DEF Run, RunStops, RunWorks, Publish, Deploy, Finish, Watchdog, rows, vars
    <2> QED
        BY <2>1
<1> QED
    BY <1>3, <1>4, <1>5, <1>6, <1>7, <1>8, <1>9, <1>10 DEF Next

\* A cycle whose incident says rolled back has a task the watchdog took back, through
\* restarts, retries and everything an operator does.
THEOREM RolledBackIncidentsAreTrue == Spec => []RolledBackIncidentIsTrue
<1>1. Init => RolledBackIncidentIsTrue
    BY DEF Init, RolledBackIncidentIsTrue, NoCycle
<1>2. IInv /\ RolledBackIncidentIsTrue /\ [Next]_vars => RolledBackIncidentIsTrue'
    <2> SUFFICES ASSUME IInv, RolledBackIncidentIsTrue, [Next]_vars,
                        NEW c \in Cycles, cycle'[c].incident = "rolled_back"
                 PROVE  \E t \in Tasks : /\ task'[t].cycle = c /\ task'[t].kind = "work"
                                         /\ file'[t] = "rolled_back" /\ task'[t].status = "failed"
        BY DEF RolledBackIncidentIsTrue, Workers
    <2>1. CASE cycle[c].incident = "rolled_back"
        <3>1. PICK t \in Workers(c) : TakenBack(t)
            BY <2>1 DEF RolledBackIncidentIsTrue, TakenBack
        <3>2. t \in Tasks /\ task[t].cycle = c /\ task[t].kind = "work"
            BY DEF Workers
        <3> QED
            BY <3>1, <3>2, StepLeavesTakenBack DEF StaysTakenBack, TakenBack
    <2>2. CASE cycle[c].incident # "rolled_back"
        BY <2>2, IncidentComesFromFile DEF Own
    <2> QED
        BY <2>1, <2>2
<1> QED
    BY <1>1, <1>2, InvariantHolds, PTL DEF Spec
===============================================================================
