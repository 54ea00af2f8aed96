---------------------------- MODULE SelfImprovement ----------------------------
(***************************************************************************)
(* The self-improvement service of the orchestrator: cycles that analyse   *)
(* the system, create a task for it and follow that task, sessions that    *)
(* run several cycles in a row, and what a restart of the orchestrator     *)
(* leaves of both.                                                         *)
(*                                                                         *)
(* Rows (cycle, session, task) and the watchdog's state file survive a     *)
(* restart; the coroutines (job, loops, running) do not.  A cycle has one  *)
(* coroutine:                                                              *)
(*   spawned --> analyzing --> watching --> merging --> none               *)
(*   creating ------------------^          (approved without a task)       *)
(*   observing --> none                    (after a restart)               *)
(* Between two awaits a coroutine is atomic: everything from the answer of *)
(* the analysis to the first sleep of the monitor is one step.             *)
(*                                                                         *)
(* Tasks are seen from outside, as the monitor sees them: a run takes them *)
(* through "working" to a gate, a pull request, the self-update and QA.    *)
(***************************************************************************)
EXTENDS Naturals, FiniteSets, SelfImprovementPolicy

CONSTANTS
    RawModes,           \* settings of SELF_IMPROVEMENT_MODE to start with
    DeployAfterSuccess, \* SELF_IMPROVEMENT_DEPLOY_AFTER_SUCCESS
    AutoRollback,       \* SELF_IMPROVEMENT_AUTO_ROLLBACK
    RetryLimits,        \* values of SELF_IMPROVEMENT_MAX_AUTO_FIX_ATTEMPTS
    DailyLimit,         \* SELF_IMPROVEMENT_MAX_CYCLES_PER_DAY, for the one day modelled
    SessionCycles,      \* max_cycles of a session
    MaxCycles, MaxTasks, MaxSessions,   \* bounds: rows
    MaxDisturbances, MaxRestarts        \* bounds: operator actions and restarts, restarts

ASSUME SettingsAssumption ==
    /\ DeployAfterSuccess \in BOOLEAN /\ AutoRollback \in BOOLEAN
    /\ RetryLimits \subseteq Nat /\ DailyLimit \in Nat /\ SessionCycles \in Nat \ {0}
ASSUME RowsAssumption ==
    /\ MaxCycles \in Nat /\ MaxTasks \in Nat /\ MaxSessions \in Nat
    /\ MaxDisturbances \in Nat /\ MaxRestarts \in Nat

Cycles == 1..MaxCycles
Tasks == 1..MaxTasks
Sessions == 1..MaxSessions
NoRow == 0

VARIABLES
    mode,       \* SELF_IMPROVEMENT_MODE, a setting
    limit,      \* SELF_IMPROVEMENT_MAX_AUTO_FIX_ATTEMPTS, a setting
    cycle,      \* rows of self_improvement_cycles
    session,    \* rows of self_improvement_sessions
    task,       \* rows of tasks, as far as the service looks at them
    file,       \* status in the self-update watchdog's file of a task
    job,        \* the coroutine of a cycle and the task it follows
    loops,      \* sessions whose coroutine is alive
    running,    \* tasks with a background run
    autoStart,  \* _auto_start_self_improvement is scheduled
    decisions, restarts   \* counters for the bounds

settings == <<mode, limit>>
rows == <<cycle, session, task, file>>
coroutines == <<job, loops, running, autoStart>>
bounds == <<decisions, restarts>>
vars == <<settings, rows, coroutines, bounds>>

\* PLANNING, IMPLEMENTING, TESTING and DEPLOYING count as implementing here.
Active == {"analyzing", "implementing", "post_deploy_testing"}
CycleStatuses == Active \cup {"absent", "completed", "failed", "paused", "awaiting"}
SessionStatuses == {"absent", "running", "completed", "failed", "stopped", "awaiting"}
TaskStatuses == {"absent", "new", "working", "gated", "pr_created", "self_updating",
                 "staged", "done", "failed"}
Kinds == {"work", "revert", "restore"}
Pending == {"armed", "rollback_running"}   \* MONITORING counts as armed here
FileStatuses == Pending \cup {"absent", "healthy", "timed_out", "rolled_back",
                              "rollback_failed", "dispatch_failed"}
Incidents == {"none", "open", "rollback_running", "rolled_back"}
JobKinds == {"none", "spawned", "analyzing", "creating", "watching", "merging", "observing"}

Idle == [kind |-> "none", on |-> NoRow]

CycleRows == [status : CycleStatuses, risk : Risks, compact : BOOLEAN,
              task : Tasks \cup {NoRow}, retries : Nat,
              deploy : BOOLEAN, gate : BOOLEAN, approved : BOOLEAN,
              rollback : Tasks \cup {NoRow}, incident : Incidents, merged : BOOLEAN]
SessionRows == [status : SessionStatuses, current : Cycles \cup {NoRow}, force : BOOLEAN,
                started : 0..SessionCycles, completed : 0..SessionCycles,
                success : 0..SessionCycles, failed : 0..SessionCycles]
TaskRows == [status : TaskStatuses, cycle : Cycles \cup {NoRow}, kind : Kinds,
             deploy : BOOLEAN, gate : BOOLEAN, approved : BOOLEAN,
             committed : BOOLEAN, failedQA : BOOLEAN]
Jobs == [kind : JobKinds, on : Tasks \cup {NoRow}]

TypeOK ==
    /\ mode \in RawModes /\ limit \in RetryLimits
    /\ cycle \in [Cycles -> CycleRows]
    /\ session \in [Sessions -> SessionRows]
    /\ task \in [Tasks -> TaskRows]
    /\ file \in [Tasks -> FileStatuses]
    /\ job \in [Cycles -> Jobs]
    /\ loops \subseteq Sessions /\ running \subseteq Tasks
    /\ autoStart \in BOOLEAN
    /\ decisions \in 0..MaxDisturbances /\ restarts \in 0..MaxRestarts

NoCycle == [status |-> "absent", risk |-> "low", compact |-> FALSE,
            task |-> NoRow, retries |-> 0, deploy |-> FALSE, gate |-> FALSE,
            approved |-> FALSE, rollback |-> NoRow, incident |-> "none", merged |-> FALSE]
NoSession == [status |-> "absent", current |-> NoRow, force |-> FALSE, started |-> 0,
              completed |-> 0, success |-> 0, failed |-> 0]
NoTask == [status |-> "absent", cycle |-> NoRow, kind |-> "work", deploy |-> FALSE,
           gate |-> FALSE, approved |-> FALSE, committed |-> FALSE, failedQA |-> FALSE]

Init ==
    /\ mode \in RawModes /\ limit \in RetryLimits
    /\ cycle = [c \in Cycles |-> NoCycle]
    /\ session = [s \in Sessions |-> NoSession]
    /\ task = [t \in Tasks |-> NoTask]
    /\ file = [t \in Tasks |-> "absent"]
    /\ job = [c \in Cycles |-> Idle]
    /\ loops = {} /\ running = {}
    /\ autoStart = (NormalizeMode(mode) = "automatic")
    /\ decisions = 0 /\ restarts = 0

-------------------------------------------------------------------------------
(* Queries and rows *)

Rows(table) == {r \in DOMAIN table : table[r].status # "absent"}
ActiveCycles == {c \in Cycles : cycle[c].status \in Active}
ActiveSessions == {s \in Sessions : session[s].status \in {"running", "awaiting"}}
DailyLimitReached == DailyLimit > 0 /\ Cardinality(Rows(cycle)) >= DailyLimit

\* The next row of a table, in the order of creation.
IsNext(r, table) == r = Cardinality(Rows(table)) + 1

\* _create_record and the pipeline that start_cycle schedules.
CreateCycle(c) ==
    /\ IsNext(c, cycle)
    /\ cycle' = [cycle EXCEPT ![c].status = "analyzing"]
    /\ job' = [job EXCEPT ![c] = [kind |-> "spawned", on |-> NoRow]]

MayStart(force) == (force \/ ~DailyLimitReached) /\ ActiveCycles = {}

NewTask(c, kind, deploy, gate) ==
    [status |-> "new", cycle |-> c, kind |-> kind, deploy |-> deploy, gate |-> gate,
     approved |-> FALSE, committed |-> FALSE, failedQA |-> FALSE]

\* Operator actions and restarts share one bound.
Undisturbed == decisions + restarts < MaxDisturbances
Decided == Undisturbed /\ decisions' = decisions + 1 /\ UNCHANGED restarts

-------------------------------------------------------------------------------
(* Operator *)

StartCycle ==
    /\ Decided
    /\ \E c \in Cycles, force \in BOOLEAN : MayStart(force) /\ CreateCycle(c)
    /\ UNCHANGED <<settings, session, task, file, loops, running, autoStart>>

\* The start on boot in automatic mode, which gives up when a cycle is active.
AutoStart ==
    /\ autoStart
    /\ autoStart' = FALSE
    /\ \/ \E c \in Cycles : MayStart(FALSE) /\ CreateCycle(c)
       \/ ~MayStart(FALSE) /\ UNCHANGED <<cycle, job>>
    /\ UNCHANGED <<settings, session, task, file, loops, running, bounds>>

StartSession ==
    /\ Decided
    /\ ActiveSessions = {}
    /\ \E s \in Sessions, force \in BOOLEAN :
         /\ IsNext(s, session) /\ MayStart(force)
         /\ session' = [session EXCEPT ![s].status = "running", ![s].force = force]
         /\ loops' = loops \cup {s}
    /\ UNCHANGED <<settings, cycle, task, file, job, running, autoStart>>

\* The handler stops the latest active cycle.  Its coroutine is not told.
LatestActive(c) == c \in ActiveCycles /\ \A d \in ActiveCycles : d <= c

StopCycle_AsSession ==
    /\ Decided
    /\ \E c \in Cycles :
         LatestActive(c) /\ cycle' = [cycle EXCEPT ![c].status = "stopped"]
    /\ UNCHANGED <<settings, session, task, file, coroutines>>

StopCycle ==
    /\ Decided
    /\ \E c \in Cycles :
         LatestActive(c) /\ cycle' = [cycle EXCEPT ![c].status = "paused"]
    /\ UNCHANGED <<settings, session, task, file, coroutines>>

StopSession ==
    /\ Decided
    /\ \E s \in ActiveSessions :
         /\ session' = [session EXCEPT ![s].status = "stopped"]
         /\ cycle' = [c \in Cycles |->
              IF c = session[s].current /\ c \in ActiveCycles
              THEN [cycle[c] EXCEPT !.status = "paused"] ELSE cycle[c]]
    /\ UNCHANGED <<settings, task, file, coroutines>>

\* approve_risky_cycle: whether another cycle is active is not asked here.
ApproveCycle(c) ==
    /\ Decided
    /\ cycle[c].status = "awaiting"
    /\ cycle' = [cycle EXCEPT ![c].status = "implementing", ![c].approved = TRUE]
    /\ IF cycle[c].task # NoRow
       THEN /\ task' = [task EXCEPT ![cycle[c].task].approved = TRUE]
            /\ running' = running \cup {cycle[c].task}
            /\ UNCHANGED job
       ELSE /\ job' = [job EXCEPT ![c] = [kind |-> "creating", on |-> NoRow]]
            /\ UNCHANGED <<task, running>>
    /\ UNCHANGED <<settings, session, file, loops, autoStart>>

\* The approvals API of the task itself.
DecideTask(t) ==
    /\ Decided
    /\ task[t].status = "gated" /\ ~task[t].approved
    /\ \/ /\ task' = [task EXCEPT ![t].approved = TRUE]
          /\ running' = running \cup {t}
       \/ /\ task' = [task EXCEPT ![t].status = "failed"]
          /\ UNCHANGED running
    /\ UNCHANGED <<settings, cycle, session, file, job, loops, autoStart>>

\* An operator restarts QA of a task that waits for its self-update.
RestartFromQA(t) ==
    /\ Decided
    /\ task[t].status = "self_updating" /\ t \notin running
    /\ task' = [task EXCEPT ![t].status = "staged"]
    /\ running' = running \cup {t}
    /\ UNCHANGED <<settings, cycle, session, file, job, loops, autoStart>>

-------------------------------------------------------------------------------
(* Tasks and the watchdog, as their own modules have them in detail *)

Runs(t, status) == task' = [task EXCEPT ![t].status = status] /\ UNCHANGED running
Stops(t, status) == task' = [task EXCEPT ![t].status = status] /\ running' = running \ {t}
\* infer_task_profile gives the tasks of a goal that reads like a tiny fix a compact
\* profile.  Its path has no documentation stage and so no gate at all.  A rollback
\* has a goal of its own.
Compact(t) == task[t].kind = "work" /\ cycle[task[t].cycle].compact

\* A run ends at once when the task is over, gated or waiting for its update.
RunStops(t) ==
    /\ t \in running
    /\ \/ task[t].status \in {"done", "failed", "self_updating"}
       \/ task[t].status = "gated" /\ ~task[t].approved
    /\ running' = running \ {t}
    /\ UNCHANGED <<settings, rows, job, loops, autoStart, bounds>>

RunWorks(t) ==
    /\ t \in running
    /\ \/ task[t].status = "new" /\ Runs(t, "working")
       \/ task[t].status = "gated" /\ task[t].approved /\ Runs(t, "working")
       \/ task[t].status = "working" /\ ~task[t].approved /\ ~Compact(t) /\ Stops(t, "gated")
       \/ task[t].status = "working" /\ Stops(t, "failed")
    /\ UNCHANGED <<settings, cycle, session, file, job, loops, autoStart, bounds>>

Publish_Ungated(t) ==
    /\ t \in running /\ task[t].status = "working"
    /\ task' = [task EXCEPT ![t].status = "pr_created", ![t].committed = TRUE]
    /\ UNCHANGED <<settings, cycle, session, file, coroutines, bounds>>

\* The github stage; force_publish_approval keeps a task away from it, unless its
\* path has no gate.
Publish(t) ==
    /\ t \in running /\ task[t].status = "working"
    /\ task[t].gate /\ ~Compact(t) => task[t].approved
    /\ task' = [task EXCEPT ![t].status = "pr_created", ![t].committed = TRUE]
    /\ UNCHANGED <<settings, cycle, session, file, coroutines, bounds>>

\* The deploy stage arms the watchdog, then reports the dispatch or its failure.  The
\* armed state is written back, also over a confirmation that came before the dispatch
\* returned; a request to arm that the stage gave up on may still be handled.
Deploy(t) ==
    /\ t \in running /\ task[t].status = "pr_created" /\ task[t].deploy
    /\ \/ /\ file[t] = "absent"
          /\ file' = [file EXCEPT ![t] = "armed"]
          /\ UNCHANGED <<task, running>>
       \/ /\ file[t] # "absent"
          /\ Stops(t, "self_updating")
          /\ file' = [file EXCEPT ![t] = IF @ = "healthy" THEN "armed" ELSE @]
       \/ /\ Stops(t, "failed")
          /\ file' \in {[file EXCEPT ![t] = status] : status \in
                          IF file[t] = "absent" THEN {"absent", "armed"}
                          ELSE {"dispatch_failed"}}
    /\ UNCHANGED <<settings, cycle, session, job, loops, autoStart, bounds>>

\* QA after a confirmed update; memory at the end of every path.
Finish(t) ==
    /\ t \in running
    /\ \/ /\ task[t].status = "staged" \/ (task[t].status = "pr_created" /\ ~task[t].deploy)
          /\ Stops(t, "done")
       \/ /\ task[t].status = "staged"
          /\ task' = [task EXCEPT ![t].status = "failed", ![t].failedQA = TRUE]
          /\ running' = running \ {t}
    /\ UNCHANGED <<settings, cycle, session, file, job, loops, autoStart, bounds>>

Run(t) == RunWorks(t) \/ Publish(t) \/ Deploy(t) \/ Finish(t) \/ RunStops(t)

\* What the watchdog writes next.  Without a known commit it restores nothing, and a
\* failed dispatch, which the deploy worker wrote, is overwritten by its next poll.
WatchdogStep == [armed |-> {"healthy", "timed_out"},
                 timed_out |-> {"rollback_running", "rollback_failed"},
                 rollback_running |-> {"rolled_back", "rollback_failed"},
                 dispatch_failed |-> {"armed"}]

Watchdog(t) ==
    /\ file[t] \in DOMAIN WatchdogStep
    /\ \E status \in WatchdogStep[file[t]] : file' = [file EXCEPT ![t] = status]
    /\ UNCHANGED <<settings, cycle, session, task, coroutines, bounds>>

-------------------------------------------------------------------------------
(* The pipeline of a cycle *)

\* _run_pipeline up to the call of the LLM: the status is written again.
BeginAnalysis(c) ==
    /\ job[c].kind = "spawned"
    /\ job' = [job EXCEPT ![c].kind = "analyzing"]
    /\ cycle' = [cycle EXCEPT ![c].status = "analyzing"]
    /\ UNCHANGED <<settings, session, task, file, loops, running, autoStart, bounds>>

\* _create_and_start_task: the task, its run, and the cycle that follows it.
CreateAndStart(c, t, row, gate, deploy) ==
    /\ IsNext(t, task)
    /\ task' = [task EXCEPT ![t] = NewTask(c, "work", deploy, gate)]
    /\ running' = running \cup {t}
    /\ cycle' = [cycle EXCEPT ![c] = [row EXCEPT !.task = t, !.gate = gate, !.deploy = deploy]]
    /\ job' = [job EXCEPT ![c] = [kind |-> "watching", on |-> t]]

Planned(c, goal) ==
    [cycle[c] EXCEPT !.risk = ClassifyRisk(goal), !.compact = TinyFix \in goal]

\* The rest of _run_pipeline.
ConcludeAnalysis(c) ==
    /\ job[c].kind = "analyzing"
    /\ \E goal \in AnalyzeProblems :
         LET decision == Decide(mode, ClassifyRisk(goal), DeployAfterSuccess)
             planned == Planned(c, goal)
         IN IF decision.executes
            THEN \E t \in Tasks :
                   CreateAndStart(c, t, [planned EXCEPT !.status = "implementing"],
                                  decision.publishApproval, decision.deploy)
            ELSE /\ cycle' = [cycle EXCEPT ![c] =
                       [planned EXCEPT !.status = IF decision.awaits THEN "awaiting"
                                                  ELSE "completed"]]
                 /\ job' = [job EXCEPT ![c] = Idle]
                 /\ UNCHANGED <<task, running>>
    /\ UNCHANGED <<settings, session, file, loops, autoStart, bounds>>

CreateApproved_Deploys(c) ==
    /\ job[c].kind = "creating"
    /\ \E t \in Tasks : CreateAndStart(c, t, cycle[c], FALSE, TRUE)
    /\ UNCHANGED <<settings, session, file, loops, autoStart, bounds>>

\* The same after an approval without a task: neither gate nor deployment.
CreateApproved(c) ==
    /\ job[c].kind = "creating"
    /\ \E t \in Tasks : CreateAndStart(c, t, cycle[c], FALSE, FALSE)
    /\ UNCHANGED <<settings, session, file, loops, autoStart, bounds>>

-------------------------------------------------------------------------------
(* The monitor: one poll each *)

Watches(c, t) == job[c] = [kind |-> "watching", on |-> t]

Mirror(t, c) ==
    CASE task[t].status = "gated" -> "awaiting"
      [] task[t].status = "pr_created" /\ cycle[c].deploy -> "implementing"
      [] task[t].status = "staged" /\ cycle[c].deploy -> "post_deploy_testing"
      [] task[t].status = "self_updating" -> "implementing"
      [] OTHER -> cycle[c].status

Successful(t, c) ==
    task[t].status = "done" \/ (task[t].status = "pr_created" /\ ~cycle[c].deploy)

PollMirrors(c) ==
    /\ \E t \in Tasks :
         /\ Watches(c, t)
         /\ task[t].status # "failed" /\ ~Successful(t, c)
         /\ task[t].status = "self_updating" => file[t] \in Pending \cup {"absent"}
         /\ Mirror(t, c) # cycle[c].status
         /\ cycle' = [cycle EXCEPT ![c].status = Mirror(t, c)]
    /\ UNCHANGED <<settings, session, task, file, coroutines, bounds>>

\* _finalize_successful_task up to the call that merges the pull request.
PollSucceeds(c) ==
    /\ \E t \in Tasks :
         /\ Watches(c, t) /\ Successful(t, c)
         /\ IF cycle[c].deploy
            THEN job' = [job EXCEPT ![c].kind = "merging"] /\ UNCHANGED cycle
            ELSE /\ cycle' = [cycle EXCEPT ![c].status = "completed"]
                 /\ job' = [job EXCEPT ![c] = Idle]
    /\ UNCHANGED <<settings, session, task, file, loops, running, autoStart, bounds>>

\* GitHub's answer.  What happened to the cycle meanwhile is overwritten.
Merge(c) ==
    /\ job[c].kind = "merging"
    /\ job' = [job EXCEPT ![c] = Idle]
    /\ \E merged \in BOOLEAN :
         cycle' = [cycle EXCEPT ![c].status = IF merged THEN "completed" ELSE "failed",
                                ![c].merged = merged]
    /\ UNCHANGED <<settings, session, task, file, loops, running, autoStart, bounds>>

\* _finalize_cycle_from_watchdog: what the outcome makes of the task and the cycle.
TaskAfter(t, outcome) ==
    [task[t] EXCEPT !.status = IF outcome = "healthy" THEN "staged" ELSE "failed"]
CreateIncident(row) == [row EXCEPT !.incident = "open"]
AttachRollbackTask(row, t) == [row EXCEPT !.rollback = t, !.incident = "rollback_running"]
UpdateRollbackStatus(row, outcome) ==
    IF outcome = "rolled_back" THEN [row EXCEPT !.incident = "rolled_back"]
    ELSE IF row.incident = "none" THEN CreateIncident(row) ELSE row

CycleAfter_TimeoutIsRollback(c, outcome) ==
    IF outcome = "healthy" THEN [cycle[c] EXCEPT !.status = "post_deploy_testing"]
    ELSE [cycle[c] EXCEPT !.status = "failed", !.incident = "rolled_back"]
CycleAfter(c, outcome) ==
    IF outcome = "healthy" THEN [cycle[c] EXCEPT !.status = "post_deploy_testing"]
    ELSE UpdateRollbackStatus([cycle[c] EXCEPT !.status = "failed"], outcome)

Finalize(c, t) ==
    /\ task' = [task EXCEPT ![t] = TaskAfter(t, file[t])]
    /\ cycle' = [cycle EXCEPT ![c] = CycleAfter(c, file[t])]

\* QA goes on once the update is confirmed.
Continued(t) == IF file[t] = "healthy" THEN {t} ELSE {}

PollFindsUpdateOver(c) ==
    /\ \E t \in Tasks :
         /\ Watches(c, t) /\ task[t].status = "self_updating"
         /\ file[t] \notin Pending \cup {"absent"}
         /\ Finalize(c, t)
         /\ running' = running \cup Continued(t)
    /\ job' = [job EXCEPT ![c] = Idle]
    /\ UNCHANGED <<settings, session, file, loops, autoStart, bounds>>

Deadline_Silent(c) ==
    /\ job[c].kind = "watching"
    /\ job' = [job EXCEPT ![c] = Idle]
    /\ UNCHANGED <<settings, rows, loops, running, autoStart, bounds>>

\* The loop's deadline.  The task goes on.
Deadline(c) ==
    /\ job[c].kind = "watching"
    /\ job' = [job EXCEPT ![c] = Idle]
    /\ cycle' = [cycle EXCEPT ![c].status = "failed"]
    /\ UNCHANGED <<settings, session, task, file, loops, running, autoStart, bounds>>

-------------------------------------------------------------------------------
(* Failure of the followed task *)

\* _should_host_rollback_after_failure asks the metadata of the cycle for a
\* deployment_target, which only the metadata of its tasks is ever given.
CycleTarget(c) == "unset"

Undo(c, t) ==
    IF /\ cycle[c].deploy /\ CycleTarget(c) = "self"
       /\ file[t] # "absent" /\ task[t].failedQA
    THEN "restore" ELSE "revert"

\* _handle_failed_task: an incident, then a rollback task for a commit, the last
\* retry, or another task for the same goal.
HandleFailedTask(c) ==
    LET row == CreateIncident(cycle[c]) IN
    /\ \E t \in Tasks :
         /\ Watches(c, t) /\ task[t].status = "failed"
         /\ IF AutoRollback /\ task[t].committed
            THEN \E u \in Tasks :
                   /\ IsNext(u, task)
                   /\ task' = [task EXCEPT ![u] =
                        NewTask(c, Undo(c, t), FALSE, FALSE)]
                   /\ cycle' = [cycle EXCEPT ![c] =
                        AttachRollbackTask([row EXCEPT !.status = "failed"], u)]
                   /\ running' = running \cup {u}
                   /\ job' = [job EXCEPT ![c] = Idle]
            ELSE IF cycle[c].retries + 1 >= limit
            THEN /\ cycle' = [cycle EXCEPT ![c] =
                        [row EXCEPT !.status = "failed", !.retries = @ + 1]]
                 /\ job' = [job EXCEPT ![c] = Idle]
                 /\ UNCHANGED <<task, running>>
            ELSE \E u \in Tasks :
                   CreateAndStart(c, u, [row EXCEPT !.status = "implementing", !.retries = @ + 1],
                                  cycle[c].gate, cycle[c].deploy)
    /\ UNCHANGED <<settings, session, file, loops, autoStart, bounds>>

-------------------------------------------------------------------------------
(* After a restart: the external monitor *)

Observe(c) ==
    /\ job[c].kind = "observing"
    /\ file[job[c].on] \notin Pending
    /\ job' = [job EXCEPT ![c] = Idle]
    /\ Finalize(c, job[c].on)
    /\ running' = running \cup Continued(job[c].on)
    /\ UNCHANGED <<settings, session, file, loops, autoStart, bounds>>

Pipeline(c) ==
    \/ BeginAnalysis(c) \/ ConcludeAnalysis(c) \/ CreateApproved(c) \/ PollMirrors(c)
    \/ PollSucceeds(c) \/ Merge(c) \/ PollFindsUpdateOver(c) \/ Deadline(c)
    \/ HandleFailedTask(c) \/ Observe(c)

\* The coroutines of the process are gone, but for the given observers.
KeepsOnly(observed) ==
    job' = [c \in Cycles |-> IF c \in observed THEN [kind |-> "observing", on |-> cycle[c].task]
                             ELSE Idle]

\* The self-update of a cycle is followed on from the file; any other work fails.
TakesUp(c, t) ==
    LET updated == t # NoRow /\ cycle[c].deploy /\ file[t] # "absent"
        pending == updated /\ file[t] \in Pending
    IN \/ /\ pending
          /\ KeepsOnly({c}) /\ running' = {} /\ UNCHANGED <<cycle, task>>
       \/ /\ updated /\ ~pending
          /\ KeepsOnly({}) /\ Finalize(c, t) /\ running' = Continued(t)
       \/ /\ ~updated
          /\ cycle' = [cycle EXCEPT ![c].status = "failed"]
          /\ KeepsOnly({}) /\ running' = {} /\ UNCHANGED task

\* The process dies and starts again.  Only the latest active cycle is looked at.
Restart ==
    /\ Undisturbed /\ restarts < MaxRestarts /\ restarts' = restarts + 1
    /\ loops' = {s \in Sessions : session[s].status = "running"}
    /\ autoStart' = (NormalizeMode(mode) = "automatic")
    /\ \/ ActiveCycles = {} /\ KeepsOnly({}) /\ running' = {} /\ UNCHANGED <<cycle, task>>
       \/ \E c \in Cycles : LatestActive(c) /\ TakesUp(c, cycle[c].task)
    /\ UNCHANGED <<settings, session, file, decisions>>

-------------------------------------------------------------------------------
(* The loop of a session, one iteration a step *)

SessionEnds(s, row) ==
    /\ session' = [session EXCEPT ![s] = row]
    /\ loops' = loops \ {s}

\* The next cycle, unless another one is active, the day is used up or the
\* session is.
StartNextCycle(s) ==
    LET row == session[s] IN
    /\ s \in loops /\ row.status = "running" /\ row.current = NoRow
    /\ \/ /\ ~MayStart(row.force) \/ row.started >= SessionCycles
          /\ SessionEnds(s, [row EXCEPT !.status =
                 IF MayStart(row.force) /\ row.success > 0 THEN "completed" ELSE "failed"])
          /\ UNCHANGED <<cycle, job>>
       \/ /\ MayStart(row.force) /\ row.started < SessionCycles
          /\ \E c \in Cycles :
               /\ CreateCycle(c)
               /\ session' = [session EXCEPT ![s].current = c, ![s].started = @ + 1]
          /\ UNCHANGED loops
    /\ UNCHANGED <<settings, task, file, running, autoStart, bounds>>

RollbackPending(c) ==
    cycle[c].rollback # NoRow /\ task[cycle[c].rollback].status \notin {"done", "failed"}

\* What a concluded cycle does to the session: its goal or error may repeat the
\* last one, which counts as stagnation.
JudgeCycle(s, c) ==
    LET row == [session[s] EXCEPT !.completed = @ + 1, !.current = NoRow]
        good == [row EXCEPT !.success = @ + 1]
        bad == [row EXCEPT !.failed = @ + 1]
        spent == row.completed >= SessionCycles
    IN CASE cycle[c].status = "awaiting" ->
              SessionEnds(s, [session[s] EXCEPT !.status = "awaiting"])
         [] cycle[c].status = "completed" ->
              IF spent \/ (~row.force /\ DailyLimitReached)
              THEN SessionEnds(s, [good EXCEPT !.status = "completed"])
              ELSE session' = [session EXCEPT ![s] = good] /\ UNCHANGED loops
         [] cycle[c].status \in {"failed", "paused"} ->
              \/ (spent \/ row.completed > 1) /\ SessionEnds(s, [bad EXCEPT !.status = "failed"])
              \/ ~spent /\ session' = [session EXCEPT ![s] = bad] /\ UNCHANGED loops

FollowCycle_EvenStopped(s) ==
    LET c == session[s].current IN
    /\ s \in loops /\ c # NoRow
    /\ cycle[c].status \notin Active /\ ~RollbackPending(c)
    /\ JudgeCycle(s, c)
    /\ UNCHANGED <<settings, cycle, task, file, job, running, autoStart, bounds>>

FollowCycle_KeepsCurrent(s) ==
    LET c == session[s].current IN
    /\ s \in loops /\ session[s].status = "running" /\ c # NoRow
    /\ cycle[c].status \in {"failed", "paused"} /\ session[s].completed < SessionCycles
    /\ session' = [session EXCEPT ![s].completed = @ + 1, ![s].failed = @ + 1]
    /\ UNCHANGED <<settings, cycle, task, file, job, loops, running, autoStart, bounds>>

FollowCycle(s) ==
    LET c == session[s].current IN
    /\ s \in loops /\ session[s].status = "running" /\ c # NoRow
    /\ cycle[c].status \notin Active /\ ~RollbackPending(c)
    /\ JudgeCycle(s, c)
    /\ UNCHANGED <<settings, cycle, task, file, job, running, autoStart, bounds>>

\* Stopped by the operator, or waiting for one: the coroutine returns.
LoopReturns(s) ==
    /\ s \in loops /\ session[s].status # "running"
    /\ loops' = loops \ {s}
    /\ UNCHANGED <<settings, rows, job, running, autoStart, bounds>>

Loop(s) == StartNextCycle(s) \/ FollowCycle(s) \/ LoopReturns(s)

-------------------------------------------------------------------------------
Operator ==
    \/ StartCycle \/ StartSession \/ StopCycle \/ StopSession
    \/ \E c \in Cycles : ApproveCycle(c)
    \/ \E t \in Tasks : DecideTask(t) \/ RestartFromQA(t)

Next ==
    \/ Operator \/ AutoStart \/ Restart
    \/ \E c \in Cycles : Pipeline(c)
    \/ \E s \in Sessions : Loop(s)
    \/ \E t \in Tasks : Run(t) \/ Watchdog(t)

Spec == Init /\ [][Next]_vars

-------------------------------------------------------------------------------
(* Properties *)

Workers(c) == {t \in Tasks : task[t].cycle = c /\ task[t].kind = "work"}

\* A change an analysis rated high or critical is published only after a human
\* approved the cycle or its task, through every retry.  Not so when its goal reads
\* like a tiny fix: that path has no gate (forced_publication shows it).
RiskyChangeIsApproved ==
    \A t \in Tasks :
        LET c == task[t].cycle IN
        c # NoRow /\ task[t].committed /\ task[t].kind = "work"
          /\ cycle[c].risk \in Risky /\ ~cycle[c].compact
        => cycle[c].approved \/ task[t].approved

\* Nothing reaches the host or the main branch on its own unless the policy
\* grants a deployment for the mode and the risk; an approval does not.
DeployWasGranted ==
    \A t \in Tasks :
        LET c == task[t].cycle IN
        c # NoRow /\ (file[t] # "absent" \/ cycle[c].merged)
        => Decide(mode, cycle[c].risk, DeployAfterSuccess).deploy

\* While the orchestrator stays up, a cycle that blocks all others is being
\* worked on.  After a confirmed self-update it is not: FollowedToCompletion.
ActiveCycleHasPipeline ==
    restarts = 0 =>
        \A c \in ActiveCycles :
            job[c].kind # "none" \/ cycle[c].status = "post_deploy_testing"

\* The books of a session: every cycle it started is counted as a success or a
\* failure once, or is the current one.
SessionBooks ==
    \A s \in Sessions :
        /\ session[s].completed = session[s].success + session[s].failed
        /\ session[s].started =
             session[s].completed + (IF session[s].current = NoRow THEN 0 ELSE 1)
        /\ session[s].started <= SessionCycles

\* A session that is over is never written again, though its coroutine may
\* wake up after the operator stopped it.
FinishedSessionRests ==
    [][\A s \in Sessions :
         session[s].status \in {"stopped", "completed", "failed"} => session'[s] = session[s]]_vars

\* A cycle whose incident says rolled back has a task the watchdog took back.
RolledBackIncidentIsTrue ==
    \A c \in Cycles :
        cycle[c].incident = "rolled_back" =>
            \E t \in Workers(c) : file[t] = "rolled_back" /\ task[t].status = "failed"

\* self_improvement.py: "monitors them through to completion".  Without a restart,
\* an active cycle has a coroutine, or at least its task is still worked on.
FollowedToCompletion ==
    restarts = 0 =>
        \A c \in ActiveCycles : job[c].kind # "none" \/ cycle[c].task \in running

\* self_improvement.py: "At most one active cycle at a time."
OneActiveCycle == Cardinality(ActiveCycles) <= 1

\* self_improvement.py: the live host is rolled back "once the bad change was
\* already deployed there".
DeployedFailureIsRestored ==
    \A t \in Tasks :
        task[t].kind = "revert" =>
            \A u \in Workers(task[t].cycle) : ~(file[u] # "absent" /\ task[u].failedQA)
================================================================================
