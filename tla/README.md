# Formal model of the local multi-agent company

TLA+ models of this repository, in five groups:

- the task pipeline: the orchestrator service, the task rows it keeps, and the runs that lead a
  task through its worker stages;
- the self-update of the stack under its rollback watchdog;
- what the orchestrator starts by itself: self-improvement cycles and sessions, and the fix
  tasks of auto-debug and of the GitHub auto-fix;
- a task's code: the executions of the coding worker on its checkout, the patch engine, the
  review of the diff and the publication;
- the calls of a stage down to the model providers, with all their timeouts.

TLC checks them on small instances. TLAPS proves every safety property that a passing run checks,
for every value of the constants that satisfies the hypotheses named below; liveness stays with
TLC.

Paths below are relative to `src/`; `lab/` stands for `services/shared/agentic_lab/`.

## Inventory

| Part | State it keeps | Operations | Talks to |
|---|---|---|---|
| orchestrator API (`services/orchestrator/app.py`) | `running_tasks`, in memory | create, run, restart-stage, archive, restore, approvals, policy, self-improvement, probes | task store, workflow, all services of `lab/` |
| workflow (`services/orchestrator/workflow.py`) | the LangGraph state of each run, in memory | one node per stage, routers, `_run_stage` | task store; workers over HTTP |
| task store (`lab/task_service.py`, `lab/db.py`) | task rows, events, snapshots, approvals (SQLite) | create, update_status, store_worker_result, set_approval_required, record_approval, restart_from_worker, archive, restore | - |
| task profiles (`lab/task_profiles.py`) | in the row's metadata | infer, route overrides | read by the workflow and the coding worker |
| repository allowlist (`lab/policy_service.py`) | JSON file | save, assert allowed | read by API and runs |
| worker call (`lab/worker_client.py`) | - | POST with retries | workers |
| 18 workers (`services/*_worker/app.py`) | task workspace (git), reports, memory files | `/run` | git, LLM, GitHub, Unraid host |
| auto debug, GitHub auto-fix (`lab/auto_debug.py`, `lab/github_autofix.py`) | markers in the row's metadata | spawn fix tasks for failed tasks and failed checks | task store, runs, GitHub |
| self-improvement (`lab/self_improvement*.py`) | cycle, session and incident rows | start, stop, approve, resume, monitor | creates tasks, starts runs, watchdog |
| self-update watchdog (`services/rollback_worker`, `services/deploy_worker`, `lab/self_update_watchdog.py`) | JSON state file per task | arm, monitor, roll back | host scripts, self-improvement |
| patch engine (`lab/patch_engine.py`, `lab/edit_ops.py`) | files of the workspace | apply a plan, roll back | coding worker |
| LLM client, model routing | - | retry, provider fallback | LLM servers |
| trusted sources, source router, search providers | JSON files | registry edits, routing, fallback | research worker, web |
| worker governance, worker probes | JSON files | suggestions and decisions; probe runs | workers, LLM |
| readiness, web UI, host scripts | - | read-only probes, pages, shell | everything |

How the parts interact. All handlers and all runs share one asyncio loop, so code between two
awaits is atomic, and everything else interleaves. A run holds a task in `running_tasks`;
handlers consult that set. The row is shared between runs and handlers, but a run routes on the
copy its last node returned. The process may die at any time: rows survive, `running_tasks` and
runs do not, and nothing restarts an ordinary task by itself.

Hard behaviours: decisions that arrive while a run is between two stages or on its way out;
resuming from the persisted status alone; restarting in the middle after results, permissions
and commits have accumulated; several routes to one stage, only some of them gated; stage
timeouts and lost answers; background services that start runs as operators do. What makes each
part correct:

- *workflow and store*: one run per task; no work behind an open gate or without the permission to
  modify; what is published passed its checks and approvals; a crash never makes the task skip a
  stage; every run ends in a status a task may rest in.
- *archive*: archived tasks rest.
- *auto debug, auto-fix*: each service's fixes of its fixes and fixes of one pull request are
  bounded, the same failure is not answered twice, a parent that waits for a fix is followed up.
- *self-improvement*: risky changes only with approval where the path has a gate, deployments only
  as the policy grants them, no active cycle without somebody who follows it, sessions whose books
  balance.
- *watchdog*: a rollout is confirmed, rolled back or given up, and its state file may be believed.
- *coding, test and GitHub worker*: what is published is what was accepted and what the tests left
  of it; what the reviewer sees is what the task wrote.
- *patch engine*: a failed plan leaves no half-made edit, as far as the file system answers.
- *LLM client*: every provider is tried before an answer is made without one, a failing model alone
  does not fail a stage, and everything ends.

`PROJECT.json` lists every component with its status, and every hazard at its line.

## Modules

| Module | Models |
|---|---|
| `WorkflowRouting` | routers, entry mapping and exit maps of the graph; stage tables of `lab/schemas.py` |
| `TaskStore` | the task row and each write of `TaskService`, as operators from row to row |
| `TaskWorkflow` | the orchestrator: handlers and runs; the properties; the refinement mapping |
| `TaskLifecycle` | abstract specification: what an operator may rely on, without the pipeline |
| `MCTaskWorkflow` | requests and bounds of the TLC runs |
| `TaskWorkflowProofs` | the inductive invariant and the theorems that follow from it |
| `TaskLifecycleRefinement` | proof that `TaskWorkflow` implements `TaskLifecycle` |
| `SelfUpdateWatchdog` | deploy worker, rollback worker, host and state file during self-updates |
| `MCSelfUpdateWatchdog` | commits and targets of its TLC runs |
| `SelfUpdateWatchdogProofs` | its invariants and the theorems that follow |
| `TaskPublicationProofs` | theorems about what a task may publish and where it resumes |
| `SelfImprovementPolicy` | risk classification and the governance decision, as operators |
| `SelfImprovement`, `MCSelfImprovement` | cycles, sessions, approvals, the monitors, failures, a restart |
| `SelfImprovementProofs` | its inductive invariant and theorems |
| `FixTasks`, `MCFixTasks` | auto-debug and GitHub auto-fix: chains of fix tasks, flapping checks, repeated runs, a restart |
| `FixTasksProofs` | its inductive invariant and theorems |
| `PatchEngine` | edit operations and the rollback of a plan, as operators on files |
| `CodingPipeline`, `MCCodingPipeline` | the checkout of a task from the first coding call to its pull request |
| `CodingPipelineProofs` | its inductive invariant and theorems |
| `LlmCall`, `MCLlmCall` | one stage of a planning or checking worker: routes, fallback, repair, timeouts |
| `LlmCallProofs` | its inductive invariant and theorems |

`TaskWorkflow` extends `TaskStore`, which extends `WorkflowRouting`; `SelfImprovement` extends
`SelfImprovementPolicy`, and `CodingPipeline` extends `PatchEngine`. The groups see each other
from outside: `SelfUpdateWatchdog` sees of the pipeline the deploy stage of each task (`phase`),
`SelfImprovement` and `FixTasks` see a task by the statuses their monitors distinguish and the
watchdog by its file, `CodingPipeline` sees of the orchestrator one task's stage, and `LlmCall`
one stage of any of its workers.

### State and code

- `task[t]` is the row. `gate`, `allowModifications`, `deployCommit`, `lastRestart` and the
  request flags live in `metadata_json`; `results`, `specialists`, `githubCommit` in
  `worker_results_json`. A result is reduced to clean, flagged or failed. Reviewer and security
  ask for a human exactly when they report flags.
- `running` is `app.state.running_tasks`.
- `pc, on, node, view` describe a background coroutine `_run_in_background`: *starting*
  (created, not yet scheduled), *ready* (the last node returned `view`, the next has not begun),
  *waiting* (in the await of `call_worker`), *ending* (`run_task` returned or raised, the
  finally block not reached).
- `workspace[t]` counts the coding worker's edits. The github worker commits the content it
  finds, so a commit is named by the edit it contains.
- `allowed[t]` is whether the allowlist admits the task's repository.

Each handler is one action, because none of them awaits. A stage is two steps: `Dispatch` writes
what precedes the await, and one of `StageSucceeds`, `StageReportsFailure` and `StageFails`
writes everything behind it up to the end of the node, including the node's own status.
`AskForModification` is the coding node without permission. A failed call may have edited the
workspace. Routes outside the compiled exit map end the run, as the exception does in LangGraph.

Self-update: `file[t]` is the status in `DATA_DIR/self-update-watchdogs/<t>.json`, which both
workers replace as a whole. `deployer` and `snapshot` are the handler `_run_self_update` and the
state it holds between its calls; `requests` are POSTs the rollback worker may still handle after
the caller gave up. `posts` counts the deploy requests of a task over all its stages and their
retries, `attempt` the ones of the stage under way: a dispatch that runs into its timeout of 120 s
raises an exception that the handler does not catch, so nothing is marked, and `call_worker` posts
again (`HandlerIsLost`, `PostAgain`, `GiveUp`). `monitor`, `streak`, `seen`, `previous` are the
coroutine `_monitor_self_update` with its local state: a poll is two steps (`ReadHead`, `Probe`)
because the health check is awaited between them, and the rollback is three (`TimeOut`,
`BeginRestore`, `EndRestore`), one for each write of the file. A call to the host that runs into its
own timeout ends the coroutine wherever it is (`CallTimesOut`, `monitor[t] = "dead"`), and the file
keeps what it said: monitoring, timed out or rollback running. Arming a task whose coroutine died
raises that exception again, after ARMED was written or before (`StartFails`). `rollout` and
`restore` are the two scripts on the host, `head` its checkout, `live` and `up` the running stack.
Recreating the stack (`StackRestarts`) also ends the deploy worker's handler and restarts the
orchestrator, which resumes the cycle from the file. `heads` is a history variable.

Self-improvement: `cycle`, `session` and `task` are the rows with the columns and metadata that
decide something, `file` the watchdog's file; they survive `Restart`. `job[c]` is the coroutine
of a cycle (`_run_pipeline` with `_monitor_task`, the pipeline an approval starts, or the
observer after a restart), cut at its awaits: the LLM call of the analysis, the sleeps of the
monitor, the merge. `loops` are the session coroutines, one step per iteration. PLANNING,
IMPLEMENTING, TESTING and DEPLOYING are one status, because nothing decides by their difference.
A goal is the set of risky topics its text touches, with `TinyFix` when it reads like a
deterministic fix: such a task gets a compact profile, whose path skips the only node with the
gate before publication (`Compact`, `Publish`).

Fix tasks: `task[t].debug` and `task[t].ci` are the two markers in the metadata. `debugger` are
`maybe_debug` coroutines between their checks and the answer of the model, `scan` the auto-fix
loop between its read of the metadata and its write, `monitors` the fixes a `_monitor_fix`
follows. Check results change under the scan (`check`).

Checkout: `ws` is the task's clone: `base` is its local base branch, then come `head`, `index`
and `work`, each a content for every path; `main` and `remote` are GitHub's base and feature
branch. A file is a sequence of lines or `Absent`. `exec[e]` is the execution of a post;
`task.call` is the one the orchestrator waits for, so a broken connection or a timeout leaves
executions that go on. `tester` is the test worker, whose commands write into the checkout
between the review and the publication, also for a request that nobody waits for any more; which
contents they may leave in a file is a constant (`TestOutputs`). At the files of `Unreliable`
calls to the file system may fail: reading or writing in an operation, the snapshot, and each
write of the rollback. `touched`, `accepted`, `late`, `tested` and `undo` (the plan the last step
rolled back) are history variables. A fuzzy match and a model's answer are choices over their
outcomes.

Model calls: `config` holds which providers are configured, the routing file and the worker,
`order` the providers in the order of a call; `exec[p]` is the execution of a post with the
provider it asks (`at`), whether it asks for a repair, the time spent and everyone `asked`;
`stage` is the orchestrator's side with its own clock and the posts whose connection broke.
The traits of a worker say how it asks, what it catches and what it may fail to find (`unread`:
the checkout, the diff, any change to review); what it makes is written as a report, which may
fail (`Reported`). An answer without success fails the stage, an HTTP 500 is posted again.

## Runs

The runs of `TaskWorkflow` use one task. Rows of different tasks share nothing but the process,
`running_tasks` is keyed by the task, and the theorems hold for any set of tasks. Two run ids
show that a second run can never be alive. Bounds: `Budget` limits restarts, decisions and
crashes, `MaxEdits` the edits told apart (later ones count as the last).

| Run | Shows | Bounds |
|---|---|---|
| `workflow_core` | the type invariant and all safety properties | full path with and without permission, self-update with forced approval, no deploy, compact, rollback; review may flag; testing, github and deploy may fail; 1 restart (coding, validation, github, deploy; at once or later), 2 decisions, 1 crash |
| `workflow_settled` | no task is left between two stages | no crash, restarts run at once; all specialist recommendations; four failing stages; repository policy edits |
| `workflow_lifecycle` | refinement of `TaskLifecycle`; every run ends | the gated path and the compact one, failing coding, 1 restart, 2 decisions, 1 crash, policy edits, under `FairSpec` |

One restart is enough to set up stale results, flags and commits; two decisions are enough for
an answer to one gate to meet another and for approve and reject in either order; one crash is
enough because a crash leaves nothing in memory that a second could find. `RunsRestSettled`
excludes crashes (they do leave tasks in the middle; where such a task resumes is
`ResumeReplaysInterruptedStage`) and restarts with `run_immediately = false`, which rewrite the
status on purpose.

| Run | Shows | Bounds |
|---|---|---|
| `selfupdate` | types; arming before the rollout; the commit to go back to; what HEALTHY, ROLLBACK_RUNNING and ROLLED_BACK may be believed to say; a watchdog ends or dies | one task whose deploy request is posted up to twice, its commit working or broken, one restart of the rollback worker, under `FairSpec` |

The second post is the retry of a stage or a second stage: either meets the file, the coroutine and
the scripts of the first. By default a stage posts three times (`WorkerRetryAttempts` is 2 here); as
the model does not measure time, already the second post may come before or after the deadline of
the first one's watchdog, and the theorems have any number of posts. Which commits come up is chosen
in the initial state (`broken`). Two tasks on one host are covered by the theorems. Every remote
call may fail or run into its timeout, every poll may fail to see the head or the answer, and every
script may stop before each of its steps. `DefaultTiming` says that the deadline of a watchdog (240
s) does not fall into the dispatch that armed it (120 s), as with the default settings; everything
else may take as long as it likes.

| Run | Shows | Bounds |
|---|---|---|
| `self_improvement` | types; risky changes and deployments only as approved or granted; an active cycle is followed; the books of sessions; a finished session rests; incidents that say rolled back | two cycles, two tasks, one session of two cycles, two disturbances (operator actions, or one of them a restart); mode automatic or unknown (read as manual), two attempts, goals of high risk that read like a tiny fix or not, or no goal; one cycle a day unless forced |
| `fix_tasks` | types; each service's chains of fixes, and the fixes of one pull request, are bounded; settled checks are answered once; a fix in progress is followed | a task of an operator or of a cycle, two more tasks, one check on the pull requests of the first two tasks (so also of a fix), one debug fix, one or two CI fixes, two `maybe_debug` coroutines, and one disturbance: a repeated run, a check that is run again, or a restart |
| `coding_pipeline` | types; the diff shows the task's writes only; a failed plan undoes its edits; what is published was accepted, or left by the tests | three files (one not in the repository, one at which the file system may fail, one that the test commands rewrite), operations that create, update, replace and delete, one outside the repository and a malformed one, plans of up to two, one batch, two posts, one restart of a failed stage, one merge by others; all five backends |
| `llm_call` | types; the heuristic comes last; a failing model alone fails no stage; everything ends | six workers that stand for the combinations of traits there are, with a checkout or change that cannot be read and a report that cannot be written, every set of providers, default and two routing files, two posts; timeouts in units of 600 s |

Two cycles let one be created, approved or resumed while the other one works; two tasks let a
cycle retry or undo. Two disturbances are enough for a stop, an approval or a restart to meet a
start.
One disturbance lets a second coroutine read what the first is about to write; that sets of two
checks are told apart is covered by the theorem. Two executions
are enough for one nobody waits for; the theorems cover any number. A merge is one step, and
later ones would change the same state in the same way. The deadlines keep the order of the
defaults: each of call, client and stage may be the first.

The theorems show that none of these bounds hides a violation of the properties they prove.

### Disagreements found

Each of these runs checks one statement of a doc or a comment that the code violates; the
findings in `PROJECT.json` quote it.

| Run | What happens |
|---|---|
| `forced_publication` | A compact task skips the documentation node, the only one that opens the risk-review gate, and is published without approval. |
| `monitoring_decided` | A call to the host that runs into its timeout ends the monitor, as does a restart of the rollback worker; the file says MONITORING for ever. |
| `followed_to_completion` | Once the watchdog reports HEALTHY nobody follows the cycle any more: QA ends unseen, nothing is merged, and the active cycle blocks all later ones. |
| `rollback_restores` | A plan that fails after it created or deleted a file leaves that file created or deleted. |

The passing forms of these and of the following say what does hold: `RiskyPublicationIsApproved`
(the full path, some approval, not restarted behind the gate), `FinishedIsNotReopenedByRuns`,
`RoutesStayConnected` for inferred profiles, `ResumeReplaysInterruptedStage`; for the watchdog
`HealthySawOwnCommit` (the checkout was there), `RolloutIsArmed` (a state file; the task's own
coroutine if it was posted once), `RestoreShowsInFile` and `RollbackLeavesTarget` (posted once,
retries included), `RolledBackCommitWorks` (no other task deploys), `WatchdogConcludes` (unless a
timeout or a restart ends it); `RiskyChangeIsApproved` (not on the compact path),
`ActiveCycleHasPipeline` (unless the cycle waits behind a confirmed update), `FixesAreBounded`
(chains of one service); `FailedPlanUndoesEdits` (every file but those the plan itself created or
deleted, and those at which the file system failed), `PublishedIsAccepted` (what the tests left
included, late writes aside).

### Further disagreements without a run of their own

Stated in the modules as properties that do not hold:

| Property | Statement | What happens |
|---|---|---|
| `ApprovalResumes` (`TaskWorkflow`) | `docs/workflows.md:55` | An approval between the opening of a gate and the release of the run lock clears the gate and starts nothing (`services/orchestrator/app.py:289`). |
| `RejectionSticks` (`TaskWorkflow`) | `lab/task_service.py:426` | A rejection between two stages is overwritten by the status of the next (`:329`). |
| `DeployedCommitIsPublished` (`TaskWorkflow`) | `lab/task_service.py:592` | After a restart from coding, the commit pinned by the first deployment is deployed again (`services/orchestrator/workflow.py:1005`). |
| `HealthyRunsTarget` (`SelfUpdateWatchdog`) | `lab/self_improvement.py:1628` | The checkout is at the target and the old stack still answers: HEALTHY before the new stack exists (`services/rollback_worker/app.py:272`). |
| `RejectedIsOver` (`SelfUpdateWatchdog`) | `lab/self_update_watchdog.py:3` | TIMED_OUT is read as the end, and the cycle fails while the rollback is still to come (`lab/self_improvement.py:1574`). |
| `RolledBackRunsPrevious` (`SelfUpdateWatchdog`) | `services/rollback_worker/app.py:9` | The detached rollout goes on behind the rollback and replaces the restored stack (`:351`). |
| `OneActiveCycle` (`SelfImprovement`) | `lab/self_improvement.py:7` | An approval does not ask whether another cycle is active (`:977`), and the pipeline of a stopped cycle writes ANALYZING again (`:1891`). |
| `DeployedFailureIsRestored` (`SelfImprovement`) | `lab/self_improvement.py:1196` | Whether to restore the host is read from `deployment_target` of the cycle, which only tasks are given: it is never restored (`:1198`). |
| `ReleasedAfterRestart` (`FixTasks`) | `scan_once` of `lab/github_autofix.py` | After a restart the marker of a fix stays and blocks every further fix. |
| `ModelIsAdvisory` (`LlmCall`) | `lab/llm.py:4` | Without a provider the routing raises ValueError (`lab/model_routing.py:99`), which only some workers catch; a list of other types crashes the reviewer and security workers. |

Seen in the models, tasks and runs:

- A profile in the client's metadata with only `skip_research` routes to an exit the compiled
  graph lacks (`services/orchestrator/workflow.py:409`).
- `_route_entry` reads neither the profile nor the forced-deployment flag, unlike
  `_route_after_github` (`services/orchestrator/workflow.py:283`): a crash in a forced deploy
  stage skips it, and a compact task that was stopped at PR_CREATED is deployed when run again.
- `record_approval` does not compare the gate a decision names with the open one
  (`lab/task_service.py:439`).
- Findings of the reviewer that are not strings end in an exception in the orchestrator
  (`lab/worker_governance.py:718`).
- The registries (`lab/worker_governance.py` and others) write their files in place: a torn
  write makes every later load fail.

Self-update:

- A timeout of a call to the host raises `TimeoutExpired`, and only `CommandError` is caught: the
  dispatch is posted again while its rollout goes on (`services/deploy_worker/app.py:195`), a
  poll, a debug report or a rollback ends without an outcome
  (`services/rollback_worker/app.py:350`), and the next attempt to arm that task fails.
- The monitor's next write replaces DISPATCH_FAILED (`services/deploy_worker/app.py:285`), and
  the deploy worker writes ARMED over whatever the watchdog has reached when the dispatch
  returns (`:229`).
- A second post, by the retry of a stage or by another stage, is handed the state of the first
  watchdog, ended or not, and its rollout may run unwatched
  (`services/rollback_worker/app.py:142`).
- The commit to restore is the head when the watchdog is armed: that of another task's stack that
  never came up, or, armed by a retry behind the rollout, the task's own
  (`services/rollback_worker/app.py:144`).

Self-improvement and fixes:

- Stopping a cycle is undone by its coroutine, which is not told and writes its own status.
- A restart looks at the latest active cycle only; earlier ones stay active without a coroutine.
- A session that awaits a review blocks every new one, and one whose cycle waits for a gated
  rollback task waits with it.
- The deadline of a monitor fails the cycle and leaves its task working unsupervised.
- A restart from QA can merge a self-update before the watchdog has decided about it.
- `_RISKY_PATTERNS` says "Entries with higher risk come first", but containers (medium) precede
  security (high).
- `monitor_error` and the waiting states overwrite a `fix_in_progress` of the CI marker; checks
  that fail as A, then A and B, then A again get a second fix for A.
- Two `maybe_debug` coroutines of one task can both launch a fix. `fix_ready` is written at the
  pull request, although the fix may still fail.
- Auto-debug and auto-fix hand on only their own attempt number (`lab/auto_debug.py:124`,
  `lab/github_autofix.py:228`): a chain of fixes that alternates between them has no bound.
- A risky goal that reads like a tiny fix is published ungated (`forced_publication`).

Code and publication:

- `git diff <base>` does not show files that were never added: a plan that only creates files
  fails as "no diff", the files stay in the checkout, and a later `git add -A` publishes what no
  review saw.
- Edits of an execution nobody waits for any more are published with the rest;
  `PublishedIsAccepted` leaves them out (`late`).
- What lint, typing and test commands write into the checkout is published by `git add -A`
  unreviewed (`services/test_worker/app.py:56`, `services/github_worker/app.py:85`).
- A file that cannot be read when the snapshot of a plan is taken counts as absent, and the
  rollback deletes it (`lab/patch_engine.py:87`); a rollback that cannot write goes on silently.
- Of `expected_old_content` only the number of lines is used; `replace_lines` with an end before
  its start inserts.
- A conflict of `git revert` leaves the checkout unmerged for every later attempt; the
  stage-timeout fast path fails when its edit is there already.
- The fallback to GitHub's API puts the task's version of a file on top of what others merged
  meanwhile, and makes every later push a non-fast-forward. A lost answer to "create pull
  request" can never be made good: the next one is refused.
- Malformed operations are dropped, and the rest is applied as a success.

Model calls:

- The deadlines of two providers together exceed the stage timeout: a fallback may not end in
  time.
- `_provider_candidates` compares names only: two names of one backend are asked twice.
- The cost worker needs a provider although it calls none.

### Fairness

`FairSpec` assumes weak fairness of `RunStep(r)` for each run: the loop keeps scheduling a
coroutine that can go on, and the await of a worker call ends at the latest by
`asyncio.timeout(worker_stage_timeout_seconds)`. Operators, policy edits and crashes get no
fairness. The disjunction over outcomes is fair as a whole, so no particular outcome is assumed
to happen.

In `SelfUpdateWatchdog` the rollback worker's loop (`Watchdog(t)`) and the deploy worker's
handler are weakly fair: each of their calls ends, by an answer, an error or its timeout (20 s,
60 s, 120 s, the command timeout of the restore). Where the timeout kills the coroutine or the
handler, that is its end; `CallTimesOut(t)` and `HandlerIsLost(t)` are among the steps that may
be taken, and `WatchdogConcludes` counts the loss of a coroutine as such, not as a decision.
`TimeOut(t)` is strongly fair, because it is enabled only between two polls: the
loop tests its clock there each time, and the clock reaches the deadline. Nothing on the host is
fair.

In `LlmCall` only time is fair (`Tick`), and the timers that run out (`StageTimesOut`,
`CallTimesOut`): no provider need ever answer and no connection break or hold. `Tick` does not
overrun a timer, as the event loop fires it. The other modules state no liveness: sessions and
cycles wait for humans, and fix tasks for runs, whose end is `RunsTerminate`.

## Proofs

### Tasks

From the assumptions on constants in `TaskWorkflow` (`MaxEditsAssumption`, `NamesAssumption`,
`RequestsAssumption`, `StagesAssumption`, `BudgetAssumption`), for every set of tasks, runs,
requests and every budget.

The inductive invariant `Inv` is

    TypeOK /\ Lock /\ AtWork /\ ArchivedIsQuiescent /\ OpenGateShowsInStatus

`Lock` adds to `OneRunPerTask` that a task in `running_tasks` has its run and that idle runs
carry nothing. `AtWork` says of a run that is ready or waiting that its task's row is not gated,
that it has a node, and that a captured permission is still in the row. It is needed because a
run checks the gate and the permission on its view: permissions are never withdrawn, only the
run itself opens a gate, and the lock keeps restarts away. `ArchivedIsQuiescent` is needed for
the step that starts a run: it is the reason why a run never works on an archived row.

Two properties hold under a hypothesis that their runs choose and the theorems name:

- `RoutesConnect` adds `RequestsKept`, no write changes a row's request, and goes through the exits
  of the compiled graph. Its hypothesis `NoSkipOfResearch` leaves out a stored profile that skips
  research alone: inference stores none, and with one the property is false.
- `RestHolds` adds `EndsSettled`: a run that is about to release its lock leaves a settled row. It
  is needed because the row of a task without a run was left by a run that ended, and because
  every request that unsettles a row also starts a run. Its hypothesis `Uninterrupted` says that
  there is no crash and that restarts run at once: a crash does leave tasks in the middle, and a
  deferred restart rewrites the status on purpose.

Each action has a lemma `...KeepsInv`; row operators have lemmas on what they preserve
(`...Row`), so that the action proofs never expand a row. `InvariantHolds` combines them; the
named properties follow. `FinishedHolds` is the action property from the same invariant.

`TaskLifecycleRefinement` proves `Spec => Lifecycle!Spec` with the mapping in `TaskWorkflow`:
`RunGoesOn`, `RunPauses` and `LeaveNodeRefines` say how a run's step looks from outside, and
every action maps to a step of `TaskLifecycle` or a stutter.

### Self-update

From `CommitsAssumption`, `BoundsAssumption` and `TargetAssumption` (a commit is made for one
task). The invariant of `SelfUpdateWatchdogProofs` is

    TypeOK /\ ArmedFirst /\ Untouched /\ ConcreteRestore

`ArmedFirst` orders the file before the handler's dispatch and the rollout, says that the state the
handler writes back is one, and, of a task that was posted once, that its coroutine was started
before both and is only taken away by a restart of the rollback worker. `Untouched` is what makes
`RollbackLeavesTarget` inductive: as long as the first post of a task is not answered and its arming
request may still be handled, its target is not the head of the checkout and not the commit any
watchdog or restore script would go back to, so the head that is read when arming cannot be the
target. `UnseenKept` and `UntouchedKept` state which changes of the shared variables keep it, for
all actions at once. `ConcreteRestore` is needed for the type of `head`.

`HealthySightings` adds `Sighted`: the target of a task that a poll saw, or whose file or whose
copy in the deploy worker says healthy, has been on the host; checkouts only add to `heads`.
`RestoresShow` adds `Announced` (a task posted once, retries included: its request finds no file,
and whoever waits in the deploy worker is through when the rollback begins), under the
assumption `DefaultTiming`. A second post breaks it: its handler may be handed `monitoring` and
write that over `rollback_running`.

`FilesMoveOn` is the action property behind the composition with `SelfImprovement`, which has the
watchdog of a task as one action over its file. Under `DefaultTiming` the file of a task that was
posted once, retries included, only goes through the states of that action in order, `monitoring`
counting as `armed` and a failed dispatch as one that the next poll overwrites; a timeout or a
rollback is never taken back, and where a coroutine dies the file stays. The one exception, the
handler writing ARMED or DISPATCH_FAILED over a watchdog that is ahead of it, happens only while the
deploy stage runs, and `SelfImprovement` has it in `Deploy`. The invariant `FileAlong` says that
coroutine and handler find the file where they left it. A second post breaks the property: the
handler is then handed the state of a watchdog that is already under way, and may write
`rollback_running` back over `rolled_back`.

`RollbacksWork` adds `Trusted`. `StackWorks`: the stack that is up answers, because only a working
one boots. `Dormant`: a task that was never posted has no script, no watchdog and no request.
`Sole(t)`: while no other task deploys, the host only ever has the base commit or the target, and a
restore of a broken target keeps both head and stack there until its health check fails, so that it
cannot end as succeeded. With a second task the script of one may exchange the stack while the other
verifies its own, which is why the property says `Alone(t)`.

### Publication

`TaskPublicationProofs` strengthens `Inv` of `TaskWorkflowProofs` by `RowsReady`, `RunsReady`
and `StagesShow`: a row is *ready* for the stage at which it would resume (the checks required
before that stage have passed since the last coding, and at github the flags were approved), a
run's view is ready for the node it is at, and a waiting row shows its stage. The three
invariants about publication and resuming follow. The row alone is not inductive, because a run
routes on its view, and the view alone is not, because a restart or a crash goes back to the
row.

### Self-improvement

`SelfImprovementProofs` proves `TypeOK`, `RiskyChangeIsApproved`, `DeployWasGranted`,
`SessionBooks`, `ActiveCycleHasPipeline`, `FinishedSessionRests` and `RolledBackIncidentIsTrue` from
`SettingsAssumption`, `RowsAssumption` and `GoalsAssumption`. The invariant is

    TypeOK /\ Links /\ SessionsHold /\ SessionBooks

`Links` has four parts. `RowsInOrder`: rows are created in order and are blank before. `LinksHold`:
a coroutine that follows a task follows the latest one of its cycle, and one that has not analysed
yet has none. `GrantsHold`: a right to deploy comes from the policy and is only handed down.
`GatesHold`: the gate of a risky cycle is handed down to every task it tries, unless a human
approved, and only a compact path gets past it. `DeployWasGranted` and `RiskyChangeIsApproved`
follow from the last two. Steps are either *quiet* (they change no ownership and no decision of a
row: `QuietKeepsLinks`, once for all of them) or create a cycle or a task. `ActiveCycleHasPipeline`
is an invariant of the steps before the first restart.

`RolledBackIncidentIsTrue` needs no stronger invariant, but two facts about steps: a task that a
rollback took back stays so (`StepLeavesTakenBack`: its file is final, its row is not run again and
keeps its cycle), and an incident is only called rolled back by a step that has just read the file
of a task of the cycle, the poll or the observer after a restart; every other step opens an incident
or begins a rollback (`KeepsIncident`).

### Fix tasks

`FixTasksProofs` proves all four properties from `LimitsAssumption` and `NamesAssumption`. The depth
of a task below the start of its chain is not a variable; the invariant says that there is a
function `depth`, bounded by the attempt number a fix carries, and `Chain` is compared with it by
its least counterexample. A chain is of fixes of one kind: a fix of the other service starts at
depth zero again, as its attempt does in the code. `RowsHold` (rows in order, blank before, parents
older than their fixes) makes that function well defined. The fixes of a pull request are counted by
the attempt in the marker (`CountHolds`), which no coroutine can set back because the scan is a
single loop. That the same checks are not answered twice needs that failed checks stay failed while
GitHub runs none again (`AnswersHold`). `ActorsHold` and `NamesHold` say that coroutines work on
tasks that are there, and that a marker names a fix of its own task.

### Code and publication

`CodingPipelineProofs` proves all four properties of `CodingPipeline`.

`DiffIsOnlyOurs` and `PublishedIsAccepted` hold for every repository, operations, test outputs and
bounds; of the assumptions they need only that calls have positive numbers (`BoundsAssumption`).
`Untouched` says that of a file which neither an execution nor a test command has written all
versions in the checkout are the base branch's; `Prepared` that whoever edits, tests or reads finds
the feature branch checked out, so that the base no longer moves; `Accepted` follows the accepted
content from the checkout through the commit to GitHub, where a file that the tests wrote has what
was accepted or what they left (`Allowed`), and on GitHub the base branch's content if that is what
they made of it (`OnGitHub`). What a plan makes of the files is left open
(`EndsKeepsInv` holds for any), so these two do not depend on the patch engine.

`TypeOK` and `FailedPlanUndoesEdits` do. They rest on `TreesAssumption`, `TextsAssumption`,
`OperationsAssumption` and `BoundsAssumption`: the base branch has a content for every path, what is
written is text, operations and test outputs are well-formed, a call is posted at least once. (That
two string literals are strings is part of `TextsAssumption`, because the provers have no axiom for
it.) The two loops of the patch engine, `RunsOf` for a plan and `ParseOperations` for an answer, are
recursive functions; their values exist and keep what each turn keeps by `Loops`, which takes the
least turn that does not. `PerformedLeaves` says of each way of editing that it leaves a text or no
file, with the arithmetic of lines behind it (`SpliceIsText`, `AnchorsFit`, `ReplacedIsText`), and
`OperationLeaves` adds the calls that fail (`TornIsContent`). `RunsAs` is the invariant of the
plan's loop: a file outside the snapshot, at which no call failed, holds what it had, nothing if an
operation of the plan deletes it, or the content of one that creates it (`Traces`). `PlanEnds` adds
the rollback from the snapshot file by file (`RestoredIs`, `RollbackLeaves`), and `RollbackIsOfPlan`
says that only a plan that failed ends as rolled back, and that `undo` then holds its operations and
its faulty files (`UndoKept` has its type). The types add to `TypeOK` that a call that is not posted
yet has a post left (`Called`) and that the step which opens the pull request comes after the branch
was published (`Opened`).

### Model calls

`LlmCallProofs` proves `TypeOK`, `HeuristicIsLastResort` and `FailureHasACause` from
`WorkersAreKnown` and `TimesAreNatural`. The invariant adds `ExecutionsHold`, which providers an
execution has asked so far (those of `order` up to `at`, and all of them before the heuristic, or
the one of a route without a fallback), and `StageHolds`: a running stage waits for its last post
or has one left, and all posts before were lost to a broken connection or to an excuse
(`Excused`). `BeginningsHold` and `UnreadIs` say how an execution may
begin, `RetriedIs`, `AfterIs` and `PostIsOver` what the end of a post makes of the stage.
`PreferredIs` and `OrderIs` say what the routing returns, from a least element of the usable
candidates. An excuse is an unreadable checkout, no change to review, a report that cannot
be written, no provider, and, of the reviewer and security workers alone, lists of other types in
the answer of a model, which they do not check.

### Model-checked only

- `RunsTerminate`, `WatchdogConcludes` and `EverythingEnds`: liveness under fairness is out of the
  prover's reach.
- The properties of the `violation` runs, which are false.
- What the fuzzy match and the parser of a real file decide: the models and the theorems take any
  of their outcomes.

## Not modelled

- In `TaskWorkflow`: failures of the database or of the suggestion files between two writes (the
  run would end between two stages); more than one orchestrator process. What a worker does
  after its stage timed out is in `CodingPipeline`, the hook behind the finally block in
  `FixTasks`. Test commands that write into the checkout are in `CodingPipeline` as well.
- Texts: goals, prompts, reports, progress, events, snapshots and e-mails. What they decide
  enters as a choice (a goal's topics, a model's operations).
- In `SelfUpdateWatchdog`: contents of the state file besides the status, git details of the
  checkout beyond success or failure, and the `/run` rollback of a task (a git revert, or a host
  restore on request). A handler of the deploy worker that goes on behind a broken connection while
  the stage posts again is not told apart from one that ended; the orchestrator restarts only
  with the stack; two arming requests of one task under way at once count as one.
- In `LlmCall`: the time that git and the file system take, which counts as none.
- The coding worker's choice of candidate files and its prompts; the syntax check of the patch
  engine, which only warns.
- Memory worker, trusted sources, source router, search providers, worker governance: files that
  no other component acts on, each operation one synchronous read and write. Their hazard is a
  torn write, and nothing tests for it (above). Worker probes: one benchmark run at a time under
  one lock.
- Readiness checks, web UI pages, logging and configuration: they change no shared state the
  models read. Host scripts other than the three of the self-update are shell I/O.

## Limits and further work

The groups are composed through abstractions of each other, not into one state space: a cycle
over several tasks together with their watchdogs and checkouts is beyond TLC. The abstractions
are the statuses each component reads of the others. Worth adding where the code moves: the
`/run` rollback of the rollback worker, a second watchdog on one host as a run (the theorems
cover it), and the registries once their writes are atomic.
