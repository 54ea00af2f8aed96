-------------------------- MODULE SelfUpdateWatchdog --------------------------
(***************************************************************************)
(* The self-update of the agent stack: the deploy worker arms a watchdog   *)
(* in the rollback worker and dispatches a detached rollout to the host;   *)
(* the watchdog polls the host and restores the previous commit when the   *)
(* deadline passes; the orchestrator reads the watchdog's state file.      *)
(*                                                                         *)
(*   deploy worker   posting --> armed --> dispatching --> idle, or lost:  *)
(*                   posted again by the stage, up to its retries          *)
(*   rollback worker starting --> polling <--> probing --> done            *)
(*                               polling --> capturing --> restoring -->   *)
(*                   dead, where a call to the host runs into its timeout  *)
(*   rollout script  fetching --> merged --> none                          *)
(*   restore script  starting --> checkedOut --> built --> seen --> result *)
(*                                                                         *)
(* The workers are separate processes that share one JSON file per task,   *)
(* replaced as a whole; of it only the status is kept here.  Both scripts  *)
(* run on the host and share its checkout.  A rebuild recreates every      *)
(* service but the rollback worker, so it also restarts the deploy worker  *)
(* and the orchestrator.                                                   *)
(***************************************************************************)
EXTENDS Naturals

CONSTANTS
    Tasks,         \* self-deploying tasks
    Commits,
    NoCommit,      \* what an unreadable host head reads as
    Base,          \* the commit the host starts with
    Target,        \* the commit each task's deploy stage is pinned to
    DefaultTiming, \* whether the deadline (240 s) lies behind a dispatch (120 s)
    WorkerRetryAttempts, \* settings.worker_retry_attempts
    MaxPosts,      \* bound: posts to the deploy worker per task, over all stages
    MaxRestarts    \* bound: restarts of the rollback worker

ASSUME CommitsAssumption ==
    /\ Base \in Commits /\ NoCommit \notin Commits
    /\ Target \in [Tasks -> Commits \ {Base}]
ASSUME BoundsAssumption ==
    /\ WorkerRetryAttempts \in Nat \ {0}
    /\ MaxPosts \in Nat /\ MaxRestarts \in Nat /\ DefaultTiming \in BOOLEAN

\* A commit is made for one task (its message and parent are the task's).
ASSUME TargetAssumption ==
    \A t, u \in Tasks : Target[t] = Target[u] => t = u

VARIABLES
    file,       \* status in the state file of a task
    phase,      \* the deploy stage as the orchestrator sees it
    deployer,   \* the handler of the deploy worker
    snapshot,   \* the status the deploy worker got when it armed the watchdog
    requests,   \* tasks with a POST /watchdogs/start under way
    monitor,    \* the watchdog coroutine, lost when the rollback worker dies
    streak,     \* whether the last poll was healthy at the target
    seen,       \* whether the current poll saw the target commit
    previous,   \* previous_sha in the coroutine's state
    restore,    \* the restore script of a task
    restoreTo,  \* the commit it was started with
    rollout,    \* the detached rollout of a task
    head,       \* commit of the host's checkout
    live,       \* commit the running stack was built from
    up,         \* whether the running stack answers
    broken,     \* commits whose stack never answers, which nobody knows
    heads,      \* history: commits the checkout has been at
    attempt,    \* of call_worker within the deploy stage
    posts, restarts     \* counters for the bounds

workerVars == <<monitor, streak, seen, previous>>
hostVars == <<restore, restoreTo, rollout, head, live, up, broken, heads>>
deployVars == <<phase, deployer, snapshot, attempt>>
vars == <<file, deployVars, requests, workerVars, hostVars, posts, restarts>>

Statuses == {"armed", "monitoring", "healthy", "rollback_running", "rolled_back",
             "rollback_failed", "dispatch_failed", "timed_out"}
Pending == {"armed", "monitoring", "rollback_running"}
\* Statuses for which POST /watchdogs/start hands out the existing state.
Kept == {"monitoring", "healthy", "rollback_running", "rolled_back"}
Phases == {"published", "deploying", "self_updating", "passed", "rejected", "failed"}
Restoring == {"starting", "checkedOut", "built", "seen"}

TypeOK ==
    /\ file \in [Tasks -> Statuses \cup {"absent"}]
    /\ phase \in [Tasks -> Phases]
    /\ deployer \in [Tasks -> {"idle", "posting", "armed", "dispatching", "lost"}]
    /\ snapshot \in [Tasks -> Statuses \cup {"absent"}]
    /\ requests \in SUBSET Tasks
    /\ monitor \in [Tasks -> {"none", "starting", "polling", "probing", "capturing",
                              "restoring", "done", "dead"}]
    /\ streak \in [Tasks -> BOOLEAN]
    /\ seen \in [Tasks -> BOOLEAN]
    /\ previous \in [Tasks -> Commits \cup {NoCommit}]
    /\ restore \in [Tasks -> Restoring \cup {"none", "succeeded", "failed"}]
    /\ restoreTo \in [Tasks -> Commits \cup {NoCommit}]
    /\ rollout \in [Tasks -> {"none", "fetching", "merged"}]
    /\ head \in Commits /\ live \in Commits /\ up \in BOOLEAN
    /\ broken \in SUBSET Commits
    /\ heads \in SUBSET Commits
    /\ attempt \in [Tasks -> 0..WorkerRetryAttempts]
    /\ posts \in [Tasks -> 0..MaxPosts]
    /\ restarts \in 0..MaxRestarts

Init ==
    /\ file = [t \in Tasks |-> "absent"]
    /\ phase = [t \in Tasks |-> "published"]
    /\ deployer = [t \in Tasks |-> "idle"]
    /\ snapshot = [t \in Tasks |-> "absent"]
    /\ requests = {}
    /\ monitor = [t \in Tasks |-> "none"]
    /\ streak = [t \in Tasks |-> FALSE]
    /\ seen = [t \in Tasks |-> FALSE]
    /\ previous = [t \in Tasks |-> NoCommit]
    /\ restore = [t \in Tasks |-> "none"]
    /\ restoreTo = [t \in Tasks |-> NoCommit]
    /\ rollout = [t \in Tasks |-> "none"]
    /\ head = Base /\ live = Base /\ up = TRUE
    /\ broken \in SUBSET (Commits \ {Base})
    /\ heads = {Base}
    /\ attempt = [t \in Tasks |-> 0]
    /\ posts = [t \in Tasks |-> 0]
    /\ restarts = 0

-------------------------------------------------------------------------------
(* Orchestrator *)

\* call_worker posts the deploy request.
Posts(t) ==
    /\ posts[t] < MaxPosts
    /\ posts' = [posts EXCEPT ![t] = @ + 1]
    /\ deployer' = [deployer EXCEPT ![t] = "posting"]
    /\ requests' = requests \cup {t}

\* The deploy stage runs, for the first time or restarted by an operator; the
\* deploy worker finds the settings complete and the commit pinned.
BeginDeploy(t) ==
    /\ phase[t] # "deploying" /\ deployer[t] = "idle"
    /\ Posts(t)
    /\ attempt' = [attempt EXCEPT ![t] = 1]
    /\ phase' = [phase EXCEPT ![t] = "deploying"]
    /\ UNCHANGED <<file, snapshot, workerVars, hostVars, restarts>>

\* The stage posts again what was answered with an error, or not at all.
PostAgain(t) ==
    /\ deployer[t] = "lost" /\ attempt[t] < WorkerRetryAttempts
    /\ Posts(t)
    /\ attempt' = [attempt EXCEPT ![t] = @ + 1]
    /\ UNCHANGED <<file, phase, snapshot, workerVars, hostVars, restarts>>

GiveUp(t) ==
    /\ deployer[t] = "lost" /\ attempt[t] = WorkerRetryAttempts
    /\ deployer' = [deployer EXCEPT ![t] = "idle"]
    /\ phase' = [phase EXCEPT ![t] = "failed"]
    /\ UNCHANGED <<file, snapshot, requests, workerVars, hostVars, attempt, posts,
                   restarts>>

Verdict_AsReported(status) == status

Verdict(status) == IF status = "healthy" THEN "passed" ELSE "rejected"

\* A poll of the state file that finds it decided: healthy continues with QA,
\* anything else that is not pending fails task and cycle.
Observe(t) ==
    /\ phase[t] = "self_updating"
    /\ file[t] \notin Pending \cup {"absent"}
    /\ phase' = [phase EXCEPT ![t] = Verdict(file[t])]
    /\ UNCHANGED <<attempt, file, deployer, snapshot, requests, workerVars, hostVars,
                   posts, restarts>>

\* What recreating the services leaves of the stage: the deploy worker's handler
\* is gone, and the orchestrator resumes the cycle if the state file exists.
StackRestarts ==
    /\ deployer' = [t \in Tasks |-> "idle"]
    /\ phase' = [t \in Tasks |->
                   IF phase[t] # "deploying" THEN phase[t]
                   ELSE IF file[t] = "absent" THEN "failed" ELSE "self_updating"]
    /\ UNCHANGED <<snapshot, attempt>>

-------------------------------------------------------------------------------
(* Deploy worker *)

\* The POST fails or is given up after 20 s; the rollback worker, whose loop a
\* remote git call can block for 60 s, may still handle it.
ArmingFails(t) ==
    /\ deployer[t] = "posting"
    /\ deployer' = [deployer EXCEPT ![t] = "idle"]
    /\ phase' = [phase EXCEPT ![t] = "failed"]
    /\ requests' \in {requests, requests \ {t}}
    /\ UNCHANGED <<attempt, file, snapshot, workerVars, hostVars, posts, restarts>>

Dispatch_BeforeArming(t) ==
    /\ deployer[t] \in {"posting", "armed"}
    /\ deployer' = [deployer EXCEPT ![t] = "dispatching"]
    /\ rollout' = [rollout EXCEPT ![t] = "fetching"]
    /\ UNCHANGED <<attempt, file, phase, snapshot, requests, workerVars, restore, restoreTo,
                   head, live, up, broken, heads, posts, restarts>>

\* self-update.sh starts the detached rollout.  A second one for the same task
\* runs the same commit; one of the two stands for both.
Dispatch(t) ==
    /\ deployer[t] = "armed"
    /\ deployer' = [deployer EXCEPT ![t] = "dispatching"]
    /\ rollout' = [rollout EXCEPT ![t] = "fetching"]
    /\ UNCHANGED <<attempt, file, phase, snapshot, requests, workerVars, restore, restoreTo,
                   head, live, up, broken, heads, posts, restarts>>

\* The script returned: the state the watchdog had when it was armed is written
\* back to the file, and the stage answers.
DispatchReturns(t) ==
    /\ deployer[t] = "dispatching"
    /\ file' = [file EXCEPT ![t] = snapshot[t]]
    /\ deployer' = [deployer EXCEPT ![t] = "idle"]
    /\ phase' = [phase EXCEPT ![t] = "self_updating"]
    /\ UNCHANGED <<attempt, snapshot, requests, workerVars, hostVars, posts, restarts>>

\* The script failed, before or after the rollout began.
DispatchFails(t) ==
    /\ deployer[t] \in {"armed", "dispatching"}
    /\ file' = [file EXCEPT ![t] = "dispatch_failed"]
    /\ deployer' = [deployer EXCEPT ![t] = "idle"]
    /\ phase' = [phase EXCEPT ![t] = "failed"]
    /\ UNCHANGED <<attempt, snapshot, requests, workerVars, hostVars, posts, restarts>>

\* The script runs into its timeout, which the handler does not catch, or the deploy
\* worker dies: nothing is written, and the stage gets no answer it can use.
HandlerIsLost(t) ==
    /\ deployer[t] \in {"posting", "armed", "dispatching"}
    /\ deployer' = [deployer EXCEPT ![t] = "lost"]
    /\ UNCHANGED <<file, phase, snapshot, attempt, requests, workerVars, hostVars, posts,
                   restarts>>

-------------------------------------------------------------------------------
(* Rollback worker *)

Reply(t, status) ==
    IF deployer[t] = "posting"
    THEN /\ deployer' = [deployer EXCEPT ![t] = "armed"]
         /\ snapshot' = [snapshot EXCEPT ![t] = status]
    ELSE UNCHANGED <<deployer, snapshot>>

\* POST /watchdogs/start; two requests of one task count as one.  A new coroutine
\* replaces one that still runs; a restore script that one waited for goes on.
StartWatchdog(t) ==
    /\ t \in requests /\ (file[t] \in Kept \/ monitor[t] # "dead")
    /\ requests' = requests \ {t}
    /\ IF file[t] \in Kept
       THEN /\ Reply(t, file[t])
            /\ UNCHANGED <<file, workerVars>>
       ELSE /\ Reply(t, "armed")
            /\ file' = [file EXCEPT ![t] = "armed"]
            /\ \E c \in {head, NoCommit} : previous' = [previous EXCEPT ![t] = c]
            /\ monitor' = [monitor EXCEPT ![t] = "starting"]
            /\ UNCHANGED <<streak, seen>>
    /\ UNCHANGED <<phase, attempt, hostVars, posts, restarts>>

\* The request ends with an error: reading the head times out, or the coroutine that
\* is to be replaced died of such a timeout, which awaiting it raises again.
StartFails(t) ==
    /\ t \in requests /\ file[t] \notin Kept
    /\ requests' = requests \ {t}
    /\ \/ UNCHANGED file
       \/ monitor[t] = "dead" /\ file' = [file EXCEPT ![t] = "armed"]
    /\ UNCHANGED <<deployVars, workerVars, hostVars, posts, restarts>>

MonitorStarts(t) ==
    /\ monitor[t] = "starting"
    /\ file' = [file EXCEPT ![t] = "monitoring"]
    /\ monitor' = [monitor EXCEPT ![t] = "polling"]
    /\ streak' = [streak EXCEPT ![t] = FALSE]
    /\ UNCHANGED <<deployVars, requests, seen, previous, hostVars, posts, restarts>>

ReadHead_AnyHead(t) ==
    /\ monitor[t] = "polling"
    /\ \E saw \in {FALSE, previous[t] # NoCommit} : seen' = [seen EXCEPT ![t] = saw]
    /\ monitor' = [monitor EXCEPT ![t] = "probing"]
    /\ UNCHANGED <<file, deployVars, requests, streak, previous, hostVars, posts,
                   restarts>>

\* The first half of a poll: the host's head, which may be unreadable.
ReadHead(t) ==
    /\ monitor[t] = "polling"
    /\ \E saw \in {FALSE, head = Target[t]} : seen' = [seen EXCEPT ![t] = saw]
    /\ monitor' = [monitor EXCEPT ![t] = "probing"]
    /\ UNCHANGED <<file, deployVars, requests, streak, previous, hostVars, posts,
                   restarts>>

\* The second half: the health check, which may fail although the stack is up.
Probe(t) ==
    /\ monitor[t] = "probing"
    /\ \E answered \in {FALSE, up} :
         LET good == answered /\ seen[t]
             healthy == good /\ streak[t]
         IN  /\ streak' = [streak EXCEPT ![t] = good]
             /\ file' = [file EXCEPT ![t] = IF healthy THEN "healthy" ELSE "monitoring"]
             /\ monitor' = [monitor EXCEPT ![t] = IF healthy THEN "done" ELSE "polling"]
    /\ UNCHANGED <<deployVars, requests, seen, previous, hostVars, posts, restarts>>

TimeOut_OnlyBeforeTarget(t) ==
    /\ monitor[t] = "polling" /\ ~seen[t]
    /\ DefaultTiming /\ snapshot[t] = "armed" => deployer[t] \notin {"armed", "dispatching"}
    /\ file' = [file EXCEPT ![t] = "timed_out"]
    /\ monitor' = [monitor EXCEPT ![t] = "capturing"]
    /\ UNCHANGED <<deployVars, requests, streak, seen, previous, hostVars, posts,
                   restarts>>

\* The deadline passes; a debug report is collected before the rollback.  A dispatch
\* that armed this coroutine is over by then; a later one may have been handed the
\* state of a coroutine that is close to its end.
TimeOut(t) ==
    /\ monitor[t] = "polling"
    /\ DefaultTiming /\ snapshot[t] = "armed" => deployer[t] \notin {"armed", "dispatching"}
    /\ file' = [file EXCEPT ![t] = "timed_out"]
    /\ monitor' = [monitor EXCEPT ![t] = "capturing"]
    /\ UNCHANGED <<deployVars, requests, streak, seen, previous, hostVars, posts,
                   restarts>>

BeginRestore_Unannounced(t) ==
    /\ monitor[t] = "capturing" /\ previous[t] # NoCommit
    /\ monitor' = [monitor EXCEPT ![t] = "restoring"]
    /\ restore' = [restore EXCEPT ![t] = "starting"]
    /\ restoreTo' = [restoreTo EXCEPT ![t] = previous[t]]
    /\ UNCHANGED <<file, deployVars, requests, streak, seen, previous, rollout, head,
                   live, up, broken, heads, posts, restarts>>

BeginRestore(t) ==
    /\ monitor[t] = "capturing"
    /\ IF previous[t] = NoCommit
       THEN /\ file' = [file EXCEPT ![t] = "rollback_failed"]
            /\ monitor' = [monitor EXCEPT ![t] = "done"]
            /\ UNCHANGED <<restore, restoreTo>>
       ELSE /\ file' = [file EXCEPT ![t] = "rollback_running"]
            /\ monitor' = [monitor EXCEPT ![t] = "restoring"]
            /\ restore' = [restore EXCEPT ![t] = "starting"]
            /\ restoreTo' = [restoreTo EXCEPT ![t] = previous[t]]
    /\ UNCHANGED <<deployVars, requests, streak, seen, previous, rollout, head, live,
                   up, broken, heads, posts, restarts>>

\* The script ended, or the connection to it was lost and it is left alone.
EndRestore(t) ==
    /\ monitor[t] = "restoring"
    /\ file' = [file EXCEPT ![t] = IF restore[t] = "succeeded" THEN "rolled_back"
                                   ELSE "rollback_failed"]
    /\ monitor' = [monitor EXCEPT ![t] = "done"]
    /\ UNCHANGED <<deployVars, requests, streak, seen, previous, hostVars, posts,
                   restarts>>

\* Reading the head, the debug report, or the restore runs into the timeout of its
\* command, which nothing catches: the coroutine ends, and the file stays as it is.
CallTimesOut(t) ==
    /\ \/ monitor[t] \in {"polling", "restoring"}
       \/ monitor[t] = "capturing" /\ previous[t] # NoCommit
    /\ monitor' = [monitor EXCEPT ![t] = "dead"]
    /\ UNCHANGED <<file, deployVars, requests, streak, seen, previous, hostVars, posts,
                   restarts>>

\* Coroutines and requests are lost; a restore script goes on or dies with its
\* connection.  Nothing reads the state files again.
RollbackWorkerRestarts ==
    /\ restarts < MaxRestarts
    /\ restarts' = restarts + 1
    /\ monitor' = [t \in Tasks |-> IF monitor[t] = "done" THEN "done" ELSE "none"]
    /\ requests' = {}
    /\ restore' \in {restore, [t \in Tasks |-> "none"]}
    /\ UNCHANGED <<file, deployVars, streak, seen, previous, restoreTo, rollout, head,
                   live, up, broken, heads, posts>>

-------------------------------------------------------------------------------
(* Host *)

CheckOut(c) == head' = c /\ heads' = heads \cup {c}

\* update-to-commit.sh finds the commit on origin and fast-forwards to it.
RolloutMerges(t) ==
    /\ rollout[t] = "fetching"
    /\ rollout' = [rollout EXCEPT ![t] = "merged"]
    /\ CheckOut(Target[t])
    /\ UNCHANGED <<file, deployVars, requests, workerVars, restore, restoreTo, live, up,
                   broken, posts, restarts>>

\* The images are built, from the checkout before or after another script moved it,
\* and the stack replaced.
RolloutBuilds(t) ==
    /\ rollout[t] = "merged"
    /\ rollout' = [rollout EXCEPT ![t] = "none"]
    /\ live' \in {Target[t], head} /\ up' = FALSE
    /\ StackRestarts
    /\ UNCHANGED <<file, requests, workerVars, restore, restoreTo, head, broken, heads,
                   posts, restarts>>

RolloutFails(t) ==
    /\ rollout[t] # "none"
    /\ rollout' = [rollout EXCEPT ![t] = "none"]
    /\ UNCHANGED <<file, deployVars, requests, workerVars, restore, restoreTo, head,
                   live, up, broken, heads, posts, restarts>>

RestoreChecksOut(t) ==
    /\ restore[t] = "starting"
    /\ restore' = [restore EXCEPT ![t] = "checkedOut"]
    /\ CheckOut(restoreTo[t])
    /\ UNCHANGED <<file, deployVars, requests, workerVars, restoreTo, rollout, live, up,
                   broken, posts, restarts>>

RestoreBuilds(t) ==
    /\ restore[t] = "checkedOut"
    /\ restore' = [restore EXCEPT ![t] = "built"]
    /\ live' \in {restoreTo[t], head} /\ up' = FALSE
    /\ StackRestarts
    /\ UNCHANGED <<file, requests, workerVars, restoreTo, rollout, head, broken, heads,
                   posts, restarts>>

\* The web UI of the running stack reports the restored commit.
RestoreSeesCommit(t) ==
    /\ restore[t] = "built" /\ live = restoreTo[t]
    /\ restore' = [restore EXCEPT ![t] = "seen"]
    /\ UNCHANGED <<file, deployVars, requests, workerVars, restoreTo, rollout, head,
                   live, up, broken, heads, posts, restarts>>

RestoreVerifies_NotAtAll(t) ==
    /\ restore[t] = "seen"
    /\ restore' = [restore EXCEPT ![t] = "succeeded"]
    /\ UNCHANGED <<file, deployVars, requests, workerVars, restoreTo, rollout, head,
                   live, up, broken, heads, posts, restarts>>

\* The health check of whatever runs by now answers.
RestoreVerifies(t) ==
    /\ restore[t] = "seen" /\ up
    /\ restore' = [restore EXCEPT ![t] = "succeeded"]
    /\ UNCHANGED <<file, deployVars, requests, workerVars, restoreTo, rollout, head,
                   live, up, broken, heads, posts, restarts>>

RestoreFails(t) ==
    /\ restore[t] \in Restoring
    /\ restore' = [restore EXCEPT ![t] = "failed"]
    /\ UNCHANGED <<file, deployVars, requests, workerVars, restoreTo, rollout, head,
                   live, up, broken, heads, posts, restarts>>

Boot ==
    /\ ~up /\ live \notin broken
    /\ up' = TRUE
    /\ UNCHANGED <<file, deployVars, requests, workerVars, restore, restoreTo, rollout,
                   head, live, broken, heads, posts, restarts>>

-------------------------------------------------------------------------------
Orchestrator(t) == BeginDeploy(t) \/ PostAgain(t) \/ GiveUp(t) \/ Observe(t)
DeployWorker(t) ==
    \/ ArmingFails(t) \/ Dispatch(t) \/ DispatchReturns(t) \/ DispatchFails(t)
    \/ HandlerIsLost(t)
\* The rollback worker's event loop gets on with this task's coroutine.
Watchdog(t) ==
    \/ MonitorStarts(t) \/ ReadHead(t) \/ Probe(t) \/ BeginRestore(t) \/ EndRestore(t)
    \/ CallTimesOut(t)
Host(t) ==
    \/ RolloutMerges(t) \/ RolloutBuilds(t) \/ RolloutFails(t)
    \/ RestoreChecksOut(t) \/ RestoreBuilds(t) \/ RestoreSeesCommit(t)
    \/ RestoreVerifies(t) \/ RestoreFails(t)

Next ==
    \/ \E t \in Tasks :
         \/ Orchestrator(t) \/ DeployWorker(t) \/ StartWatchdog(t) \/ StartFails(t)
         \/ Watchdog(t) \/ TimeOut(t) \/ Host(t)
    \/ RollbackWorkerRestarts
    \/ Boot

Spec == Init /\ [][Next]_vars

\* The watchdog's loop runs on, and its clock reaches the deadline between two of
\* its polls, however they interleave with it.  Every call of the deploy worker ends:
\* with an answer, an error, or its timeout.
FairSpec ==
    Spec /\ \A t \in Tasks : /\ WF_vars(Watchdog(t)) /\ SF_vars(TimeOut(t))
                             /\ WF_vars(DeployWorker(t))

-------------------------------------------------------------------------------
(* Properties *)

\* No task rolls out before it has a state file, which the orchestrator needs to
\* follow it, and a task posted once not before its own watchdog was armed: a coroutine
\* was started, which only a restart of the rollback worker takes away.  A second post
\* may be handed the watchdog of the first, ended or not, and roll out unwatched.
RolloutIsArmed ==
    \A t \in Tasks :
       rollout[t] # "none"
       => file[t] # "absent" /\ (posts[t] = 1 /\ restarts = 0 => monitor[t] # "none")

\* The commit that a task posted once would be rolled back to was read before its own
\* rollout could move the host: it is never rolled back to its own commit.  A second
\* post, of the same stage or of another, may read the head after the first rollout.
RollbackLeavesTarget ==
    \A t \in Tasks : posts[t] = 1 => Target[t] \notin {previous[t], restoreTo[t]}

\* A task is only called healthy if the host's checkout has been at its own commit;
\* that some other commit arrived there is not enough.
HealthySawOwnCommit ==
    \A t \in Tasks : file[t] = "healthy" => Target[t] \in heads

\* While a watchdog moves the host back for a task posted once, the state file says
\* that a rollback runs, so that nobody takes the task for decided.
RestoreShowsInFile ==
    \A t \in Tasks :
       restore[t] \in Restoring /\ posts[t] = 1 /\ monitor[t] = "restoring"
       => file[t] = "rollback_running"

\* No other task has had a deploy stage yet.
Alone(t) == \A u \in Tasks \ {t} : posts[u] = 0

\* As long as no other task is deployed, a file only says rolled back if the commit
\* that was restored is one whose stack answers: restoring a broken commit, as after
\* a second deployment, is reported as a failed rollback.
RolledBackCommitWorks ==
    \A t \in Tasks :
       Alone(t) /\ file[t] = "rolled_back" => restoreTo[t] \notin broken

\* A watchdog decides: it ends with healthy or with the outcome of a rollback in the
\* file, unless a call to the host kills it or the rollback worker restarts.
WatchdogConcludes ==
    \A t \in Tasks :
       monitor[t] \notin {"none", "done", "dead"}
       ~> \/ monitor[t] = "done" /\ file[t] \in {"healthy", "rolled_back", "rollback_failed"}
          \/ monitor[t] \in {"none", "dead"}

-------------------------------------------------------------------------------
(* Statements of the docs and comments that the code violates *)

\* The stack called healthy is the one that was rolled out.
HealthyRunsTarget == \A t \in Tasks : file[t] = "healthy" => live = Target[t]

\* Once the orchestrator has rejected an update, the watchdog is through with it.
RejectedIsOver ==
    \A t \in Tasks : phase[t] = "rejected" => monitor[t] \in {"none", "done"}

\* A host that was rolled back runs the commit it was rolled back to.
RolledBackRunsPrevious ==
    \A t \in Tasks :
       /\ file[t] = "rolled_back" /\ monitor[t] = "done"
       /\ \A u \in Tasks : rollout[u] = "none" /\ restore[u] \notin Restoring
       => live = restoreTo[t]

\* A rollout that is being monitored is decided some day.
MonitoringIsDecided ==
    \A t \in Tasks : file[t] = "monitoring" ~> file[t] # "monitoring"
===============================================================================
