---- MODULE CodingPipeline ----
(* From the first call of the coding worker to the pull request of a task: the
   task's own checkout, the executions of the coding worker on it (a call whose
   connection broke is posted again while the first one still works), the review of the
   diff, the test commands, and the publication by the GitHub worker with its fallback
   to GitHub's Git API. The base branch moves meanwhile, and a failed stage is restarted.
     services/coding_worker/app.py, services/reviewer_worker/app.py,
     services/test_worker/app.py, services/github_worker/app.py,
     services/shared/agentic_lab/repo_tools.py, services/shared/agentic_lab/worker_client.py
   A step is what runs between two awaits of a worker; git itself is external.  *)
EXTENDS PatchEngine

CONSTANTS Paths,        \* the files of the repository, present or not
          Initial,      \* the base branch at first: a content for every path
          Operations,   \* the operations a model may answer with; one of action "validate" is malformed
          MaxPlan,      \* bound: operations of one plan
          Batches,      \* batches of candidate files planned one after the other; 0: no candidate file
          Executions,   \* bound: calls posted to the coding worker, 1..n in this order
          WorkerRetryAttempts, \* settings.worker_retry_attempts
          Backends,     \* what a task may be: "llm", "readme", "timeout", "revert", "openhands"
          Target,       \* the file of the deterministic backends
          Mark,         \* the line they write
          Theirs,       \* what others write to the base branch
          TestOutputs,  \* what lint, typing and test commands may leave in each file
          MaxRestarts   \* bound: restarts of a failed stage by the operator

\* A tree has a content for every path; operations are the ones that a model can answer
\* with, and a call is posted at least once.  That the two literals are strings is
\* stated because the provers do not know it.
ASSUME TreesAssumption ==
    Paths \subseteq STRING /\ Initial \in [Paths -> Contents] /\ Target \in Paths
ASSUME TextsAssumption ==
    Theirs \in Seq(STRING) /\ Mark \in STRING /\ {"", "conflict"} \subseteq STRING
ASSUME OperationsAssumption ==
    Operations \subseteq EditOperations /\ TestOutputs \in [Paths -> SUBSET Contents]
ASSUME BoundsAssumption ==
    /\ Executions \subseteq Nat \ {0} /\ WorkerRetryAttempts \in Nat \ {0}
    /\ MaxPlan \in Nat /\ Batches \in Nat

VARIABLES main,     \* the base branch on GitHub
          ws,       \* the checkout of the task
          exec,     \* the executions of the coding worker
          task,     \* the orchestrator's side: stage, call it waits for, its posts, restarts
          remote,   \* the feature branch on GitHub
          pr,       \* its pull request is open
          backend,  \* of the task
          touched,  \* the files some execution, or a test command, has written
          accepted, \* the working tree when the coding stage succeeded
          late,     \* the files written since by an execution nobody waits for
          tester,   \* the test worker, which runs one request after the other
          tested,   \* the files its commands have written since
          undo      \* the plan the last step rolled back: its operations, and where a call failed
vars == <<main, ws, exec, task, remote, pr, backend, touched, accepted, late, tester, tested, undo>>

Plans == UNION {[1..n -> Operations] : n \in 1..MaxPlan}
NoWorkspace == [cloned |-> FALSE, branch |-> FALSE, unmerged |-> FALSE,
                base |-> Initial, head |-> Initial, index |-> Initial, work |-> Initial]
NothingUndone == [operations |-> {}, faulty |-> {}]
NoBranch == [by |-> "none", tree |-> Initial]
Dead == {"idle", "answered", "gone"}

Init == /\ main = Initial
        /\ ws = NoWorkspace
        /\ exec = [e \in Executions |-> [pc |-> "idle", batch |-> 0, result |-> "none"]]
        /\ task = [stage |-> "coding", call |-> 0, posts |-> 0, restarts |-> 0]
        /\ remote = NoBranch
        /\ pr = FALSE
        /\ backend \in Backends
        /\ touched = {}
        /\ accepted = Initial
        /\ late = {}
        /\ tester = "idle"
        /\ tested = {}
        /\ undo = NothingUndone

\* Only an answer of a model can be a plan that is rolled back.
NoRollback == undo' = NothingUndone

\* --- repo_tools.py ---------------------------------------------------------

(* current_diff: `git diff <base>` compares what is tracked with the local base
   branch; a file that was never added is not in it.                          *)
Visible(w, p) == IF w.index[p] = Absent THEN Absent ELSE w.work[p]
CurrentDiff(w) == {p \in Paths : Visible(w, p) # w.base[p]}

IsDirty(w) == w.index # w.head \/ w.work # w.index

Refreshed_OnAnyBranch(w) == IF IsDirty(w) THEN w ELSE [w EXCEPT !.base = main]
(* ensure_repository_checkout: clone the base branch once; afterwards bring the
   base branch forward only while it is checked out and clean.                *)
Refreshed(w) == IF w.branch \/ IsDirty(w) THEN w
                ELSE [w EXCEPT !.base = main, !.head = main, !.index = main, !.work = main]
EnsureCheckout(w) ==
    IF w.cloned THEN Refreshed(w)
    ELSE [w EXCEPT !.cloned = TRUE, !.base = main, !.head = main, !.index = main, !.work = main]

\* ensure_branch: create the feature branch, or check it out as it is.
EnsureBranch(w) == [w EXCEPT !.branch = TRUE]

\* --- the orchestrator's call of the coding worker ---------------------------

NextCall == Min({e \in Executions : exec[e].pc = "idle"})
CanPost == \E e \in Executions : exec[e].pc = "idle"

\* call_worker posts the request.
Post == /\ task.stage = "coding" /\ task.call = 0 /\ CanPost
        /\ exec' = [exec EXCEPT ![NextCall].pc = "prepare"]
        /\ task' = [task EXCEPT !.call = NextCall, !.posts = @ + 1]
        /\ NoRollback /\ UNCHANGED <<main, ws, remote, pr, backend, touched, accepted, late, tester, tested>>

ConnectionBreaks_KeepsWaiting ==
    /\ task.call # 0
    /\ task' = IF task.posts < WorkerRetryAttempts THEN [task EXCEPT !.call = 0]
               ELSE [task EXCEPT !.stage = "failed_coding"]
    /\ NoRollback /\ UNCHANGED <<main, ws, exec, remote, pr, backend, touched, accepted, late, tester, tested>>
(* The connection breaks before the answer: post the request again, or give up.
   The worker goes on with what it was asked.                                  *)
ConnectionBreaks ==
    /\ task.call # 0
    /\ task' = IF task.posts < WorkerRetryAttempts THEN [task EXCEPT !.call = 0]
               ELSE [task EXCEPT !.call = 0, !.stage = "failed_coding"]
    /\ NoRollback /\ UNCHANGED <<main, ws, exec, remote, pr, backend, touched, accepted, late, tester, tested>>

(* The time of the stage is up, whichever post it waits for (_run_worker's
   asyncio.timeout). The worker goes on here too.                              *)
StageTimesOut == /\ task.call # 0
                 /\ task' = [task EXCEPT !.call = 0, !.stage = "failed_coding"]
                 /\ NoRollback /\ UNCHANGED <<main, ws, exec, remote, pr, backend, touched, accepted, late, tester, tested>>

\* The worker is restarted: its executions are gone, their writes stay.
WorkerRestarts == /\ \E e \in Executions : exec[e].pc \notin Dead
                  /\ exec' = [e \in Executions |->
                                 IF exec[e].pc \in Dead THEN exec[e]
                                 ELSE [pc |-> "gone", batch |-> 0, result |-> "none"]]
                  /\ NoRollback /\ UNCHANGED <<main, ws, task, remote, pr, backend, touched, accepted, late, tester, tested>>

\* --- the coding worker -------------------------------------------------------

(* Execution e, having found the checkout v, ends with a result and leaves it as w;
   the stage goes on if somebody still waits for this answer.                  *)
Results == {"success", "failure", "rolled_back"}
Ends(e, result, v, w) ==
    LET success == result = "success"
        written == {p \in Paths : w.work[p] # v.work[p]}
    IN  /\ exec' = [exec EXCEPT ![e] = [pc |-> "answered", batch |-> 0, result |-> result]]
        /\ ws' = w
        /\ task' = IF task.call # e THEN task
                   ELSE [task EXCEPT !.call = 0, !.stage = IF success THEN "review" ELSE "failed_coding"]
        /\ touched' = touched \union written
        /\ accepted' = IF task.call = e /\ success THEN w.work ELSE accepted
        /\ late' = IF task.call = e THEN IF success THEN {} ELSE late ELSE late \union written
        /\ tested' = IF task.call = e /\ success THEN {} ELSE tested

Answer(e, success, v, w) == Ends(e, IF success THEN "success" ELSE "failure", v, w)

Written(w, tree) == [w EXCEPT !.work = tree]

\* apply_edit_plan, and success only if the diff shows a change.
ApplyPlan(e, w, plan) ==
    \E r \in ApplyEditPlan(w.work, plan) :
        /\ Ends(e, CASE ~r.ok -> "rolled_back"
                     [] r.ok /\ CurrentDiff(Written(w, r.tree)) = {} -> "failure"
                     [] OTHER -> "success", w, Written(w, r.tree))
        /\ undo' = IF r.ok THEN NothingUndone
                   ELSE [operations |-> {plan[i] : i \in 1..Len(plan)}, faulty |-> r.faulty]

(* The README fast paths: put a mark at the top once; a README that has it is a
   success with nothing changed.                                               *)
ReadmeFastPath(e, w) ==
    LET content == w.work[Target]
        plan == <<EditOperation("create_or_update", Target, <<Mark>> \o content)>>
    IN  IF content = Absent THEN Answer(e, FALSE, w, w)
        ELSE IF content # <<>> /\ Head(content) = Mark THEN Answer(e, TRUE, w, w)
        ELSE \E r \in ApplyEditPlan(w.work, plan) : Answer(e, r.ok, w, Written(w, r.tree))

(* The stage-timeout fast path: replace the default; a file that has it already,
   or has no default to replace, is a failure.                                 *)
TimeoutFastPath(e, w) ==
    LET content == w.work[Target]
        updated == IF content \in {Absent, <<>>} THEN content ELSE <<Mark>> \o Tail(content)
        plan == <<EditOperation("create_or_update", Target, updated)>>
    IN  IF updated = content THEN Answer(e, FALSE, w, w)
        ELSE \E r \in ApplyEditPlan(w.work, plan) : Answer(e, r.ok, w, Written(w, r.tree))

(* The revert backend: git commits the inverse of a commit, or stops on a
   conflict and leaves the files unmerged.                                     *)
GitRevert(e, w) ==
    LET reverted == [w.head EXCEPT ![Target] = <<Mark>>]
    IN  \/ /\ IsDirty(w) \/ w.head = reverted
           /\ Answer(e, FALSE, w, w)
        \/ /\ ~IsDirty(w) /\ w.head # reverted
           /\ LET done == [w EXCEPT !.head = reverted, !.index = reverted, !.work = reverted]
              IN  Answer(e, CurrentDiff(done) # {}, w, done)
        \/ /\ ~IsDirty(w)
           /\ Answer(e, FALSE, w, [w EXCEPT !.unmerged = TRUE, !.work[Target] = <<"conflict">>])

(* run: prepare checkout and branch, then dispatch. Git refuses to change
   branches over unmerged files; a clone may fail.                             *)
Prepare(e) ==
    /\ exec[e].pc = "prepare"
    /\ LET w == EnsureBranch(EnsureCheckout(ws)) IN
       CASE ws.unmerged -> Answer(e, FALSE, ws, ws)
         [] ~ws.unmerged /\ backend = "revert" -> GitRevert(e, w)
         [] ~ws.unmerged /\ backend = "readme" -> ReadmeFastPath(e, w)
         [] ~ws.unmerged /\ backend = "timeout" -> TimeoutFastPath(e, w)
         [] ~ws.unmerged /\ backend = "llm" /\ Batches = 0 -> Answer(e, FALSE, w, w)
         [] OTHER -> /\ ws' = w
                     /\ exec' = [exec EXCEPT ![e] =
                                    [pc |-> IF backend = "llm" THEN "initial" ELSE "openhands",
                                     batch |-> 1, result |-> "none"]]
                     /\ UNCHANGED <<task, touched, accepted, late, tested>>
    /\ NoRollback /\ UNCHANGED <<main, remote, pr, backend, tester>>

CloneFails(e) ==
    /\ exec[e].pc = "prepare" /\ ~ws.cloned
    /\ Answer(e, FALSE, ws, ws)
    /\ NoRollback /\ UNCHANGED <<main, remote, pr, backend, tester>>

(* An attempt of a batch answers with operations: the ones that parse are
   applied; none of them is a failure.                                         *)
AttemptPlans(e) ==
    /\ exec[e].pc \in {"initial", "no-op-retry", "contract-recovery"}
    /\ \E raw \in Plans :
          IF ParseOperations(raw) = <<>> THEN Answer(e, FALSE, ws, ws) /\ NoRollback
          ELSE ApplyPlan(e, ws, ParseOperations(raw))
    /\ UNCHANGED <<main, remote, pr, backend, tester>>

(* An attempt answers with no operation, or fails: a first empty answer is asked
   again, then the contract is spelled out, then the next batch is tried.      *)
NextAttempt(x, error) ==
    CASE x.pc = "initial" /\ ~error -> [x EXCEPT !.pc = "no-op-retry"]
      [] x.pc = "no-op-retry" \/ (x.pc = "initial" /\ error) -> [x EXCEPT !.pc = "contract-recovery"]
      [] OTHER -> [x EXCEPT !.pc = "initial", !.batch = @ + 1]

AttemptIsEmpty(e) ==
    /\ exec[e].pc \in {"initial", "no-op-retry", "contract-recovery"}
    /\ \E error \in BOOLEAN :
          IF NextAttempt(exec[e], error).batch > Batches
          THEN Answer(e, FALSE, ws, ws)
          ELSE /\ exec' = [exec EXCEPT ![e] = NextAttempt(exec[e], error)]
               /\ UNCHANGED <<ws, task, touched, accepted, late, tested>>
    /\ NoRollback /\ UNCHANGED <<main, remote, pr, backend, tester>>

\* The OpenHands adapter edits the checkout itself; its answer is a success whatever it did.
OpenHandsAnswers(e) ==
    /\ exec[e].pc = "openhands"
    /\ \/ Answer(e, FALSE, ws, ws)
       \/ Answer(e, TRUE, ws, ws)
       \/ Answer(e, TRUE, ws, [ws EXCEPT !.work[Target] = <<Mark>>])
    /\ NoRollback /\ UNCHANGED <<main, remote, pr, backend, tester>>

\* --- review and publication ---------------------------------------------------

Advance(stage) == task' = [task EXCEPT !.stage = stage]

\* The reviewer fails when there is no diff to inspect. Fast paths go on without tests.
Review == /\ task.stage = "review"
          /\ \/ CurrentDiff(ws) = {} /\ Advance("failed_coding")
             \/ CurrentDiff(ws) # {} /\ Advance("preflight")
             \/ CurrentDiff(ws) # {} /\ task' = [task EXCEPT !.stage = "testing", !.posts = 0]
          /\ NoRollback /\ UNCHANGED <<main, ws, exec, remote, pr, backend, touched, accepted, late, tester, tested>>

(* The test worker runs the commands of a request in the checkout while its event
   loop waits, so a request that is posted again begins after the one before.    *)
PostTests == /\ task.stage = "testing" /\ tester = "idle"
             /\ tester' = "awaited"
             /\ task' = [task EXCEPT !.posts = @ + 1]
             /\ NoRollback /\ UNCHANGED <<main, ws, exec, remote, pr, backend, touched, accepted, late, tested>>

\* A command writes into the checkout, also for a request nobody waits for any more.
CommandWrites ==
    /\ tester # "idle"
    /\ \E p \in Paths, c \in UNION {TestOutputs[q] : q \in Paths} :
          /\ c \in TestOutputs[p] /\ ws.work[p] # c
          /\ ws' = [ws EXCEPT !.work = [ws.work EXCEPT ![p] = c]]
          /\ touched' = touched \union {p} /\ tested' = tested \union {p}
    /\ NoRollback /\ UNCHANGED <<main, exec, task, remote, pr, backend, accepted, late, tester>>

TestsEnd ==
    /\ tester' = "idle"
    /\ \/ tester = "abandoned" /\ UNCHANGED task
       \/ tester = "awaited" /\ \E stage \in {"preflight", "failed_testing"} : Advance(stage)
    /\ NoRollback /\ UNCHANGED <<main, ws, exec, remote, pr, backend, touched, accepted, late, tested>>

(* The connection breaks, or a command runs into its timeout and the answer is an
   error: the request is posted again, or the stage fails, as when its time is up. *)
TestsAreLost ==
    /\ tester = "awaited" /\ tester' = "abandoned"
    /\ \/ task.posts < WorkerRetryAttempts /\ UNCHANGED task
       \/ Advance("failed_testing")
    /\ NoRollback /\ UNCHANGED <<main, ws, exec, remote, pr, backend, touched, accepted, late, tested>>

\* Nothing to publish, no token or no usable origin: failure before anything is committed.
Preflight == /\ task.stage = "preflight"
             /\ \/ CurrentDiff(ws) # {} /\ Advance("commit")
                \/ Advance("failed_github")
             /\ NoRollback /\ UNCHANGED <<main, ws, exec, remote, pr, backend, touched, accepted, late, tester, tested>>

\* git add -A, and one commit; "nothing to commit" reuses the one there is.
Commit == /\ task.stage = "commit"
          /\ ws' = [ws EXCEPT !.index = ws.work, !.head = ws.work, !.unmerged = FALSE]
          /\ Advance("push")
          /\ NoRollback /\ UNCHANGED <<main, exec, remote, pr, backend, touched, accepted, late, tester, tested>>

\* git push of the feature branch, which GitHub takes only as a fast-forward.
Push == /\ task.stage = "push"
        /\ \/ /\ remote.by # "api"
              /\ remote' = [by |-> "push", tree |-> ws.head]
              /\ Advance("pull_request")
           \/ Advance("api") /\ UNCHANGED remote       \* refused for its credentials
           \/ Advance("failed_github") /\ UNCHANGED remote
        /\ NoRollback /\ UNCHANGED <<main, ws, exec, pr, backend, touched, accepted, late, tester, tested>>

(* _publish_branch_via_github_api: the files committed since the base branch, with
   their bytes in the working tree, on top of GitHub's base branch of now.     *)
CommittedPaths == {p \in Paths : ws.head[p] # ws.base[p]}
Overlay_NoDeletions == [p \in Paths |-> IF p \notin CommittedPaths \/ ws.head[p] = Absent THEN main[p]
                                        ELSE ws.work[p]]
Overlay == [p \in Paths |-> IF p \notin CommittedPaths THEN main[p]
                            ELSE IF ws.head[p] = Absent THEN Absent ELSE ws.work[p]]
Readable == \A p \in CommittedPaths : ws.head[p] # Absent => ws.work[p] # Absent

PublishViaApi ==
    /\ task.stage = "api"
    /\ \/ /\ CommittedPaths # {} /\ Readable
          /\ remote' = [by |-> "api", tree |-> Overlay]
          /\ Advance("pull_request")
       \/ Advance("failed_github") /\ UNCHANGED remote
    /\ NoRollback /\ UNCHANGED <<main, ws, exec, pr, backend, touched, accepted, late, tester, tested>>

\* GitHub refuses a second pull request of the same branch.
OpenPullRequest ==
    /\ task.stage = "pull_request"
    /\ \/ ~pr /\ pr' = TRUE /\ Advance("done")
       \/ ~pr /\ pr' = TRUE /\ Advance("failed_github")   \* the answer is lost
       \/ Advance("failed_github") /\ UNCHANGED pr
    /\ NoRollback /\ UNCHANGED <<main, ws, exec, remote, backend, touched, accepted, late, tester, tested>>

\* The operator restarts the task: at coding, or where it failed.
RestartTask ==
    /\ task.restarts < MaxRestarts
    /\ \E stage \in CASE task.stage = "failed_coding" -> {"coding"}
                      [] task.stage = "failed_testing" -> {"coding", "testing"}
                      [] task.stage = "failed_github" -> {"coding", "preflight"}
                      [] OTHER -> {} :
          task' = [stage |-> stage, call |-> 0, posts |-> 0, restarts |-> task.restarts + 1]
    /\ NoRollback /\ UNCHANGED <<main, ws, exec, remote, pr, backend, touched, accepted, late, tester, tested>>

\* Another pull request is merged into the base branch.
OthersMerge ==
    /\ main = Initial
    /\ \E p \in {x \in Paths : Initial[x] # Absent} : main' = [main EXCEPT ![p] = Theirs]
    /\ NoRollback /\ UNCHANGED <<ws, exec, task, remote, pr, backend, touched, accepted, late, tester, tested>>

Coding == \E e \in Executions : \/ Prepare(e) \/ CloneFails(e)
                                \/ AttemptPlans(e) \/ AttemptIsEmpty(e) \/ OpenHandsAnswers(e)
Github == Preflight \/ Commit \/ Push \/ PublishViaApi \/ OpenPullRequest

Testing == PostTests \/ CommandWrites \/ TestsEnd \/ TestsAreLost

Next == \/ Post \/ ConnectionBreaks \/ StageTimesOut \/ WorkerRestarts \/ Coding \/ Review \/ Testing
        \/ Github \/ RestartTask \/ OthersMerge

Spec == Init /\ [][Next]_vars

\* --- properties -----------------------------------------------------------------

Attempts == {"initial", "no-op-retry", "contract-recovery"}
Stages == {"coding", "review", "testing", "preflight", "commit", "push", "api", "pull_request",
           "done", "failed_coding", "failed_testing", "failed_github"}

\* Every part of the state has its type, and the orchestrator waits only for a posted call.
Trees == [Paths -> Contents]
Checkouts == [cloned : BOOLEAN, branch : BOOLEAN, unmerged : BOOLEAN,
              base : Trees, head : Trees, index : Trees, work : Trees]
TypeOK ==
    /\ main \in Trees /\ accepted \in Trees /\ ws \in Checkouts
    /\ remote \in [by : {"none", "push", "api"}, tree : Trees]
    /\ \A e \in Executions : /\ exec[e].pc \in Dead \union Attempts \union {"prepare", "openhands"}
                             /\ exec[e].batch \in 0..Batches + 1
                             /\ exec[e].result \in Results \union {"none"}
                             /\ exec[e].result = "none" \/ exec[e].pc = "answered"
                             /\ exec[e].batch = 0 \/ exec[e].pc \in Attempts \union {"openhands"}
    /\ task.stage \in Stages /\ task.posts \in 0..WorkerRetryAttempts
    /\ task.call \in {0} \union Executions /\ (task.call # 0 => task.stage = "coding")
    /\ pr \in BOOLEAN /\ (pr => remote.by # "none")
    /\ touched \subseteq Paths /\ late \subseteq touched /\ tested \subseteq touched
    /\ tester \in {"idle", "awaited", "abandoned"}
    /\ (tester = "awaited" => task.stage = "testing")
    /\ undo \in [operations : SUBSET Operations, faulty : SUBSET Paths]

(* What the task's diff shows - to the reviewer, the risk flags and the commit
   message alike - was written by the task, its coding executions or its test
   commands: the local base branch it is taken against never moves once the
   feature branch exists, whatever is merged on GitHub meanwhile and however often
   the checkout is prepared again.                                              *)
DiffIsOnlyOurs == CurrentDiff(ws) \subseteq touched

RolledBack(e) == exec[e].result = "none" /\ exec'[e].result = "rolled_back"

(* A plan that fails leaves no half-made edit: whatever its operations did, a file is
   as it was before, except one that an operation of this very plan deleted, or
   created with the content it has. Nothing is said of a file at which a call to the
   file system failed: the snapshot then is None, which makes _rollback delete it, or
   the write of the old bytes failed, which _rollback ignores.                   *)
FailedPlanUndoesEdits ==
    [][\A e \in Executions : RolledBack(e) =>
          \A p \in Paths \ undo'.faulty :
              \/ ws'.work[p] = ws.work[p]
              \/ \E op \in undo'.operations :
                    /\ op.file_path = p
                    /\ \/ op.action = "delete_file" /\ ws'.work[p] = Absent
                       \/ op.action = "create_file" /\ ws'.work[p] = op.new_content]_vars

(* The pull request is of what the coding stage answered with and of what the test
   commands made of it: every file that coding changed has on GitHub the content it
   had then, deleted files are gone, and every other file is one of the base branch,
   except that a file which the test commands wrote may have what they left there, or
   be the base branch's again; by either way of publishing and after any number of
   failed attempts. Files written meanwhile by an execution of the coding worker that
   nobody waits for are not covered.                                             *)
PublishedIsAccepted ==
    [][pr' /\ ~pr =>
          \A p \in Paths \ late :
              \/ IF accepted[p] = ws.base[p] THEN remote.tree[p] \in {Initial[p], main[p]}
                 ELSE remote.tree[p] = accepted[p]
              \/ p \in tested /\ remote.tree[p] \in TestOutputs[p] \union {accepted[p], Initial[p], main[p]}]_vars

(* patch_engine.py:9 says of a failed plan that "previously written files are
   restored": it leaves the working tree as it found it, if the file system answers. *)
RollbackRestoresTree ==
    [][\A e \in Executions : RolledBack(e) /\ undo'.faulty = {} => ws'.work = ws.work]_vars
====
