-------------------------------- MODULE FixTasks --------------------------------
(***************************************************************************)
(* Tasks that the orchestrator makes for itself: auto-debug answers a      *)
(* failed run with a task that fixes the cause, and the GitHub auto-fix    *)
(* loop answers failed checks of a pull request with one.  Both are        *)
(* coroutines of the orchestrator, keep what they know in the metadata of  *)
(* the parent task, and read it before they wait for an answer.            *)
(*                                                                         *)
(*   maybe_debug:  goal (LLM) --> fix task --> monitor                     *)
(*   scan_once:    asking (GitHub) --> goal (LLM) --> fix task --> monitor *)
(*                                                                         *)
(* Only the metadata survives a restart.                                   *)
(***************************************************************************)
EXTENDS Naturals, FiniteSets

CONSTANTS
    Checks,             \* checks GitHub runs for a pull request
    MaxDebug,           \* AUTO_DEBUG_MAX_ATTEMPTS
    CILimits,           \* values of GITHUB_AUTO_FIX_MAX_ATTEMPTS
    Debuggers,          \* ids for maybe_debug coroutines; reused once idle
    MaxTasks,           \* bound: rows
    CheckedTasks,       \* bound: tasks whose pull request is looked at
    MaxDisturbances     \* bound: runs asked for again, failed checks GitHub is told
                        \* to run again, and restarts, together

ASSUME LimitsAssumption ==
    /\ MaxDebug \in Nat /\ CILimits \subseteq Nat
    /\ MaxTasks \in Nat \ {0} /\ MaxDisturbances \in Nat
ASSUME NamesAssumption == Checks # {} /\ IsFiniteSet(Checks) /\ Debuggers # {}

Tasks == 1..MaxTasks
None == 0

VARIABLES
    maxCI,      \* GITHUB_AUTO_FIX_MAX_ATTEMPTS, a setting
    task,       \* rows of tasks: status, and the metadata of both services
    check,      \* what GitHub says of the checks of a task's pull request
    running,    \* tasks with a background run
    debugger,   \* coroutines of maybe_debug
    scan,       \* the auto-fix loop: the task it inspects and what it read of it
    monitors,   \* fixes some _monitor_fix coroutine follows
    reruns, checkReruns, restarts   \* how many of each there were

bounds == <<maxCI, reruns, checkReruns, restarts>>
vars == <<task, check, running, debugger, scan, monitors, bounds>>

Statuses == {"absent", "new", "working", "gated", "pr_created", "done", "failed"}
\* fix_ready, fix_failed and fix_timeout are one outcome here, and so is what the
\* auto-fix loop writes when it starts no fix.
Outcomes == {"none", "fix_in_progress", "fix_over", "observed"}
Kinds == {"root", "cycle", "debug", "ci"}
CheckStates == {"pending", "passed", "failed"}

Debug == [status : Outcomes, attempt : Nat, fix : Tasks \cup {None}]
CI == [status : Outcomes, attempt : Nat, fix : Tasks \cup {None}, signature : SUBSET Checks]
TaskRows == [status : Statuses, kind : Kinds, parent : Tasks \cup {None},
             answers : SUBSET Checks, pr : BOOLEAN, debug : Debug, ci : CI]
Debugging == [at : {"idle", "goal"}, on : Tasks \cup {None}, attempt : Nat]
Scan == [at : {"idle", "asking", "goal"}, on : Tasks \cup {None}, seen : CI, failed : SUBSET Checks]

TypeOK ==
    /\ maxCI \in CILimits
    /\ task \in [Tasks -> TaskRows]
    /\ check \in [Tasks -> [Checks -> CheckStates]]
    /\ running \subseteq Tasks
    /\ debugger \in [Debuggers -> Debugging]
    /\ scan \in Scan
    /\ monitors \subseteq Tasks
    /\ reruns \in Nat /\ checkReruns \in Nat /\ restarts \in Nat

NoDebug == [status |-> "none", attempt |-> 0, fix |-> None]
NoCI == [status |-> "none", attempt |-> 0, fix |-> None, signature |-> {}]
NoTask == [status |-> "absent", kind |-> "root", parent |-> None, answers |-> {},
           pr |-> FALSE, debug |-> NoDebug, ci |-> NoCI]
Idle == [at |-> "idle", on |-> None, attempt |-> 0]
NoScan == [at |-> "idle", on |-> None, seen |-> NoCI, failed |-> {}]

Init ==
    /\ maxCI \in CILimits
    /\ \E kind \in {"root", "cycle"} :
         task = [t \in Tasks |-> IF t = 1 THEN [NoTask EXCEPT !.status = "new", !.kind = kind]
                                 ELSE NoTask]
    /\ check = [t \in Tasks |-> [c \in Checks |-> "pending"]]
    /\ running = {1}
    /\ debugger = [d \in Debuggers |-> Idle]
    /\ scan = NoScan
    /\ monitors = {}
    /\ reruns = 0 /\ checkReruns = 0 /\ restarts = 0

Disturbed == reruns + checkReruns + restarts < MaxDisturbances
IsNext(t) == t = Cardinality({u \in Tasks : task[u].status # "absent"}) + 1

-------------------------------------------------------------------------------
(* Runs of tasks, from outside; every run that ends is looked at by auto-debug *)

Goes(t, status) == task' = [task EXCEPT ![t].status = status, ![t].pr = @ \/ status = "pr_created"]

RunStep(t) ==
    /\ t \in running
    /\ \/ task[t].status = "new" /\ Goes(t, "working")
       \/ task[t].status = "working" /\ \E s \in {"gated", "pr_created", "failed"} : Goes(t, s)
       \/ task[t].status = "pr_created" /\ \E s \in {"done", "failed"} : Goes(t, s)
    /\ UNCHANGED <<check, running, debugger, scan, monitors, bounds>>

HasFix(row) == row.status = "fix_in_progress" /\ row.fix # None

\* What maybe_debug asks before it calls the LLM.
MayDebug(t) ==
    /\ task[t].status = "failed" /\ task[t].kind # "cycle"
    /\ ~HasFix(task[t].debug) /\ task[t].debug.attempt < MaxDebug

\* _run_in_background releases the lock and schedules maybe_debug, which runs up
\* to its call of the LLM; a cycle of self-improvement retries by itself.
RunEnds(t) ==
    /\ t \in running
    /\ task[t].status \in {"gated", "done", "failed"}
    /\ running' = running \ {t}
    /\ \/ ~MayDebug(t) /\ UNCHANGED debugger
       \/ /\ MayDebug(t)
          /\ \E d \in Debuggers :
               /\ debugger[d].at = "idle"
               /\ debugger' = [debugger EXCEPT
                    ![d] = [at |-> "goal", on |-> t, attempt |-> task[t].debug.attempt]]
    /\ UNCHANGED <<task, check, scan, monitors, bounds>>

\* An operator runs a task again: a failed run that is only started ends at once,
\* after an approval or a restart of a stage it works.
Rerun(t) ==
    /\ Disturbed /\ reruns' = reruns + 1
    /\ t \notin running /\ task[t].status \in {"gated", "failed", "working", "new"}
    /\ running' = running \cup {t}
    /\ \/ task[t].status # "gated" /\ UNCHANGED task
       \/ task[t].status # "new" /\ Goes(t, "working")
    /\ UNCHANGED <<check, debugger, scan, monitors, checkReruns, restarts, maxCI>>

\* GitHub: a check ends, or is run again for the same commit.
CheckEnds(t) ==
    /\ task[t].pr /\ t \in CheckedTasks
    /\ \E c \in Checks, s \in {"passed", "failed"} :
         check[t][c] = "pending" /\ check' = [check EXCEPT ![t][c] = s]
    /\ UNCHANGED <<task, running, debugger, scan, monitors, bounds>>

CheckRunsAgain(t) ==
    /\ Disturbed /\ checkReruns' = checkReruns + 1
    /\ \E c \in Checks :
         check[t][c] = "failed" /\ check' = [check EXCEPT ![t][c] = "pending"]
    /\ UNCHANGED <<task, running, debugger, scan, monitors, reruns, restarts, maxCI>>

-------------------------------------------------------------------------------
(* Auto-debug *)

Child(kind, parent, answers, debug, ci) ==
    [status |-> "new", kind |-> kind, parent |-> parent, answers |-> answers, pr |-> FALSE,
     debug |-> debug, ci |-> ci]

\* The fix task u is created, run and followed.
Launches(u, row, t, parentRow) ==
    /\ IsNext(u)
    /\ task' = [task EXCEPT ![u] = row, ![t] = parentRow]
    /\ running' = running \cup {u}
    /\ monitors' = monitors \cup {u}

LaunchDebugFix_Unnumbered(d) ==
    LET t == debugger[d].on IN
    /\ debugger[d].at = "goal"
    /\ \E u \in Tasks :
         Launches(u, Child("debug", t, {}, NoDebug, NoCI), t,
                  [task[t] EXCEPT !.debug = [status |-> "fix_in_progress",
                                             attempt |-> debugger[d].attempt + 1, fix |-> u]])
    /\ debugger' = [debugger EXCEPT ![d] = Idle]
    /\ UNCHANGED <<check, scan, bounds>>

\* The answer of the LLM, or a fallback: what was read before the call decides.
LaunchDebugFix(d) ==
    LET t == debugger[d].on
        attempt == debugger[d].attempt + 1
    IN
    /\ debugger[d].at = "goal"
    /\ \E u \in Tasks :
         Launches(u, Child("debug", t, {}, [NoDebug EXCEPT !.attempt = attempt], NoCI), t,
                  [task[t] EXCEPT !.debug = [status |-> "fix_in_progress",
                                             attempt |-> attempt, fix |-> u]])
    /\ debugger' = [debugger EXCEPT ![d] = Idle]
    /\ UNCHANGED <<check, scan, bounds>>

-------------------------------------------------------------------------------
(* GitHub auto-fix *)

\* _is_monitorable_task, and the read of the metadata.
BeginInspection(t) ==
    /\ scan.at = "idle"
    /\ t \in CheckedTasks /\ task[t].pr /\ task[t].status \in {"pr_created", "done"}
    /\ scan' = [at |-> "asking", on |-> t, seen |-> task[t].ci, failed |-> {}]
    /\ UNCHANGED <<task, check, running, debugger, monitors, bounds>>

\* summarize_commit_checks
In(t, state) == {c \in Checks : check[t][c] = state}

WritesCI_WithReason(t) ==
    /\ task' = [task EXCEPT ![t].ci.status = "monitor_error"]
    /\ scan' = NoScan

WritesCI(t) ==
    /\ task' = [task EXCEPT ![t].ci.status = "observed"]
    /\ scan' = NoScan

\* A call to GitHub fails.
InspectionFails ==
    /\ scan.at = "asking"
    /\ WritesCI(scan.on)
    /\ UNCHANGED <<check, running, debugger, monitors, bounds>>

\* _apply_check_summary without failed checks: monitoring, or checks_passed.
ChecksGreenOrPending ==
    /\ scan.at = "asking" /\ In(scan.on, "failed") = {}
    /\ WritesCI(scan.on)
    /\ UNCHANGED <<check, running, debugger, monitors, bounds>>

ChecksFailed_ForgetsSignature ==
    LET failed == In(scan.on, "failed") IN
    /\ scan.at = "asking" /\ failed # {}
    /\ IF HasFix(scan.seen)
       THEN scan' = NoScan /\ UNCHANGED task
       ELSE IF scan.seen.attempt >= maxCI
       THEN WritesCI(scan.on)
       ELSE scan' = [scan EXCEPT !.at = "goal", !.failed = failed] /\ UNCHANGED task
    /\ UNCHANGED <<check, running, debugger, monitors, bounds>>

\* _apply_check_summary with failed checks: nothing while a fix is under way or
\* when these checks were answered last, otherwise a fix unless they used up.
ChecksFailed ==
    LET failed == In(scan.on, "failed") IN
    /\ scan.at = "asking" /\ failed # {}
    /\ IF HasFix(scan.seen) \/ failed = scan.seen.signature
       THEN scan' = NoScan /\ UNCHANGED task
       ELSE IF scan.seen.attempt >= maxCI
       THEN /\ task' = [task EXCEPT ![scan.on].ci.status = "observed",
                                    ![scan.on].ci.signature = failed]
            /\ scan' = NoScan
       ELSE scan' = [scan EXCEPT !.at = "goal", !.failed = failed] /\ UNCHANGED task
    /\ UNCHANGED <<check, running, debugger, monitors, bounds>>

LaunchCIFix_Unmonitored ==
    LET t == scan.on IN
    /\ scan.at = "goal"
    /\ \E u \in Tasks :
         /\ IsNext(u)
         /\ task' = [task EXCEPT
              ![u] = Child("ci", t, scan.failed, NoDebug, NoCI),
              ![t].ci = [status |-> "fix_in_progress", attempt |-> scan.seen.attempt + 1,
                         fix |-> u, signature |-> scan.failed]]
         /\ running' = running \cup {u}
    /\ scan' = NoScan
    /\ UNCHANGED <<check, debugger, monitors, bounds>>

LaunchCIFix ==
    LET t == scan.on
        attempt == scan.seen.attempt + 1
    IN
    /\ scan.at = "goal"
    /\ \E u \in Tasks :
         Launches(u, Child("ci", t, scan.failed, NoDebug, [NoCI EXCEPT !.attempt = attempt]), t,
                  [task[t] EXCEPT !.ci = [status |-> "fix_in_progress", attempt |-> attempt,
                                          fix |-> u, signature |-> scan.failed]])
    /\ scan' = NoScan
    /\ UNCHANGED <<check, debugger, bounds>>

-------------------------------------------------------------------------------
(* _monitor_fix of either service, a poll each, and its deadline *)

Reports(u) ==
    LET t == task[u].parent IN
    /\ u \in monitors
    /\ task' = IF task[u].kind = "debug" THEN [task EXCEPT ![t].debug.status = "fix_over"]
               ELSE [task EXCEPT ![t].ci.status = "fix_over"]
    /\ monitors' = monitors \ {u}
    /\ UNCHANGED <<check, running, debugger, scan, bounds>>

MonitorReports(u) == task[u].status \in {"done", "pr_created", "failed"} /\ Reports(u)

MonitorGivesUp(u) == task[u].status \notin {"done", "pr_created", "failed"} /\ Reports(u)

\* The process dies: runs, debuggers, the scan and the monitors are gone.
Restart ==
    /\ Disturbed /\ restarts' = restarts + 1
    /\ running' = {} /\ monitors' = {}
    /\ debugger' = [d \in Debuggers |-> Idle]
    /\ scan' = NoScan
    /\ UNCHANGED <<task, check, reruns, checkReruns, maxCI>>

ScanStep == InspectionFails \/ ChecksGreenOrPending \/ ChecksFailed \/ LaunchCIFix

Next ==
    \/ \E t \in Tasks : RunStep(t) \/ RunEnds(t) \/ Rerun(t) \/ CheckEnds(t) \/ CheckRunsAgain(t)
    \/ \E d \in Debuggers : LaunchDebugFix(d)
    \/ \E t \in Tasks : BeginInspection(t)
    \/ ScanStep
    \/ \E u \in Tasks : MonitorReports(u) \/ MonitorGivesUp(u)
    \/ Restart

Spec == Init /\ [][Next]_vars

-------------------------------------------------------------------------------
(* Properties *)

\* The fixes of one kind in a row above a task, itself included.
Chain(kind) ==
    LET up[t \in Tasks] ==
          IF task[t].kind # kind \/ task[t].parent = None THEN 0 ELSE 1 + up[task[t].parent]
    IN up

\* Fixes of failed fixes and fixes of the checks of fixes end: fixes of one kind in
\* a row are never more than its limit, also when runs are repeated while an answer
\* of the LLM is awaited.  A fix of the other kind starts the count anew (neither
\* service hands on what the other knows), so a chain that alternates has no limit.
ChainsAreBounded ==
    \A t \in Tasks : Chain("debug")[t] <= MaxDebug /\ Chain("ci")[t] <= maxCI

Fixes(kind, t) == {u \in Tasks : task[u].kind = kind /\ task[u].parent = t}

\* A pull request gets at most so many fixes, however its checks flap, whatever
\* calls fail and whenever the orchestrator restarts.
CIFixesAreBounded ==
    \A t \in Tasks : Cardinality(Fixes("ci", t)) + (IF task[t].kind = "ci" THEN 1 ELSE 0) <= maxCI

\* Neither service goes on for ever by itself: fixes of its fixes, and the fixes of
\* one pull request, are bounded by its limit.  What both do in turn is not.
FixesAreBounded == ChainsAreBounded /\ CIFixesAreBounded

\* As long as GitHub does not run a check again, no two fixes of a pull request
\* answer the same failed checks.
SettledChecksAreAnsweredOnce ==
    checkReruns = 0 =>
        \A t \in Tasks : \A u, v \in Fixes("ci", t) :
            u # v => task[u].answers # task[v].answers

\* Without a restart a parent that says "fix in progress" is being followed up.
InProgressIsMonitored ==
    restarts = 0 =>
        \A t \in Tasks :
            /\ HasFix(task[t].debug) => task[t].debug.fix \in monitors
            /\ HasFix(task[t].ci) => task[t].ci.fix \in monitors

\* github_autofix.py calls the scan "more restart-safe" than monitors; a parent
\* whose fix is over is released after a restart as well.
ReleasedAfterRestart ==
    \A t \in Tasks :
        HasFix(task[t].ci) /\ task[task[t].ci.fix].status \in {"done", "failed"}
        => task[t].ci.fix \in monitors
================================================================================
