----------------------------- MODULE FixTasksProofs -----------------------------
(***************************************************************************)
(* Proofs about FixTasks: what the orchestrator starts for itself is       *)
(* bounded, failed checks are answered once, and a parent that waits for a *)
(* fix is followed up.                                                     *)
(*                                                                         *)
(* The length of a chain of fixes is a recursive function of the rows.  It *)
(* is compared with a function `depth' that the invariant only asserts to  *)
(* exist: a new fix is one deeper than its parent, and no attempt that is  *)
(* stored or remembered by a coroutine is below the depth of its task.     *)
(***************************************************************************)
EXTENDS FixTasks, FiniteSetTheorems, WellFoundedInduction, TLAPS

-------------------------------------------------------------------------------
(* Types *)

\* The names of the statuses are all there.
LEMMA Names ==
    /\ {"new", "working", "gated", "pr_created", "done", "failed"} \subseteq Statuses
    /\ {"fix_in_progress", "fix_over", "observed"} \subseteq Outcomes
    /\ {"debug", "ci"} \subseteq Kinds
    /\ {"passed", "failed", "pending"} \subseteq CheckStates
BY DEF Statuses, Outcomes, Kinds, CheckStates

\* What the rows start from is of their types.
LEMMA EmptyRows ==
    /\ NoDebug \in Debug /\ NoCI \in CI /\ NoTask \in TaskRows
    /\ Idle \in Debugging /\ NoScan \in Scan
<1>1. NoDebug \in Debug /\ NoCI \in CI
    BY DEF NoDebug, NoCI, Debug, CI, Outcomes
<1>2. NoTask \in TaskRows
    BY <1>1 DEF NoTask, TaskRows, Statuses, Kinds
<1>3. Idle \in Debugging
    BY DEF Idle, Debugging
<1>4. NoScan \in Scan
    BY <1>1 DEF NoScan, Scan
<1> QED
    BY <1>1, <1>2, <1>3, <1>4

\* Each field of a row may be rewritten with a value of its type.
LEMMA RowUpdates ==
    ASSUME NEW row \in TaskRows
    PROVE  /\ \A x \in Statuses, p \in BOOLEAN :
                 [row EXCEPT !.status = x, !.pr = p] \in TaskRows
           /\ \A x \in Debug : [row EXCEPT !.debug = x] \in TaskRows
           /\ \A x \in CI : [row EXCEPT !.ci = x] \in TaskRows
           /\ \A x \in Outcomes : /\ [row.debug EXCEPT !.status = x] \in Debug
                                  /\ [row.ci EXCEPT !.status = x] \in CI
                                  /\ \A f \in SUBSET Checks :
                                       [row.ci EXCEPT !.status = x, !.signature = f] \in CI
<1>1. row.debug \in Debug /\ row.ci \in CI
    BY DEF TaskRows
<1>2. \A x \in Outcomes : [row.debug EXCEPT !.status = x] \in Debug
    BY <1>1 DEF Debug
<1>3. \A x \in Outcomes : [row.ci EXCEPT !.status = x] \in CI
    BY <1>1 DEF CI
<1>4. \A x \in Outcomes, f \in SUBSET Checks :
         [row.ci EXCEPT !.status = x, !.signature = f] \in CI
    BY <1>1 DEF CI
<1>5. \A x \in Statuses, p \in BOOLEAN : [row EXCEPT !.status = x, !.pr = p] \in TaskRows
    BY DEF TaskRows
<1>6. \A x \in Debug : [row EXCEPT !.debug = x] \in TaskRows
    BY DEF TaskRows
<1>7. \A x \in CI : [row EXCEPT !.ci = x] \in TaskRows
    BY DEF TaskRows
<1> QED
    BY <1>2, <1>3, <1>4, <1>5, <1>6, <1>7

-------------------------------------------------------------------------------
(* Rows *)

Present(t) == task[t].status # "absent"

\* Rows are created in order, an absent row is blank, and a parent is older.
RowsInOrder == \A t, v \in Tasks : Present(t) /\ v < t => Present(v)
AbsentIsBlank == \A t \in Tasks : ~Present(t) => task[t] = NoTask
ParentsAreOlder ==
    \A t \in Tasks :
        /\ task[t].parent < t
        /\ task[t].kind \in {"debug", "ci"} => task[t].parent # None
RowsHold == RowsInOrder /\ AbsentIsBlank /\ ParentsAreOlder

\* The next row is not there yet, all below it are.
LEMMA NextRow ==
    ASSUME RowsInOrder, NEW u \in Tasks, IsNext(u)
    PROVE  ~Present(u) /\ \A v \in Tasks : v < u => Present(v)
<1> DEFINE P == {v \in Tasks : task[v].status # "absent"}
<1>1. MaxTasks \in Nat /\ IsFiniteSet(Tasks) /\ P \subseteq Tasks
    BY LimitsAssumption, FS_Interval DEF Tasks
<1>2. IsFiniteSet(P) /\ Cardinality(P) \in Nat
    BY <1>1, FS_Subset, FS_CardinalityType
<1>3. u = Cardinality(P) + 1 /\ u \in Nat
    BY <1>1 DEF IsNext, Tasks
<1>4. \A t, v \in Tasks : t \in P /\ v < t => v \in P
    BY DEF RowsInOrder, Present
<1> HIDE DEF P
<1>5. u \notin P
    <2> SUFFICES ASSUME u \in P
                 PROVE  FALSE
        OBVIOUS
    <2>1. 1..u \subseteq P
        BY <1>1, <1>3, <1>4 DEF Tasks
    <2>2. Cardinality(1..u) = u
        BY <1>3, FS_Interval
    <2>3. Cardinality(1..u) <= Cardinality(P)
        BY <1>2, <2>1, FS_Subset
    <2> QED
        BY <1>2, <1>3, <2>2, <2>3
<1>6. ASSUME NEW v \in Tasks, v < u
      PROVE  v \in P
    <2> SUFFICES ASSUME v \notin P
                 PROVE  FALSE
        OBVIOUS
    <2>1. v \in Nat \ {0}
        BY <1>1 DEF Tasks
    <2>2. P \subseteq 1..(v - 1)
        BY <1>1, <1>4, <2>1 DEF Tasks
    <2>3. IsFiniteSet(1..(v - 1)) /\ Cardinality(1..(v - 1)) = v - 1
        BY <2>1, FS_Interval
    <2>4. Cardinality(P) <= v - 1
        BY <2>2, <2>3, FS_Subset
    <2> QED
        BY <1>2, <1>3, <1>6, <2>1, <2>4
<1> QED
    BY <1>5, <1>6 DEF P, Present

\* What a step that is no launch leaves of a row.
Stays(v) == /\ task'[v].kind = task[v].kind /\ task'[v].parent = task[v].parent
            /\ task'[v].answers = task[v].answers
            /\ task'[v].status = "absent" <=> task[v].status = "absent"
            /\ task'[v].debug.attempt = task[v].debug.attempt
            /\ task'[v].debug.fix = task[v].debug.fix
            /\ task'[v].ci.attempt = task[v].ci.attempt
            /\ task'[v].ci.fix = task[v].ci.fix

\* If all rows stay and only rows that are there change, the order stays.
LEMMA StayingKeepsRows ==
    ASSUME RowsHold, \A v \in Tasks : Stays(v),
           \A v \in Tasks : ~Present(v) => task'[v] = task[v]
    PROVE  RowsHold'
<1>1. RowsInOrder'
    BY DEF RowsHold, RowsInOrder, Present, Stays
<1>2. AbsentIsBlank'
    BY DEF RowsHold, AbsentIsBlank, Present, Stays
<1>3. ParentsAreOlder'
    BY DEF RowsHold, ParentsAreOlder, Stays
<1> QED
    BY <1>1, <1>2, <1>3 DEF RowsHold

\* A run that gets on changes the status of its task only.
LEMMA GoesKeeps ==
    ASSUME TypeOK, NEW t \in Tasks, Present(t), NEW s \in Statuses \ {"absent"}, Goes(t, s)
    PROVE  /\ task' \in [Tasks -> TaskRows]
           /\ \A v \in Tasks : /\ Stays(v) /\ task'[v].debug = task[v].debug
                               /\ task'[v].ci = task[v].ci
           /\ \A v \in Tasks \ {t} : task'[v] = task[v]
<1>1. task \in [Tasks -> TaskRows] /\ task[t] \in TaskRows
    BY DEF TypeOK
<1>2. PICK p \in BOOLEAN : task' = [task EXCEPT ![t] = [task[t] EXCEPT !.status = s, !.pr = p]]
    <2>1. (task[t].pr \/ s = "pr_created") \in BOOLEAN
        OBVIOUS
    <2>2. task' = [task EXCEPT ![t] = [task[t] EXCEPT !.status = s,
                                                      !.pr = task[t].pr \/ s = "pr_created"]]
        BY Zenon DEF Goes
    <2> QED
        BY <2>1, <2>2, Zenon
<1> DEFINE row == [task[t] EXCEPT !.status = s, !.pr = p]
<1>3. row \in TaskRows
    BY <1>1, RowUpdates
<1>4. /\ row.kind = task[t].kind /\ row.parent = task[t].parent
      /\ row.answers = task[t].answers /\ row.status = s
      /\ row.debug = task[t].debug /\ row.ci = task[t].ci
    BY <1>1 DEF TaskRows
<1> HIDE DEF row
<1>5. task'[t] = row /\ \A v \in Tasks \ {t} : task'[v] = task[v]
    BY <1>1, <1>2 DEF row
<1>6. task' \in [Tasks -> TaskRows]
    BY <1>1, <1>2, <1>3 DEF row
<1>7. Stays(t) /\ task'[t].debug = task[t].debug /\ task'[t].ci = task[t].ci
    BY <1>4, <1>5 DEF Stays, Present
<1>8. \A v \in Tasks \ {t} : Stays(v)
    BY <1>5 DEF Stays
<1> QED
    BY <1>5, <1>6, <1>7, <1>8

\* The auto-fix loop that starts no fix writes an outcome, and perhaps the
\* failed checks, into the metadata of the task it inspects.
LEMMA WriteKeeps ==
    ASSUME TypeOK, NEW t \in Tasks, NEW f \in SUBSET Checks,
           \/ task' = [task EXCEPT ![t].ci.status = "observed"]
           \/ task' = [task EXCEPT ![t].ci.status = "observed", ![t].ci.signature = f]
    PROVE  /\ task' \in [Tasks -> TaskRows]
           /\ \A v \in Tasks : Stays(v) /\ task'[v].debug = task[v].debug
           /\ \A v \in Tasks \ {t} : task'[v] = task[v]
           /\ task'[t].ci.status = "observed"
           /\ task'[t].status = task[t].status
           /\ task'[t].ci.signature \in {task[t].ci.signature, f}
           /\ task' = [task EXCEPT ![t].ci.status = "observed"] =>
                task'[t].ci.signature = task[t].ci.signature
<1>1. task \in [Tasks -> TaskRows] /\ task[t] \in TaskRows /\ task[t].ci \in CI
    BY DEF TypeOK, TaskRows
<1>2. CASE task' = [task EXCEPT ![t].ci.status = "observed"]
    <2> DEFINE ci == [task[t].ci EXCEPT !.status = "observed"]
    <2>1. ci \in CI
        BY <1>1, RowUpdates, Names
    <2>2. /\ ci.status = "observed" /\ ci.signature = task[t].ci.signature
          /\ ci.attempt = task[t].ci.attempt /\ ci.fix = task[t].ci.fix
        BY <1>1 DEF CI
    <2>3. task' = [task EXCEPT ![t] = [task[t] EXCEPT !.ci = ci]]
        BY <1>2, Zenon
    <2> HIDE DEF ci
    <2>4. [task[t] EXCEPT !.ci = ci] \in TaskRows
        BY <1>1, <2>1, RowUpdates
    <2>5. \A v \in Tasks \ {t} : task'[v] = task[v]
        BY <1>1, <2>3
    <2>6. task'[t] = [task[t] EXCEPT !.ci = ci]
        BY <1>1, <2>3
    <2>7. /\ task'[t].ci = ci /\ task'[t].debug = task[t].debug
          /\ task'[t].kind = task[t].kind /\ task'[t].parent = task[t].parent
          /\ task'[t].answers = task[t].answers /\ task'[t].status = task[t].status
        BY <1>1, <2>6 DEF TaskRows
    <2>8. task' \in [Tasks -> TaskRows]
        BY <1>1, <2>3, <2>4
    <2> QED
        BY <2>2, <2>5, <2>7, <2>8 DEF Stays
<1>3. CASE task' = [task EXCEPT ![t].ci.status = "observed", ![t].ci.signature = f]
    <2> DEFINE ci == [task[t].ci EXCEPT !.status = "observed", !.signature = f]
    <2>1. ci \in CI
        BY <1>1, RowUpdates, Names
    <2>2. /\ ci.status = "observed" /\ ci.signature = f
          /\ ci.attempt = task[t].ci.attempt /\ ci.fix = task[t].ci.fix
        BY <1>1 DEF CI
    <2>3. task' = [task EXCEPT ![t] = [task[t] EXCEPT !.ci = ci]]
        BY <1>1, <1>3, Zenon
    <2> HIDE DEF ci
    <2>4. [task[t] EXCEPT !.ci = ci] \in TaskRows
        BY <1>1, <2>1, RowUpdates
    <2>5. \A v \in Tasks \ {t} : task'[v] = task[v]
        BY <1>1, <2>3
    <2>6. task'[t] = [task[t] EXCEPT !.ci = ci]
        BY <1>1, <2>3
    <2>7. /\ task'[t].ci = ci /\ task'[t].debug = task[t].debug
          /\ task'[t].kind = task[t].kind /\ task'[t].parent = task[t].parent
          /\ task'[t].answers = task[t].answers /\ task'[t].status = task[t].status
        BY <1>1, <2>6 DEF TaskRows
    <2>8. task' \in [Tasks -> TaskRows]
        BY <1>1, <2>3, <2>4
    <2>9. task' = [task EXCEPT ![t].ci.status = "observed"] =>
            task'[t].ci.signature = task[t].ci.signature
        BY <1>1 DEF TaskRows, CI
    <2> QED
        BY <2>2, <2>5, <2>7, <2>8, <2>9 DEF Stays
<1> QED
    BY <1>2, <1>3

\* A monitor that ends releases the parent of the fix, in the service's own part
\* of the metadata.
LEMMA ReportKeeps ==
    ASSUME TypeOK, NEW u \in Tasks, task[u].parent \in Tasks, Reports(u)
    PROVE  /\ task' \in [Tasks -> TaskRows]
           /\ \A v \in Tasks : /\ Stays(v) /\ task'[v].status = task[v].status
                               /\ task'[v].ci.signature = task[v].ci.signature
                               /\ HasFix(task'[v].debug) => HasFix(task[v].debug)
                               /\ HasFix(task'[v].ci) => HasFix(task[v].ci)
           /\ \A v \in Tasks \ {task[u].parent} : task'[v] = task[v]
           /\ task[u].kind = "debug" => ~HasFix(task'[task[u].parent].debug)
           /\ task[u].kind # "debug" => ~HasFix(task'[task[u].parent].ci)
<1> DEFINE t == task[u].parent
<1>1. task \in [Tasks -> TaskRows] /\ task[t] \in TaskRows
    BY DEF TypeOK
<1>2. t \in Tasks /\ task[t].ci \in CI /\ task[t].debug \in Debug
    BY <1>1 DEF TaskRows
<1>3. CASE task[u].kind = "debug"
    <2> DEFINE debug == [task[t].debug EXCEPT !.status = "fix_over"]
    <2>1. debug \in Debug
        BY <1>1, RowUpdates, Names
    <2>2. /\ debug.status = "fix_over"
          /\ debug.attempt = task[t].debug.attempt /\ debug.fix = task[t].debug.fix
        BY <1>2 DEF Debug
    <2>3. task' = [task EXCEPT ![t] = [task[t] EXCEPT !.debug = debug]]
        BY <1>3, Zenon DEF Reports
    <2> HIDE DEF debug
    <2>4. [task[t] EXCEPT !.debug = debug] \in TaskRows
        BY <1>1, <2>1, RowUpdates
    <2>5. \A v \in Tasks \ {t} : task'[v] = task[v]
        BY <1>1, <2>3
    <2>6. task'[t] = [task[t] EXCEPT !.debug = debug]
        BY <1>1, <1>2, <2>3
    <2>7. /\ task'[t].ci = task[t].ci /\ task'[t].debug = debug
          /\ task'[t].kind = task[t].kind /\ task'[t].parent = task[t].parent
          /\ task'[t].answers = task[t].answers /\ task'[t].status = task[t].status
        BY <1>1, <2>6 DEF TaskRows
    <2>8. task' \in [Tasks -> TaskRows]
        BY <1>1, <2>3, <2>4
    <2> HIDE DEF t
    <2>9. ~HasFix(task'[t].debug)
        BY <2>2, <2>7 DEF HasFix
    <2>10. \A v \in Tasks : /\ Stays(v) /\ task'[v].status = task[v].status
                            /\ task'[v].ci = task[v].ci
                            /\ HasFix(task'[v].debug) => HasFix(task[v].debug)
        BY <2>2, <2>5, <2>7, <2>9 DEF Stays
    <2> QED
        BY <1>3, <2>5, <2>8, <2>9, <2>10 DEF t
<1>4. CASE task[u].kind # "debug"
    <2> DEFINE ci == [task[t].ci EXCEPT !.status = "fix_over"]
    <2>1. ci \in CI
        BY <1>1, RowUpdates, Names
    <2>2. /\ ci.status = "fix_over" /\ ci.signature = task[t].ci.signature
          /\ ci.attempt = task[t].ci.attempt /\ ci.fix = task[t].ci.fix
        BY <1>2 DEF CI
    <2>3. task' = [task EXCEPT ![t] = [task[t] EXCEPT !.ci = ci]]
        BY <1>4, Zenon DEF Reports
    <2> HIDE DEF ci
    <2>4. [task[t] EXCEPT !.ci = ci] \in TaskRows
        BY <1>1, <2>1, RowUpdates
    <2>5. \A v \in Tasks \ {t} : task'[v] = task[v]
        BY <1>1, <2>3
    <2>6. task'[t] = [task[t] EXCEPT !.ci = ci]
        BY <1>1, <1>2, <2>3
    <2>7. /\ task'[t].ci = ci /\ task'[t].debug = task[t].debug
          /\ task'[t].kind = task[t].kind /\ task'[t].parent = task[t].parent
          /\ task'[t].answers = task[t].answers /\ task'[t].status = task[t].status
        BY <1>1, <2>6 DEF TaskRows
    <2>8. task' \in [Tasks -> TaskRows]
        BY <1>1, <2>3, <2>4
    <2> HIDE DEF t
    <2>9. ~HasFix(task'[t].ci)
        BY <2>2, <2>7 DEF HasFix
    <2>10. \A v \in Tasks : /\ Stays(v) /\ task'[v].status = task[v].status
                            /\ task'[v].debug = task[v].debug
                            /\ task'[v].ci.signature = task[v].ci.signature
                            /\ HasFix(task'[v].ci) => HasFix(task[v].ci)
        BY <2>2, <2>5, <2>7, <2>9 DEF Stays
    <2> QED
        BY <1>4, <2>5, <2>8, <2>9, <2>10 DEF t
<1> QED
    BY <1>3, <1>4

\* A fix u for t: a new row, and the metadata of t.
LEMMA LaunchAdds ==
    ASSUME TypeOK, RowsHold, NEW t \in Tasks, Present(t), NEW u \in Tasks,
           NEW row \in TaskRows, row.status = "new", row.parent = t,
           NEW prow \in TaskRows, prow.kind = task[t].kind, prow.parent = task[t].parent,
           prow.answers = task[t].answers, prow.status = task[t].status,
           Launches(u, row, t, prow)
    PROVE  /\ task' \in [Tasks -> TaskRows] /\ RowsHold'
           /\ ~Present(u) /\ u # t /\ t < u
           /\ task'[u] = row /\ task'[t] = prow
           /\ \A v \in Tasks \ {t, u} : task'[v] = task[v]
           /\ \A v \in Tasks : task[v].parent # u
           /\ \A v \in Tasks : Present(v) => Present(v)'
<1>1. task \in [Tasks -> TaskRows] /\ task' = [task EXCEPT ![u] = row, ![t] = prow]
    BY DEF TypeOK, Launches
<1>2. ~Present(u) /\ \A v \in Tasks : v < u => Present(v)
    BY NextRow DEF Launches, RowsHold
<1>3. /\ u # t /\ task'[u] = row /\ task'[t] = prow
      /\ \A v \in Tasks \ {t, u} : task'[v] = task[v]
    BY <1>1, <1>2
<1>4. task' \in [Tasks -> TaskRows]
    BY <1>1
<1>5. MaxTasks \in Nat /\ t \in Nat \ {0} /\ u \in Nat \ {0}
    BY LimitsAssumption DEF Tasks
<1>6. \A v \in Tasks : Present(v) => v < u
    BY <1>2, <1>5 DEF RowsHold, RowsInOrder, Tasks
<1>7. \A v \in Tasks : task[v].parent # u
    <2> SUFFICES ASSUME NEW v \in Tasks, task[v].parent = u
                 PROVE  FALSE
        OBVIOUS
    <2>1. u < v
        BY DEF RowsHold, ParentsAreOlder
    <2>2. CASE Present(v)
        BY <1>2, <2>1, <2>2 DEF RowsHold, RowsInOrder
    <2>3. CASE ~Present(v)
        <3>1. task[v].parent = None
            BY <2>3 DEF RowsHold, AbsentIsBlank, NoTask
        <3> QED
            BY <1>5, <3>1 DEF None
    <2> QED
        BY <2>2, <2>3
<1>8. \A v \in Tasks : Present(v)' <=> Present(v) \/ v = u
    BY <1>3 DEF Present
<1>9. RowsInOrder'
    <2> SUFFICES ASSUME NEW v \in Tasks, NEW w \in Tasks, Present(v)', w < v
                 PROVE  Present(w)'
        BY DEF RowsInOrder
    <2> QED
        BY <1>2, <1>8 DEF RowsHold, RowsInOrder
<1>10. AbsentIsBlank'
    BY <1>3, <1>8 DEF RowsHold, AbsentIsBlank, Present
<1>11. ParentsAreOlder'
    <2> SUFFICES ASSUME NEW v \in Tasks
                 PROVE  /\ task'[v].parent < v
                        /\ task'[v].kind \in {"debug", "ci"} => task'[v].parent # None
        BY DEF ParentsAreOlder
    <2>1. CASE v = u
        BY <1>3, <1>5, <1>6, <2>1 DEF None
    <2>2. CASE v # u
        <3>1. task'[v].parent = task[v].parent /\ task'[v].kind = task[v].kind
            BY <1>3, <2>2
        <3> QED
            BY <3>1 DEF RowsHold, ParentsAreOlder
    <2> QED
        BY <2>1, <2>2
<1> QED
    BY <1>2, <1>3, <1>4, <1>6, <1>7, <1>8, <1>9, <1>10, <1>11 DEF RowsHold

-------------------------------------------------------------------------------
(* The invariant *)

\* Coroutines work on tasks that are there.
ActorsHold ==
    /\ \A t \in running : Present(t)
    /\ \A d \in Debuggers : debugger[d].at = "goal" => debugger[d].on \in Tasks /\ Present(debugger[d].on)
    /\ scan.at # "idle" => scan.on \in Tasks /\ Present(scan.on)
    /\ \A u \in monitors : Present(u) /\ task[u].kind \in {"debug", "ci"}

\* depth is the number of fixes of one kind in a row above a task.
IsDepth(kind, depth) ==
    depth = [t \in Tasks |-> IF task[t].kind # kind \/ task[t].parent = None THEN 0
                             ELSE 1 + depth[task[t].parent]]

\* No attempt of auto-debug that is stored or remembered is below the depth of its
\* task, and none exceeds the limit.
DebugDepthHolds ==
    /\ \A t \in Tasks : task[t].debug.attempt <= MaxDebug
    /\ \A d \in Debuggers : debugger[d].at = "goal" => debugger[d].attempt < MaxDebug
    /\ \E depth \in [Tasks -> Nat] :
         /\ IsDepth("debug", depth)
         /\ \A t \in Tasks : depth[t] <= task[t].debug.attempt
         /\ \A d \in Debuggers :
              debugger[d].at = "goal" => depth[debugger[d].on] <= debugger[d].attempt

\* No attempt of the auto-fix loop is below the depth of its task (CountHolds bounds
\* it, and says that the loop remembers what is stored).
CIDepthHolds ==
    \E depth \in [Tasks -> Nat] :
        IsDepth("ci", depth) /\ \A t \in Tasks : depth[t] <= task[t].ci.attempt

DepthHolds == DebugDepthHolds /\ CIDepthHolds

\* The attempt in the metadata counts the fixes of a pull request; what the loop
\* remembers of the metadata is still what is stored, for it is the only writer.
CountHolds ==
    /\ \A t \in Tasks :
         /\ Cardinality(Fixes("ci", t)) + (IF task[t].kind = "ci" THEN 1 ELSE 0)
              <= task[t].ci.attempt
         /\ task[t].ci.attempt <= maxCI
    /\ scan.at # "idle" => scan.seen.attempt = task[scan.on].ci.attempt
    /\ scan.at = "goal" => scan.seen.attempt < maxCI

\* Checks that failed stay failed, so the answered ones only grow.
AnswersHold ==
    checkReruns = 0 =>
        /\ \A t \in Tasks :
             /\ task[t].ci.signature \subseteq In(t, "failed")
             /\ \A u \in Fixes("ci", t) : task[u].answers \subseteq task[t].ci.signature
        /\ scan.at # "idle" => scan.seen.signature = task[scan.on].ci.signature
        /\ scan.at = "goal" =>
             /\ scan.failed \subseteq In(scan.on, "failed")
             /\ scan.seen.signature \subseteq scan.failed
             /\ scan.seen.signature # scan.failed

\* The fix a parent names is a fix of that kind, and of that parent.
NamesHold ==
    \A t \in Tasks :
        /\ task[t].debug.fix # None =>
             task[task[t].debug.fix].kind = "debug" /\ task[task[t].debug.fix].parent = t
        /\ task[t].ci.fix # None =>
             task[task[t].ci.fix].kind = "ci" /\ task[task[t].ci.fix].parent = t

IInv == /\ TypeOK /\ RowsHold /\ ActorsHold /\ DepthHolds /\ CountHolds /\ AnswersHold
        /\ SettledChecksAreAnsweredOnce /\ NamesHold /\ InProgressIsMonitored

-------------------------------------------------------------------------------
(* Steps that launch no fix *)

\* Attempts are numbers of the rows, and of the debuggers.
LEMMA Attempts ==
    ASSUME TypeOK
    PROVE  /\ maxCI \in Nat /\ MaxDebug \in Nat
           /\ \A t \in Tasks : /\ task[t] \in TaskRows
                               /\ task[t].debug \in Debug /\ task[t].ci \in CI
                               /\ task[t].debug.attempt \in Nat /\ task[t].ci.attempt \in Nat
                               /\ task[t].debug.fix \in Tasks \cup {None}
                               /\ task[t].ci.fix \in Tasks \cup {None}
                               /\ task[t].parent \in Tasks \cup {None}
                               /\ task[t].ci.signature \subseteq Checks
                               /\ task[t].answers \subseteq Checks
           /\ \A d \in Debuggers : debugger[d].attempt \in Nat
           /\ scan \in Scan /\ scan.seen \in CI /\ scan.seen.attempt \in Nat
           /\ scan.failed \subseteq Checks /\ scan.seen.signature \subseteq Checks
<1>1. maxCI \in Nat /\ MaxDebug \in Nat
    BY LimitsAssumption DEF TypeOK
<1>2. \A t \in Tasks : task[t] \in TaskRows
    BY DEF TypeOK
<1>3. \A t \in Tasks : /\ task[t].debug \in Debug /\ task[t].ci \in CI
                       /\ task[t].parent \in Tasks \cup {None} /\ task[t].answers \subseteq Checks
    BY <1>2 DEF TaskRows
<1>4. \A d \in Debuggers : debugger[d].attempt \in Nat
    BY DEF TypeOK, Debugging
<1>5. scan \in Scan /\ scan.seen \in CI /\ scan.failed \subseteq Checks
    BY DEF TypeOK, Scan
<1>6. scan.seen.attempt \in Nat /\ scan.seen.signature \subseteq Checks
    BY <1>5 DEF CI
<1>7. \A t \in Tasks : /\ task[t].debug.attempt \in Nat /\ task[t].ci.attempt \in Nat
                       /\ task[t].debug.fix \in Tasks \cup {None}
                       /\ task[t].ci.fix \in Tasks \cup {None}
                       /\ task[t].ci.signature \subseteq Checks
    BY <1>3 DEF Debug, CI
<1> QED
    BY <1>1, <1>2, <1>3, <1>4, <1>5, <1>6, <1>7

\* When rows stay, so does the depth of each.
LEMMA StayingKeepsChains ==
    ASSUME NEW kind, NEW depth, IsDepth(kind, depth), \A v \in Tasks : Stays(v)
    PROVE  IsDepth(kind, depth)'
<1>1. \A t \in Tasks : task'[t].kind = task[t].kind /\ task'[t].parent = task[t].parent
    BY DEF Stays
<1>2. depth = [t \in Tasks |-> IF task'[t].kind # kind \/ task'[t].parent = None THEN 0
                               ELSE 1 + depth[task'[t].parent]]
    BY <1>1 DEF IsDepth
<1> QED
    BY <1>2 DEF IsDepth

\* So do the bounds of the attempts; a debugger that starts remembers what is stored.
LEMMA StayingKeepsDepth ==
    ASSUME TypeOK, DepthHolds, \A v \in Tasks : Stays(v),
           \A d \in Debuggers :
              debugger'[d].at = "goal" =>
                \/ debugger'[d] = debugger[d]
                \/ /\ debugger'[d].on \in Tasks
                   /\ debugger'[d].attempt = task[debugger'[d].on].debug.attempt
                   /\ debugger'[d].attempt < MaxDebug
    PROVE  DepthHolds'
<1>1. PICK depth \in [Tasks -> Nat] :
         /\ IsDepth("debug", depth)
         /\ \A t \in Tasks : depth[t] <= task[t].debug.attempt
         /\ \A d \in Debuggers :
              debugger[d].at = "goal" => depth[debugger[d].on] <= debugger[d].attempt
    BY DEF DepthHolds, DebugDepthHolds
<1>2. IsDepth("debug", depth)'
    BY <1>1, StayingKeepsChains
<1>3. \A t \in Tasks : depth[t] <= task'[t].debug.attempt /\ task'[t].debug.attempt <= MaxDebug
    BY <1>1 DEF Stays, DepthHolds, DebugDepthHolds
<1>4. \A d \in Debuggers :
         debugger'[d].at = "goal" => /\ depth[debugger'[d].on] <= debugger'[d].attempt
                                     /\ debugger'[d].attempt < MaxDebug
    BY <1>1 DEF DepthHolds, DebugDepthHolds
<1>5. DebugDepthHolds'
    BY <1>1, <1>2, <1>3, <1>4 DEF DebugDepthHolds
<1>6. PICK above \in [Tasks -> Nat] :
         IsDepth("ci", above) /\ \A t \in Tasks : above[t] <= task[t].ci.attempt
    BY DEF DepthHolds, CIDepthHolds
<1>7. IsDepth("ci", above)'
    BY <1>6, StayingKeepsChains
<1>8. \A t \in Tasks : above[t] <= task'[t].ci.attempt
    BY <1>6 DEF Stays
<1>9. CIDepthHolds'
    BY <1>6, <1>7, <1>8 DEF CIDepthHolds
<1> QED
    BY <1>5, <1>9 DEF DepthHolds

\* The fixes of a task are the same rows.
LEMMA StayingKeepsFixes ==
    ASSUME \A v \in Tasks : Stays(v), NEW kind, NEW t
    PROVE  Fixes(kind, t)' = Fixes(kind, t)
BY DEF Stays, Fixes

\* Checks that failed are noted, and stay so.
SignaturesGrow ==
    checkReruns' = 0 =>
        \A v \in Tasks : /\ task[v].ci.signature \subseteq task'[v].ci.signature
                         /\ task'[v].ci.signature \subseteq In(v, "failed")'

\* The inspection of a task finds failed checks other than those answered last,
\* and attempts left.
ToldToFix ==
    /\ scan.at = "asking" /\ scan'.at = "goal" /\ scan'.on = scan.on /\ scan'.seen = scan.seen
    /\ scan.seen.attempt < maxCI
    /\ scan'.failed = In(scan.on, "failed")' /\ scan.seen.signature # scan'.failed
    /\ task' = task

\* A step that leaves the identity of the rows, the answered checks and the
\* number of fixes under way alone keeps the invariant, if what the coroutines
\* remember after it is remembered from before or just read.
LEMMA StillKeeps ==
    ASSUME IInv, TypeOK', ActorsHold', InProgressIsMonitored', maxCI' = maxCI,
           \A v \in Tasks : Stays(v), \A v \in Tasks : ~Present(v) => task'[v] = task[v],
           \/ \A v \in Tasks : task'[v].ci.signature = task[v].ci.signature
           \/ scan'.at = "idle" /\ SignaturesGrow,
           \A d \in Debuggers :
              debugger'[d].at = "goal" =>
                \/ debugger'[d] = debugger[d]
                \/ /\ debugger'[d].on \in Tasks
                   /\ debugger'[d].attempt = task[debugger'[d].on].debug.attempt
                   /\ debugger'[d].attempt < MaxDebug,
           \/ scan' = scan
           \/ scan'.at = "idle"
           \/ scan'.at = "asking" /\ scan'.seen = task[scan'.on].ci
           \/ ToldToFix,
           checkReruns' = 0 => /\ checkReruns = 0
                               /\ \A t \in Tasks : In(t, "failed") \subseteq In(t, "failed")'
    PROVE  IInv'
<1>1. RowsHold'
    BY StayingKeepsRows DEF IInv
<1>2. DepthHolds'
    BY StayingKeepsDepth DEF IInv
<1>3. \A kind, t : Fixes(kind, t)' = Fixes(kind, t)
    BY StayingKeepsFixes
<1>4. scan'.at # "idle" => scan'.on \in Tasks
    BY DEF ActorsHold
<1>5. CountHolds'
    <2>1. \A t \in Tasks : /\ task'[t].kind = task[t].kind
                           /\ task'[t].ci.attempt = task[t].ci.attempt
        BY DEF Stays
    <2>2. \A t \in Tasks :
             /\ Cardinality(Fixes("ci", t)') + (IF task'[t].kind = "ci" THEN 1 ELSE 0)
                  <= task'[t].ci.attempt
             /\ task'[t].ci.attempt <= maxCI'
        BY <1>3, <2>1 DEF IInv, CountHolds
    <2>3. /\ scan'.at # "idle" => scan'.seen.attempt = task'[scan'.on].ci.attempt
          /\ scan'.at = "goal" => scan'.seen.attempt < maxCI'
        BY <1>4, <2>1 DEF IInv, CountHolds, ToldToFix
    <2> QED
        BY <2>2, <2>3 DEF CountHolds
<1>6. \A u \in Tasks : task'[u].answers = task[u].answers
    BY DEF Stays
<1>7. \A kind, t : Fixes(kind, t) \subseteq Tasks
    BY DEF Fixes
<1>8. AnswersHold'
    <2> SUFFICES ASSUME checkReruns' = 0
                 PROVE  /\ \A t \in Tasks :
                             /\ task'[t].ci.signature \subseteq In(t, "failed")'
                             /\ \A u \in Fixes("ci", t)' :
                                  task'[u].answers \subseteq task'[t].ci.signature
                        /\ scan'.at # "idle" =>
                             scan'.seen.signature = task'[scan'.on].ci.signature
                        /\ scan'.at = "goal" =>
                             /\ scan'.failed \subseteq In(scan.on, "failed")'
                             /\ scan'.seen.signature \subseteq scan'.failed
                             /\ scan'.seen.signature # scan'.failed
                             /\ scan'.on = scan.on
        BY DEF AnswersHold, In
    <2>1. AnswersHold /\ checkReruns = 0 /\ (scan.at # "idle" => scan.on \in Tasks)
        BY DEF IInv, ActorsHold
    <2>2. ASSUME NEW t \in Tasks
          PROVE  /\ task'[t].ci.signature \subseteq In(t, "failed")'
                 /\ \A u \in Fixes("ci", t)' : task'[u].answers \subseteq task'[t].ci.signature
        <3>1. /\ task[t].ci.signature \subseteq task'[t].ci.signature
              /\ task'[t].ci.signature \subseteq In(t, "failed")'
            BY <2>1 DEF AnswersHold, SignaturesGrow
        <3> QED
            BY <1>3, <1>6, <1>7, <2>1, <3>1 DEF AnswersHold
    <2>3. scan'.at # "idle" => scan'.seen.signature = task'[scan'.on].ci.signature
        BY <1>4, <2>1 DEF AnswersHold, ToldToFix
    <2>4. ASSUME scan'.at = "goal"
          PROVE  /\ scan'.failed \subseteq In(scan.on, "failed")'
                 /\ scan'.seen.signature \subseteq scan'.failed
                 /\ scan'.seen.signature # scan'.failed
                 /\ scan'.on = scan.on
        <3>1. CASE scan' = scan
            BY <2>1, <2>4, <3>1 DEF AnswersHold
        <3>2. CASE ToldToFix
            <4>1. scan.seen.signature \subseteq In(scan.on, "failed")
                BY <2>1, <3>2 DEF AnswersHold, ToldToFix
            <4> QED
                BY <2>1, <3>2, <4>1 DEF ToldToFix
        <3> QED
            BY <2>4, <3>1, <3>2
    <2> QED
        BY <2>2, <2>3, <2>4
<1>9. SettledChecksAreAnsweredOnce'
    <2> SUFFICES ASSUME checkReruns' = 0, NEW t \in Tasks,
                        NEW u \in Fixes("ci", t)', NEW v \in Fixes("ci", t)', u # v
                 PROVE  task'[u].answers # task'[v].answers
        BY DEF SettledChecksAreAnsweredOnce
    <2> QED
        BY <1>3, <1>6, <1>7 DEF IInv, SettledChecksAreAnsweredOnce
<1>10. NamesHold'
    <2> SUFFICES ASSUME NEW t \in Tasks
                 PROVE  /\ task'[t].debug.fix # None =>
                             /\ task'[task'[t].debug.fix].kind = "debug"
                             /\ task'[task'[t].debug.fix].parent = t
                        /\ task'[t].ci.fix # None =>
                             /\ task'[task'[t].ci.fix].kind = "ci"
                             /\ task'[task'[t].ci.fix].parent = t
        BY DEF NamesHold
    <2>1. task[t].debug.fix \in Tasks \cup {None} /\ task[t].ci.fix \in Tasks \cup {None}
        BY Attempts DEF IInv
    <2> QED
        BY <2>1 DEF IInv, NamesHold, Stays
<1> QED
    BY <1>1, <1>2, <1>5, <1>8, <1>9, <1>10 DEF IInv

\* Followed fixes stay followed when no fix is under way that was not before.
LEMMA StayingKeepsProgress ==
    ASSUME IInv, \A v \in Tasks : Stays(v), monitors \subseteq monitors',
           restarts' = 0 => restarts = 0,
           \A v \in Tasks : /\ HasFix(task'[v].debug) => HasFix(task[v].debug)
                            /\ HasFix(task'[v].ci) => HasFix(task[v].ci)
    PROVE  InProgressIsMonitored'
BY DEF IInv, InProgressIsMonitored, Stays

\* Nothing changes for the rows.
LEMMA SameTasks ==
    ASSUME TypeOK, task' = task
    PROVE  /\ \A v \in Tasks : Stays(v) /\ task'[v].ci.signature = task[v].ci.signature
           /\ \A v \in Tasks : ~Present(v) => task'[v] = task[v]
           /\ \A v \in Tasks : /\ HasFix(task'[v].debug) => HasFix(task[v].debug)
                               /\ HasFix(task'[v].ci) => HasFix(task[v].ci)
BY DEF Stays

\* A run keeps the invariant: it changes statuses, and schedules maybe_debug.
LEMMA RunKeeps ==
    ASSUME IInv, NEW t \in Tasks, RunStep(t) \/ RunEnds(t) \/ Rerun(t)
    PROVE  IInv'
<1>1. TypeOK /\ ActorsHold /\ RowsHold
    BY DEF IInv
<1>2. CASE RunStep(t)
    <2>1. PICK s \in Statuses \ {"absent"} : Goes(t, s)
        BY <1>2, Names DEF RunStep
    <2>2. Present(t)
        BY <1>1, <1>2 DEF ActorsHold, RunStep
    <2>3. UNCHANGED <<check, running, debugger, scan, monitors, bounds>>
        BY <1>2 DEF RunStep
    <2>4. /\ task' \in [Tasks -> TaskRows]
          /\ \A v \in Tasks : /\ Stays(v) /\ task'[v].debug = task[v].debug
                              /\ task'[v].ci = task[v].ci
          /\ \A v \in Tasks \ {t} : task'[v] = task[v]
        BY <1>1, <2>1, <2>2, GoesKeeps
    <2>5. TypeOK'
        BY <1>1, <2>3, <2>4 DEF TypeOK, bounds
    <2>6. ActorsHold'
        BY <1>1, <2>3, <2>4 DEF ActorsHold, Present, Stays, TypeOK
    <2>7. InProgressIsMonitored'
        BY <2>3, <2>4, StayingKeepsProgress DEF bounds, HasFix
    <2>8. \A v \in Tasks : ~Present(v) => task'[v] = task[v]
        BY <2>2, <2>4
    <2>9. \A v \in Tasks : In(v, "failed")' = In(v, "failed")
        BY <2>3 DEF In
    <2>10. maxCI' = maxCI /\ checkReruns' = checkReruns
        BY <2>3 DEF bounds
    <2> QED
        BY <2>3, <2>4, <2>5, <2>6, <2>7, <2>8, <2>9, <2>10, StillKeeps
<1>3. CASE RunEnds(t)
    <2>1. /\ UNCHANGED <<task, check, scan, monitors, bounds>>
          /\ running' = running \ {t} /\ Present(t)
        BY <1>1, <1>3 DEF RunEnds, ActorsHold
    <2>2. /\ debugger' \in [Debuggers -> Debugging]
          /\ \A d \in Debuggers :
              debugger'[d].at = "goal" =>
                \/ debugger'[d] = debugger[d]
                \/ /\ debugger'[d].on = t
                   /\ debugger'[d].attempt = task[debugger'[d].on].debug.attempt
                   /\ debugger'[d].attempt < MaxDebug
        <3>1. CASE ~MayDebug(t) /\ UNCHANGED debugger
            BY <1>1, <3>1 DEF TypeOK
        <3>2. CASE /\ MayDebug(t)
                   /\ \E d \in Debuggers :
                        /\ debugger[d].at = "idle"
                        /\ debugger' = [debugger EXCEPT
                             ![d] = [at |-> "goal", on |-> t, attempt |-> task[t].debug.attempt]]
            <4>1. PICK d \in Debuggers : debugger' = [debugger EXCEPT
                             ![d] = [at |-> "goal", on |-> t, attempt |-> task[t].debug.attempt]]
                BY <3>2
            <4> DEFINE row == [at |-> "goal", on |-> t, attempt |-> task[t].debug.attempt]
            <4>2. row \in Debugging
                BY <1>1, Attempts DEF Debugging
            <4>3. row.on = t /\ row.attempt = task[t].debug.attempt
                OBVIOUS
            <4> HIDE DEF row
            <4>4. debugger' = [debugger EXCEPT ![d] = row] /\ debugger \in [Debuggers -> Debugging]
                BY <1>1, <4>1 DEF row, TypeOK
            <4>5. debugger'[d] = row /\ \A e \in Debuggers \ {d} : debugger'[e] = debugger[e]
                BY <4>4
            <4>6. task[t].debug.attempt < MaxDebug
                BY <3>2 DEF MayDebug
            <4> QED
                BY <4>2, <4>3, <4>4, <4>5, <4>6
        <3> QED
            BY <1>3, <3>1, <3>2 DEF RunEnds
    <2>3. TypeOK'
        BY <1>1, <2>1, <2>2 DEF TypeOK, bounds
    <2>4. ActorsHold'
        BY <1>1, <2>1, <2>2 DEF ActorsHold, Present
    <2>5. InProgressIsMonitored'
        BY <1>1, <2>1, SameTasks, StayingKeepsProgress DEF bounds
    <2>6. \A v \in Tasks : In(v, "failed")' = In(v, "failed")
        BY <2>1 DEF In
    <2>7. maxCI' = maxCI /\ checkReruns' = checkReruns
        BY <2>1 DEF bounds
    <2> QED
        BY <1>1, <2>1, <2>2, <2>3, <2>4, <2>5, <2>6, <2>7, SameTasks, StillKeeps
<1>4. CASE Rerun(t)
    <2>1. /\ UNCHANGED <<check, debugger, scan, monitors, checkReruns, restarts, maxCI>>
          /\ reruns' = reruns + 1 /\ running' = running \cup {t} /\ Present(t)
        BY <1>4 DEF Rerun, Present
    <2>2. /\ task' \in [Tasks -> TaskRows]
          /\ \A v \in Tasks : /\ Stays(v) /\ task'[v].debug = task[v].debug
                              /\ task'[v].ci = task[v].ci
          /\ \A v \in Tasks \ {t} : task'[v] = task[v]
        <3>1. CASE UNCHANGED task
            BY <1>1, <3>1 DEF TypeOK, Stays
        <3>2. CASE Goes(t, "working")
            BY <1>1, <2>1, <3>2, GoesKeeps, Names
        <3> QED
            BY <1>4, <3>1, <3>2 DEF Rerun
    <2>3. TypeOK'
        BY <1>1, <2>1, <2>2 DEF TypeOK
    <2>4. ActorsHold'
        <3>1. \A v \in Tasks : (Present(v) => Present(v)') /\ task'[v].kind = task[v].kind
            BY <2>2 DEF Present, Stays
        <3>2. monitors \subseteq Tasks
            BY <1>1 DEF TypeOK
        <3>3. \A v \in running' : Present(v)'
            <4>1. running \subseteq Tasks /\ \A v \in running : Present(v)
                BY <1>1 DEF TypeOK, ActorsHold
            <4> QED
                BY <2>1, <3>1, <4>1
        <3>4. (\A d \in Debuggers : debugger[d].at = "goal" => debugger[d].on \in Tasks /\ Present(debugger[d].on))'
            <4>1. SUFFICES ASSUME NEW d \in Debuggers, debugger[d].at = "goal"
                           PROVE  debugger[d].on \in Tasks /\ task'[debugger[d].on].status # "absent"
                BY <2>1 DEF Present
            <4>2. debugger[d].on \in Tasks /\ Present(debugger[d].on)
                BY <1>1, <4>1 DEF ActorsHold
            <4> QED
                BY <3>1, <4>2 DEF Present
        <3>5. (scan.at # "idle" => scan.on \in Tasks /\ Present(scan.on))'
            <4>1. SUFFICES ASSUME scan.at # "idle"
                           PROVE  scan.on \in Tasks /\ task'[scan.on].status # "absent"
                BY <2>1 DEF Present
            <4>2. scan.on \in Tasks /\ Present(scan.on)
                BY <1>1, <4>1 DEF ActorsHold
            <4> QED
                BY <3>1, <4>2 DEF Present
        <3>6. \A u \in monitors' : Present(u)' /\ task'[u].kind \in {"debug", "ci"}
            BY <1>1, <2>1, <3>1, <3>2 DEF ActorsHold
        <3> QED
            BY <3>3, <3>4, <3>5, <3>6 DEF ActorsHold
    <2>5. InProgressIsMonitored'
        BY <2>1, <2>2, StayingKeepsProgress DEF HasFix
    <2>6. \A v \in Tasks : ~Present(v) => task'[v] = task[v]
        BY <2>1, <2>2
    <2>7. \A v \in Tasks : In(v, "failed")' = In(v, "failed")
        BY <2>1 DEF In
    <2> QED
        BY <2>1, <2>2, <2>3, <2>4, <2>5, <2>6, <2>7, StillKeeps
<1> QED
    BY <1>2, <1>3, <1>4

\* So do GitHub's checks: while none runs again, those that failed stay failed.
LEMMA ChecksKeep ==
    ASSUME IInv, NEW t \in Tasks, CheckEnds(t) \/ CheckRunsAgain(t)
    PROVE  IInv'
<1>1. TypeOK /\ ActorsHold
    BY DEF IInv
<1>2. PICK c \in Checks, s \in CheckStates : check' = [check EXCEPT ![t][c] = s]
    BY Names DEF CheckEnds, CheckRunsAgain
<1>3. check \in [Tasks -> [Checks -> CheckStates]]
    BY <1>1 DEF TypeOK
<1>4. check' \in [Tasks -> [Checks -> CheckStates]]
    BY <1>2, <1>3
<1>5. /\ UNCHANGED <<task, running, debugger, scan, monitors, reruns, restarts, maxCI>>
      /\ checkReruns' \in {checkReruns, checkReruns + 1} /\ checkReruns' \in Nat
    BY <1>1 DEF CheckEnds, CheckRunsAgain, bounds, TypeOK
<1>6. TypeOK'
    BY <1>1, <1>4, <1>5 DEF TypeOK
<1>7. ActorsHold'
    BY <1>1, <1>5 DEF ActorsHold, Present
<1>8. InProgressIsMonitored'
    BY <1>1, <1>5, SameTasks, StayingKeepsProgress
<1>9. ASSUME checkReruns' = 0
      PROVE  checkReruns = 0 /\ \A v \in Tasks : In(v, "failed") \subseteq In(v, "failed")'
    <2>1. checkReruns = 0 /\ ~CheckRunsAgain(t)
        BY <1>1, <1>5, <1>9 DEF CheckRunsAgain, TypeOK
    <2>2. PICK e \in Checks, x \in {"passed", "failed"} :
             check[t][e] = "pending" /\ check' = [check EXCEPT ![t][e] = x]
        BY <2>1 DEF CheckEnds
    <2>3. \A v \in Tasks, f \in Checks : check[v][f] = "failed" => check'[v][f] = "failed"
        BY <1>3, <2>2
    <2> QED
        BY <2>1, <2>3 DEF In
<1> QED
    BY <1>1, <1>5, <1>6, <1>7, <1>8, <1>9, SameTasks, StillKeeps

\* So does the begin of an inspection, which reads the metadata.
LEMMA BeginKeeps ==
    ASSUME IInv, NEW t \in Tasks, BeginInspection(t)
    PROVE  IInv'
<1>1. TypeOK /\ ActorsHold
    BY DEF IInv
<1>2. /\ scan' = [at |-> "asking", on |-> t, seen |-> task[t].ci, failed |-> {}]
      /\ UNCHANGED <<task, check, running, debugger, monitors, bounds>>
      /\ Present(t)
    BY DEF BeginInspection, Present
<1>3. scan' \in Scan
    BY <1>1, <1>2, Attempts DEF Scan
<1>4. TypeOK'
    BY <1>1, <1>2, <1>3 DEF TypeOK, bounds
<1>5. scan'.at = "asking" /\ scan'.on = t /\ scan'.seen = task[t].ci
    BY <1>2
<1>6. ActorsHold'
    BY <1>1, <1>2, <1>5 DEF ActorsHold, Present
<1>7. InProgressIsMonitored'
    BY <1>1, <1>2, SameTasks, StayingKeepsProgress DEF bounds
<1>8. maxCI' = maxCI /\ checkReruns' = checkReruns /\ check' = check
    BY <1>2 DEF bounds
<1>9. \A v \in Tasks : In(v, "failed")' = In(v, "failed")
    BY <1>8 DEF In
<1> QED
    BY <1>1, <1>2, <1>4, <1>5, <1>6, <1>7, <1>8, <1>9, SameTasks, StillKeeps

\* So does an inspection that ends with a note, and no fix.
LEMMA NoteKeeps ==
    ASSUME IInv, InspectionFails \/ ChecksGreenOrPending
    PROVE  IInv'
<1>1. TypeOK /\ ActorsHold
    BY DEF IInv
<1> DEFINE t == scan.on
<1>2. /\ t \in Tasks /\ Present(t) /\ scan' = NoScan
      /\ task' = [task EXCEPT ![t].ci.status = "observed"]
      /\ UNCHANGED <<check, running, debugger, monitors, bounds>>
    BY <1>1 DEF InspectionFails, ChecksGreenOrPending, WritesCI, ActorsHold
<1> HIDE DEF t
<1>3. /\ task' \in [Tasks -> TaskRows]
      /\ \A v \in Tasks : Stays(v) /\ task'[v].debug = task[v].debug
      /\ \A v \in Tasks \ {t} : task'[v] = task[v]
      /\ task'[t].ci.status = "observed"
      /\ task'[t].ci.signature = task[t].ci.signature
    BY <1>1, <1>2, WriteKeeps
<1>4. TypeOK'
    BY <1>1, <1>2, <1>3, EmptyRows DEF TypeOK, bounds
<1>5. ActorsHold'
    BY <1>1, <1>2, <1>3 DEF ActorsHold, Present, Stays, TypeOK, NoScan
<1>6. InProgressIsMonitored'
    BY <1>2, <1>3, StayingKeepsProgress DEF bounds, HasFix
<1>7. maxCI' = maxCI /\ checkReruns' = checkReruns /\ scan'.at = "idle"
    BY <1>2 DEF bounds, NoScan
<1>8. \A v \in Tasks : In(v, "failed")' = In(v, "failed")
    BY <1>2 DEF In
<1>9. \A v \in Tasks : /\ ~Present(v) => task'[v] = task[v]
                       /\ task'[v].ci.signature = task[v].ci.signature
    BY <1>2, <1>3
<1> QED
    BY <1>2, <1>3, <1>4, <1>5, <1>6, <1>7, <1>8, <1>9, StillKeeps

\* So does a monitor that ends: only the parent that named this fix was followed
\* by it.
LEMMA ReportKeepsAll ==
    ASSUME IInv, NEW u \in Tasks, Reports(u)
    PROVE  IInv'
<1>1. TypeOK /\ ActorsHold /\ RowsHold /\ NamesHold
    BY DEF IInv
<1>2. /\ u \in monitors /\ monitors' = monitors \ {u}
      /\ UNCHANGED <<check, running, debugger, scan, bounds>>
    BY DEF Reports
<1>3. task[u].kind \in {"debug", "ci"} /\ task[u].parent \in Tasks
    BY <1>1, <1>2, Attempts DEF ActorsHold, RowsHold, ParentsAreOlder
<1>4. /\ task' \in [Tasks -> TaskRows]
      /\ \A v \in Tasks : /\ Stays(v) /\ task'[v].status = task[v].status
                          /\ task'[v].ci.signature = task[v].ci.signature
                          /\ HasFix(task'[v].debug) => HasFix(task[v].debug)
                          /\ HasFix(task'[v].ci) => HasFix(task[v].ci)
      /\ \A v \in Tasks \ {task[u].parent} : task'[v] = task[v]
      /\ task[u].kind = "debug" => ~HasFix(task'[task[u].parent].debug)
      /\ task[u].kind # "debug" => ~HasFix(task'[task[u].parent].ci)
    BY <1>1, <1>3, ReportKeeps
<1>5. TypeOK'
    BY <1>1, <1>2, <1>4 DEF TypeOK, bounds
<1>6. ActorsHold'
    BY <1>1, <1>2, <1>4 DEF ActorsHold, Present, Stays, TypeOK
<1>7. InProgressIsMonitored'
    <2> SUFFICES ASSUME restarts' = 0, NEW t \in Tasks
                 PROVE  /\ HasFix(task'[t].debug) => task'[t].debug.fix \in monitors'
                        /\ HasFix(task'[t].ci) => task'[t].ci.fix \in monitors'
        BY DEF InProgressIsMonitored
    <2>1. restarts = 0
        BY <1>2 DEF bounds
    <2>2. ASSUME HasFix(task'[t].debug)
          PROVE  task'[t].debug.fix \in monitors'
        <3>1. HasFix(task[t].debug) /\ task'[t].debug.fix = task[t].debug.fix
            BY <1>4, <2>2 DEF Stays
        <3>2. task[t].debug.fix \in monitors
            BY <2>1, <3>1 DEF IInv, InProgressIsMonitored
        <3>3. task[t].debug.fix # u
            BY <1>1, <1>4, <2>2, <3>1 DEF NamesHold, HasFix
        <3> QED
            BY <1>2, <3>1, <3>2, <3>3
    <2>3. ASSUME HasFix(task'[t].ci)
          PROVE  task'[t].ci.fix \in monitors'
        <3>1. HasFix(task[t].ci) /\ task'[t].ci.fix = task[t].ci.fix
            BY <1>4, <2>3 DEF Stays
        <3>2. task[t].ci.fix \in monitors
            BY <2>1, <3>1 DEF IInv, InProgressIsMonitored
        <3>3. task[t].ci.fix # u
            BY <1>1, <1>4, <2>3, <3>1 DEF NamesHold, HasFix
        <3> QED
            BY <1>2, <3>1, <3>2, <3>3
    <2> QED
        BY <2>2, <2>3
<1>8. \A v \in Tasks : ~Present(v) => task'[v] = task[v]
    <2>1. Present(u) /\ task[u].parent < u
        BY <1>1, <1>2 DEF ActorsHold, RowsHold, ParentsAreOlder
    <2>2. Present(task[u].parent)
        BY <1>1, <1>3, <2>1 DEF RowsHold, RowsInOrder
    <2> QED
        BY <1>4, <2>2
<1>9. maxCI' = maxCI /\ checkReruns' = checkReruns
    BY <1>2 DEF bounds
<1>10. \A v \in Tasks : In(v, "failed")' = In(v, "failed")
    BY <1>2 DEF In
<1> QED
    BY <1>2, <1>4, <1>5, <1>6, <1>7, <1>8, <1>9, <1>10, StillKeeps

\* So does a restart, which forgets all that was remembered.
LEMMA RestartKeeps ==
    ASSUME IInv, Restart
    PROVE  IInv'
<1>1. TypeOK /\ ActorsHold
    BY DEF IInv
<1>2. /\ restarts' = restarts + 1 /\ running' = {} /\ monitors' = {}
      /\ debugger' = [d \in Debuggers |-> Idle] /\ scan' = NoScan
      /\ UNCHANGED <<task, check, reruns, checkReruns, maxCI>>
    BY DEF Restart
<1>3. TypeOK'
    BY <1>1, <1>2, EmptyRows DEF TypeOK
<1>4. scan'.at = "idle" /\ \A d \in Debuggers : debugger'[d].at = "idle"
    BY <1>2 DEF NoScan, Idle
<1>5. ActorsHold'
    BY <1>2, <1>4 DEF ActorsHold
<1>6. InProgressIsMonitored'
    BY <1>1, <1>2 DEF InProgressIsMonitored, TypeOK
<1>7. \A v \in Tasks : In(v, "failed")' = In(v, "failed")
    BY <1>2 DEF In
<1> QED
    BY <1>1, <1>2, <1>3, <1>4, <1>5, <1>6, <1>7, SameTasks, StillKeeps

\* So does the verdict on failed checks: nothing, a note that the attempts are
\* used up, or the decision to fix them.
LEMMA VerdictKeeps ==
    ASSUME IInv, ChecksFailed
    PROVE  IInv'
<1>1. TypeOK /\ ActorsHold
    BY DEF IInv
<1> DEFINE t == scan.on
           failed == In(scan.on, "failed")
<1>2. /\ scan.at = "asking" /\ t \in Tasks /\ Present(t)
      /\ UNCHANGED <<check, running, debugger, monitors, bounds>>
    BY <1>1 DEF ChecksFailed, ActorsHold
<1>3. failed \subseteq Checks
    BY DEF In
<1>4. maxCI' = maxCI /\ checkReruns' = checkReruns /\ restarts' = restarts
    BY <1>2 DEF bounds
<1>5. \A v \in Tasks : In(v, "failed")' = In(v, "failed")
    BY <1>2 DEF In
<1>6. CASE scan' = NoScan /\ UNCHANGED task
    <2>1. TypeOK'
        BY <1>1, <1>2, <1>6, EmptyRows DEF TypeOK, bounds
    <2>2. scan'.at = "idle"
        BY <1>6 DEF NoScan
    <2>3. ActorsHold'
        BY <1>1, <1>2, <1>6, <2>2 DEF ActorsHold, Present
    <2>4. InProgressIsMonitored'
        BY <1>1, <1>2, <1>4, <1>6, SameTasks, StayingKeepsProgress
    <2> QED
        BY <1>1, <1>2, <1>4, <1>5, <1>6, <2>1, <2>2, <2>3, <2>4, SameTasks, StillKeeps
<1>7. CASE /\ task' = [task EXCEPT ![t].ci.status = "observed", ![t].ci.signature = failed]
           /\ scan' = NoScan
    <2> HIDE DEF t, failed
    <2>1. /\ task' \in [Tasks -> TaskRows]
          /\ \A v \in Tasks : Stays(v) /\ task'[v].debug = task[v].debug
          /\ \A v \in Tasks \ {t} : task'[v] = task[v]
          /\ task'[t].ci.status = "observed"
          /\ task'[t].ci.signature \in {task[t].ci.signature, failed}
        BY <1>1, <1>2, <1>3, <1>7, WriteKeeps
    <2>2. scan'.at = "idle"
        BY <1>7 DEF NoScan
    <2>3. TypeOK'
        BY <1>1, <1>2, <1>7, <2>1, EmptyRows DEF TypeOK, bounds
    <2>4. ActorsHold'
        BY <1>1, <1>2, <1>7, <2>1, <2>2 DEF ActorsHold, Present, Stays, TypeOK
    <2>5. InProgressIsMonitored'
        BY <1>2, <1>4, <2>1, StayingKeepsProgress DEF HasFix
    <2>6. SignaturesGrow
        <3> SUFFICES ASSUME checkReruns' = 0, NEW v \in Tasks
                     PROVE  /\ task[v].ci.signature \subseteq task'[v].ci.signature
                            /\ task'[v].ci.signature \subseteq In(v, "failed")
            BY <1>5 DEF SignaturesGrow
        <3>1. task[v].ci.signature \subseteq In(v, "failed")
            BY <1>4 DEF IInv, AnswersHold
        <3>2. v = t => task'[v].ci.signature \in {task[v].ci.signature, In(v, "failed")}
            BY <2>1 DEF t, failed
        <3>3. v # t => task'[v].ci.signature = task[v].ci.signature
            BY <2>1
        <3> QED
            BY <3>1, <3>2, <3>3
    <2>7. \A v \in Tasks : ~Present(v) => task'[v] = task[v]
        BY <1>2, <2>1
    <2> QED
        BY <1>2, <1>4, <1>5, <2>1, <2>2, <2>3, <2>4, <2>5, <2>6, <2>7, StillKeeps
<1>8. CASE /\ ~(scan.seen.attempt >= maxCI) /\ failed # scan.seen.signature
           /\ scan' = [scan EXCEPT !.at = "goal", !.failed = failed] /\ UNCHANGED task
    <2>1. scan \in Scan /\ maxCI \in Nat /\ scan.seen.attempt \in Nat
        BY <1>1, Attempts
    <2>2. /\ scan'.at = "goal" /\ scan'.on = scan.on /\ scan'.seen = scan.seen
          /\ scan'.failed = failed /\ scan' \in Scan
        <3> HIDE DEF failed
        <3> QED
            BY <1>3, <1>8, <2>1 DEF Scan
    <2>3. failed = In(scan.on, "failed")'
        BY <1>2, <2>2 DEF In
    <2>4. ToldToFix
        BY <1>2, <1>8, <2>1, <2>2, <2>3 DEF ToldToFix, In
    <2>5. TypeOK'
        BY <1>1, <1>2, <1>8, <2>2 DEF TypeOK, bounds
    <2>6. ActorsHold'
        BY <1>1, <1>2, <1>8, <2>2 DEF ActorsHold, Present
    <2>7. InProgressIsMonitored'
        BY <1>1, <1>2, <1>4, <1>8, SameTasks, StayingKeepsProgress
    <2> QED
        BY <1>1, <1>2, <1>4, <1>5, <1>8, <2>4, <2>5, <2>6, <2>7, SameTasks, StillKeeps
<1> QED
    BY <1>6, <1>7, <1>8 DEF ChecksFailed, WritesCI

-------------------------------------------------------------------------------
(* Steps that launch a fix *)

\* A new row has no fixes yet, and the fixes of no task but its parent change.
LEMMA FixesOf ==
    ASSUME NEW t \in Tasks, NEW u \in Tasks, u # t,
           NEW kind, \A v \in Tasks : task[v].parent # u,
           task'[u].parent = t, task[u].kind # kind,
           \A v \in Tasks \ {u} : task'[v].kind = task[v].kind /\ task'[v].parent = task[v].parent
    PROVE  /\ Fixes(kind, u)' = {}
           /\ \A v \in Tasks \ {t, u} : Fixes(kind, v)' = Fixes(kind, v)
           /\ task'[u].kind = kind => Fixes(kind, t)' = Fixes(kind, t) \cup {u}
           /\ task'[u].kind # kind => Fixes(kind, t)' = Fixes(kind, t)
<1>1. \A v, w \in Tasks : w # u => (w \in Fixes(kind, v)' <=> w \in Fixes(kind, v))
    BY DEF Fixes
<1>2. \A v \in Tasks : /\ Fixes(kind, v)' \subseteq Tasks /\ Fixes(kind, v) \subseteq Tasks
                       /\ u \notin Fixes(kind, v)
                       /\ u \in Fixes(kind, v)' <=> v = t /\ task'[u].kind = kind
    BY DEF Fixes
<1>3. Fixes(kind, u) = {}
    BY DEF Fixes
<1>4. \A v \in Tasks : \A w \in Fixes(kind, v)' : w \in Fixes(kind, v) \/ (w = u /\ v = t)
    BY <1>1, <1>2
<1>5. Fixes(kind, u)' = {}
    BY <1>3, <1>4
<1>6. ASSUME NEW v \in Tasks \ {t, u}
      PROVE  Fixes(kind, v)' = Fixes(kind, v)
    <2>1. \A w \in Fixes(kind, v) : w \in Fixes(kind, v)'
        BY <1>1, <1>2
    <2> QED
        BY <1>4, <2>1
<1>7. \A w \in Fixes(kind, t) : w \in Fixes(kind, t)'
    BY <1>1, <1>2
<1>8. task'[u].kind = kind => Fixes(kind, t)' = Fixes(kind, t) \cup {u}
    BY <1>2, <1>4, <1>7
<1>9. task'[u].kind # kind => Fixes(kind, t)' = Fixes(kind, t)
    BY <1>2, <1>4, <1>7
<1> QED
    BY <1>5, <1>6, <1>8, <1>9

\* There are finitely many fixes.
LEMMA FixesAreFinite == \A kind, t : IsFiniteSet(Fixes(kind, t)) /\ Cardinality(Fixes(kind, t)) \in Nat
<1>1. IsFiniteSet(Tasks)
    BY LimitsAssumption, FS_Interval DEF Tasks
<1>2. \A kind, t : Fixes(kind, t) \subseteq Tasks
    BY DEF Fixes
<1> QED
    BY <1>1, <1>2, FS_Subset, FS_CardinalityType

\* Everything that a launch, of either service, does to the rows.
Launched(t, u, kind) ==
    /\ ~Present(u) /\ u # t /\ t < u /\ Present(t)
    /\ \A v \in Tasks : task[v].parent # u
    /\ \A v \in Tasks \ {t, u} : task'[v] = task[v]
    /\ \A v \in Tasks : Present(v) => Present(v)'
    /\ task'[u].kind = kind /\ task'[u].parent = t /\ task'[u].status = "new"
    /\ task'[t].kind = task[t].kind /\ task'[t].parent = task[t].parent
    /\ task'[t].answers = task[t].answers /\ task'[t].status = task[t].status
    /\ monitors' = monitors \cup {u}
    /\ UNCHANGED <<check, bounds>>

\* Rows, order, names and monitors after a launch.
LEMMA LaunchKeepsNames ==
    ASSUME IInv, TypeOK', NEW t \in Tasks, NEW u \in Tasks, NEW kind \in {"debug", "ci"},
           Launched(t, u, kind),
           task'[u].debug.fix = None, task'[u].ci.fix = None,
           kind = "debug" => task'[t].ci = task[t].ci /\ task'[t].debug.fix = u,
           kind = "ci" => task'[t].debug = task[t].debug /\ task'[t].ci.fix = u
    PROVE  NamesHold' /\ InProgressIsMonitored'
<1>1. NamesHold /\ InProgressIsMonitored /\ TypeOK /\ RowsHold
    BY DEF IInv
<1>2. ASSUME NEW v \in Tasks, task[v].debug.fix # None
      PROVE  task[v].debug.fix \in Tasks \ {u}
    <2>1. task[v].debug.fix \in Tasks /\ task[task[v].debug.fix].kind = "debug"
        BY <1>1, <1>2, Attempts DEF NamesHold
    <2>2. task[u].kind = "root"
        BY <1>1 DEF RowsHold, AbsentIsBlank, Launched, NoTask
    <2> QED
        BY <2>1, <2>2
<1>3. ASSUME NEW v \in Tasks, task[v].ci.fix # None
      PROVE  task[v].ci.fix \in Tasks \ {u}
    <2>1. task[v].ci.fix \in Tasks /\ task[task[v].ci.fix].kind = "ci"
        BY <1>1, <1>3, Attempts DEF NamesHold
    <2>2. task[u].kind = "root"
        BY <1>1 DEF RowsHold, AbsentIsBlank, Launched, NoTask
    <2> QED
        BY <2>1, <2>2
<1>4. \A v \in Tasks \ {u} : task'[v].kind = task[v].kind /\ task'[v].parent = task[v].parent
    BY DEF Launched
<1>5. \A v \in Tasks \ {t, u} : task'[v].debug = task[v].debug /\ task'[v].ci = task[v].ci
    BY DEF Launched
<1>6. ASSUME NEW v \in Tasks
      PROVE  /\ task'[v].debug.fix # None =>
                  /\ task'[task'[v].debug.fix].kind = "debug"
                  /\ task'[task'[v].debug.fix].parent = v
                  /\ HasFix(task'[v].debug) /\ restarts' = 0 => task'[v].debug.fix \in monitors'
             /\ task'[v].ci.fix # None =>
                  /\ task'[task'[v].ci.fix].kind = "ci"
                  /\ task'[task'[v].ci.fix].parent = v
                  /\ HasFix(task'[v].ci) /\ restarts' = 0 => task'[v].ci.fix \in monitors'
    <2>1. restarts' = restarts /\ monitors' = monitors \cup {u}
        BY DEF Launched, bounds
    <2>2. CASE task'[v].debug = task[v].debug /\ task'[v].ci = task[v].ci
        BY <1>1, <1>2, <1>3, <1>4, <2>1, <2>2 DEF NamesHold, InProgressIsMonitored
    <2>3. CASE v = u
        BY <2>3
    <2>4. CASE v = t /\ kind = "debug"
        <3>1. /\ task'[v].ci = task[v].ci /\ task'[v].debug.fix = u
              /\ task'[u].kind = "debug" /\ task'[u].parent = v
            BY <2>4 DEF Launched
        <3> QED
            BY <1>1, <1>3, <1>4, <2>1, <3>1 DEF NamesHold, InProgressIsMonitored
    <2>5. CASE v = t /\ kind = "ci"
        <3>1. /\ task'[v].debug = task[v].debug /\ task'[v].ci.fix = u
              /\ task'[u].kind = "ci" /\ task'[u].parent = v
            BY <2>5 DEF Launched
        <3> QED
            BY <1>1, <1>2, <1>4, <2>1, <3>1 DEF NamesHold, InProgressIsMonitored
    <2> QED
        BY <1>5, <2>2, <2>3, <2>4, <2>5
<1> QED
    BY <1>6 DEF NamesHold, InProgressIsMonitored, HasFix

\* The chain of its kind above the new fix is one longer than that above its parent,
\* and a chain of the other kind starts anew.
LEMMA LaunchAddsToChains ==
    ASSUME TypeOK, RowsHold, NEW t \in Tasks, NEW u \in Tasks, NEW kind, NEW of,
           Launched(t, u, kind), NEW depth \in [Tasks -> Nat], IsDepth(of, depth)
    PROVE  \E new \in [Tasks -> Nat] :
              /\ IsDepth(of, new)'
              /\ new[u] = IF kind = of THEN depth[t] + 1 ELSE 0
              /\ \A v \in Tasks \ {u} : new[v] = depth[v]
<1> DEFINE new == [depth EXCEPT ![u] = IF kind = of THEN depth[t] + 1 ELSE 0]
<1>1. /\ new \in [Tasks -> Nat] /\ new[u] = IF kind = of THEN depth[t] + 1 ELSE 0
      /\ \A v \in Tasks \ {u} : new[v] = depth[v]
    OBVIOUS
<1> HIDE DEF new
<1>2. ASSUME NEW v \in Tasks
      PROVE  new[v] = IF task'[v].kind # of \/ task'[v].parent = None THEN 0
                      ELSE 1 + new[task'[v].parent]
    <2>1. CASE v = u
        <3>1. task'[u].kind = kind /\ task'[u].parent = t /\ t # u /\ t # None
            BY LimitsAssumption DEF Launched, Tasks, None
        <3>2. new[t] = depth[t] /\ depth[t] \in Nat
            BY <1>1, <3>1
        <3> QED
            BY <1>1, <2>1, <3>1, <3>2
    <2>2. CASE v # u
        <3>1. task'[v].kind = task[v].kind /\ task'[v].parent = task[v].parent
            BY <2>2 DEF Launched
        <3>2. task[v].parent # u /\ task[v].parent \in Tasks \cup {None}
            BY Attempts DEF Launched
        <3>3. depth[v] = IF task[v].kind # of \/ task[v].parent = None THEN 0
                         ELSE 1 + depth[task[v].parent]
            BY DEF IsDepth
        <3> QED
            BY <1>1, <2>2, <3>1, <3>2, <3>3
    <2> QED
        BY <2>1, <2>2
<1>3. IsDepth(of, new)'
    BY <1>1, <1>2 DEF IsDepth
<1> QED
    BY <1>1, <1>3

\* The attempts that are stored with a fix of auto-debug count its chain.
LEMMA LaunchKeepsDebugDepth ==
    ASSUME IInv, TypeOK', NEW t \in Tasks, NEW u \in Tasks, NEW kind \in {"debug", "ci"},
           Launched(t, u, kind),
           kind = "ci" => task'[t].debug = task[t].debug /\ debugger' = debugger,
           kind = "debug" =>
              \E d \in Debuggers :
                /\ debugger[d].at = "goal" /\ debugger[d].on = t
                /\ debugger' = [debugger EXCEPT ![d] = Idle]
                /\ task'[u].debug.attempt = debugger[d].attempt + 1
                /\ task'[t].debug.attempt = debugger[d].attempt + 1,
           kind = "ci" => task'[u].debug.attempt = 0
    PROVE  DebugDepthHolds'
<1>1. TypeOK /\ RowsHold /\ DebugDepthHolds
    BY DEF IInv, DepthHolds
<1>2. PICK depth \in [Tasks -> Nat] :
         /\ IsDepth("debug", depth)
         /\ \A v \in Tasks : depth[v] <= task[v].debug.attempt
         /\ \A d \in Debuggers :
              debugger[d].at = "goal" => depth[debugger[d].on] <= debugger[d].attempt
    BY <1>1 DEF DebugDepthHolds
<1>3. PICK new \in [Tasks -> Nat] :
         /\ IsDepth("debug", new)'
         /\ new[u] = IF kind = "debug" THEN depth[t] + 1 ELSE 0
         /\ \A v \in Tasks \ {u} : new[v] = depth[v]
    BY <1>1, <1>2, LaunchAddsToChains
<1>5. \A v \in Tasks : depth[v] \in Nat /\ task[v].debug.attempt \in Nat
    BY <1>1, <1>2, Attempts
<1>6. \A d \in Debuggers : debugger[d].attempt \in Nat
    BY <1>1, Attempts
<1>7. MaxDebug \in Nat
    BY LimitsAssumption
<1>8. \A d \in Debuggers : debugger'[d].at = "goal" =>
         /\ debugger'[d] = debugger[d] /\ new[debugger[d].on] <= debugger[d].attempt
         /\ debugger[d].attempt < MaxDebug
    <2> SUFFICES ASSUME NEW e \in Debuggers, debugger'[e].at = "goal"
                 PROVE  /\ debugger'[e] = debugger[e]
                        /\ new[debugger[e].on] <= debugger[e].attempt
                        /\ debugger[e].attempt < MaxDebug
        OBVIOUS
    <2>1. debugger'[e] = debugger[e]
        BY <1>1 DEF TypeOK, Idle
    <2>2. debugger[e].on \in Tasks \ {u}
        BY <2>1 DEF IInv, ActorsHold, Launched
    <2>3. debugger[e].attempt < MaxDebug
        BY <1>1, <2>1 DEF DebugDepthHolds
    <2> QED
        BY <1>2, <1>3, <2>1, <2>2, <2>3
<1>9. ASSUME NEW v \in Tasks
      PROVE  new[v] <= task'[v].debug.attempt /\ task'[v].debug.attempt <= MaxDebug
    <2>1. CASE kind = "ci"
        <3>1. CASE v = u
            BY <1>3, <1>7, <2>1, <3>1
        <3>2. CASE v # u
            <4>1. task'[v].debug = task[v].debug
                BY <2>1, <3>2 DEF Launched
            <4> QED
                BY <1>1, <1>2, <1>3, <3>2, <4>1 DEF DebugDepthHolds
        <3> QED
            BY <3>1, <3>2
    <2>2. CASE kind = "debug"
        <3>1. PICK d \in Debuggers :
                 /\ debugger[d].at = "goal" /\ debugger[d].on = t
                 /\ task'[u].debug.attempt = debugger[d].attempt + 1
                 /\ task'[t].debug.attempt = debugger[d].attempt + 1
            BY <2>2
        <3>2. depth[t] <= debugger[d].attempt /\ debugger[d].attempt < MaxDebug
            BY <1>1, <1>2, <3>1 DEF DebugDepthHolds
        <3>3. u # t
            BY DEF Launched
        <3>4. CASE v = u
            BY <1>3, <1>5, <1>6, <1>7, <2>2, <3>1, <3>2, <3>4
        <3>5. CASE v = t
            BY <1>3, <1>5, <1>6, <1>7, <3>1, <3>2, <3>3, <3>5
        <3>6. CASE v \notin {t, u}
            <4>1. task'[v] = task[v]
                BY <3>6 DEF Launched
            <4> QED
                BY <1>1, <1>2, <1>3, <3>6, <4>1 DEF DebugDepthHolds
        <3> QED
            BY <3>4, <3>5, <3>6
    <2> QED
        BY <2>1, <2>2
<1>10. \A d \in Debuggers : debugger'[d].at = "goal" =>
          debugger'[d].attempt < MaxDebug /\ new[debugger'[d].on] <= debugger'[d].attempt
    BY <1>8
<1> QED
    BY <1>3, <1>9, <1>10 DEF DebugDepthHolds

\* So do those that are stored with a fix of the auto-fix loop.
LEMMA LaunchKeepsCIDepth ==
    ASSUME IInv, TypeOK', NEW t \in Tasks, NEW u \in Tasks, NEW kind \in {"debug", "ci"},
           Launched(t, u, kind),
           kind = "debug" => task'[t].ci = task[t].ci,
           kind = "ci" => /\ task'[t].ci.attempt = task[t].ci.attempt + 1
                          /\ task'[u].ci.attempt = task[t].ci.attempt + 1
    PROVE  CIDepthHolds'
<1>1. TypeOK /\ RowsHold
    BY DEF IInv
<1>2. PICK depth \in [Tasks -> Nat] :
         IsDepth("ci", depth) /\ \A v \in Tasks : depth[v] <= task[v].ci.attempt
    BY DEF IInv, DepthHolds, CIDepthHolds
<1>3. PICK new \in [Tasks -> Nat] :
         /\ IsDepth("ci", new)'
         /\ new[u] = IF kind = "ci" THEN depth[t] + 1 ELSE 0
         /\ \A v \in Tasks \ {u} : new[v] = depth[v]
    BY <1>1, <1>2, LaunchAddsToChains
<1>4. \A v \in Tasks : /\ depth[v] \in Nat /\ task[v].ci.attempt \in Nat
                       /\ task'[v].ci.attempt \in Nat
    <2>1. \A v \in Tasks : task'[v].ci.attempt \in Nat
        BY DEF TypeOK, TaskRows, CI
    <2> QED
        BY <1>1, <1>2, <2>1, Attempts
<1>5. ASSUME NEW v \in Tasks
      PROVE  new[v] <= task'[v].ci.attempt
    <2>1. CASE v = u
        BY <1>2, <1>3, <1>4, <2>1
    <2>2. CASE v = t /\ v # u
        BY <1>2, <1>3, <1>4, <2>2
    <2>3. CASE v \notin {t, u}
        <3>1. task'[v] = task[v]
            BY <2>3 DEF Launched
        <3> QED
            BY <1>2, <1>3, <2>3, <3>1
    <2> QED
        BY <2>1, <2>2, <2>3
<1> QED
    BY <1>3, <1>5 DEF CIDepthHolds

\* The attempt that is stored with a fix counts it.
LEMMA LaunchKeepsCount ==
    ASSUME IInv, TypeOK', ActorsHold', NEW t \in Tasks, NEW u \in Tasks,
           NEW kind \in {"debug", "ci"}, Launched(t, u, kind),
           kind = "debug" => /\ task'[t].ci = task[t].ci /\ scan' = scan
                             /\ task'[u].ci.attempt = 0,
           kind = "ci" =>
              /\ scan.at = "goal" /\ scan.on = t /\ scan'.at = "idle"
              /\ task'[t].ci.attempt = scan.seen.attempt + 1
              /\ task'[u].ci.attempt = scan.seen.attempt + 1
    PROVE  CountHolds'
<1>1. TypeOK /\ RowsHold /\ CountHolds
    BY DEF IInv
<1>2. maxCI' = maxCI /\ u # t
    BY DEF Launched, bounds
<1>3. task[u].kind = "root"
    BY <1>1 DEF RowsHold, AbsentIsBlank, Launched, NoTask
<1>4. /\ Fixes("ci", u)' = {}
      /\ \A v \in Tasks \ {t, u} : Fixes("ci", v)' = Fixes("ci", v)
      /\ kind = "ci" => Fixes("ci", t)' = Fixes("ci", t) \cup {u}
      /\ kind # "ci" => Fixes("ci", t)' = Fixes("ci", t)
    BY <1>3, FixesOf DEF Launched
<1>5. IsFiniteSet(Fixes("ci", t)) /\ Cardinality(Fixes("ci", t)) \in Nat /\ u \notin Fixes("ci", t)
    BY <1>3, FixesAreFinite DEF Fixes
<1>6. /\ maxCI \in Nat /\ scan.seen.attempt \in Nat
      /\ \A v \in Tasks : task[v].ci.attempt \in Nat
    BY <1>1, Attempts
<1>7. kind = "ci" => scan.seen.attempt = task[t].ci.attempt /\ scan.seen.attempt < maxCI
    BY <1>1 DEF CountHolds
<1>8. ASSUME NEW v \in Tasks
      PROVE  /\ Cardinality(Fixes("ci", v)') + (IF task'[v].kind = "ci" THEN 1 ELSE 0)
                  <= task'[v].ci.attempt
             /\ task'[v].ci.attempt <= maxCI
    <2>1. CASE v \notin {t, u}
        <3>1. task'[v] = task[v] /\ Fixes("ci", v)' = Fixes("ci", v)
            BY <1>4, <2>1 DEF Launched
        <3> QED
            BY <1>1, <3>1 DEF CountHolds
    <2>2. CASE v = u
        <3>1. Cardinality(Fixes("ci", v)') = 0 /\ task'[v].kind = kind
            BY <1>4, <2>2, FS_EmptySet DEF Launched
        <3>2. kind = "debug" => task'[v].ci.attempt = 0
            BY <2>2
        <3>3. kind = "ci" => task'[v].ci.attempt = scan.seen.attempt + 1
            BY <2>2
        <3> QED
            BY <1>6, <1>7, <3>1, <3>2, <3>3
    <2>3. CASE v = t /\ kind = "debug"
        <3>1. /\ task'[v].ci = task[v].ci /\ task'[v].kind = task[v].kind
              /\ Fixes("ci", v)' = Fixes("ci", v)
            BY <1>4, <2>3 DEF Launched
        <3> QED
            BY <1>1, <3>1 DEF CountHolds
    <2>4. CASE v = t /\ kind = "ci"
        <3>1. Cardinality(Fixes("ci", t) \cup {u}) = Cardinality(Fixes("ci", t)) + 1
            BY <1>5, FS_AddElement
        <3>2. /\ task'[v].kind = task[v].kind
              /\ Cardinality(Fixes("ci", v)') = Cardinality(Fixes("ci", t)) + 1
            BY <1>4, <2>4, <3>1 DEF Launched
        <3>3. Cardinality(Fixes("ci", t)) + (IF task[t].kind = "ci" THEN 1 ELSE 0)
                <= task[t].ci.attempt
            BY <1>1 DEF CountHolds
        <3> QED
            BY <1>5, <1>6, <1>7, <2>4, <3>2, <3>3
    <2> QED
        BY <2>1, <2>2, <2>3, <2>4
<1>9. kind = "debug" =>
         /\ scan'.at # "idle" => scan'.seen.attempt = task'[scan'.on].ci.attempt
         /\ scan'.at = "goal" => scan'.seen.attempt < maxCI'
    <2> SUFFICES ASSUME kind = "debug", scan.at # "idle"
                 PROVE  /\ scan.seen.attempt = task'[scan.on].ci.attempt
                        /\ scan.at = "goal" => scan.seen.attempt < maxCI
        BY <1>2
    <2>1. scan.on \in Tasks \ {u}
        BY DEF IInv, ActorsHold, Launched
    <2>2. task'[scan.on].ci = task[scan.on].ci
        BY <2>1 DEF Launched
    <2> QED
        BY <1>1, <2>2 DEF CountHolds
<1> QED
    BY <1>2, <1>8, <1>9 DEF CountHolds

\* A fix answers checks that no earlier fix of its parent answered.
LEMMA LaunchKeepsAnswers ==
    ASSUME IInv, TypeOK', ActorsHold', NEW t \in Tasks, NEW u \in Tasks,
           NEW kind \in {"debug", "ci"}, Launched(t, u, kind),
           task'[u].ci.signature = {},
           kind = "debug" => task'[t].ci = task[t].ci /\ scan' = scan,
           kind = "ci" =>
              /\ scan.at = "goal" /\ scan.on = t /\ scan'.at = "idle"
              /\ task'[t].ci.signature = scan.failed /\ task'[u].answers = scan.failed
    PROVE  AnswersHold' /\ SettledChecksAreAnsweredOnce'
<1>1. TypeOK /\ RowsHold /\ AnswersHold /\ SettledChecksAreAnsweredOnce
    BY DEF IInv
<1>2. checkReruns' = checkReruns /\ check' = check /\ u # t
    BY DEF Launched, bounds
<1>3. task[u].kind = "root"
    BY <1>1 DEF RowsHold, AbsentIsBlank, Launched, NoTask
<1>4. /\ Fixes("ci", u)' = {}
      /\ \A v \in Tasks \ {t, u} : Fixes("ci", v)' = Fixes("ci", v)
      /\ kind = "ci" => Fixes("ci", t)' = Fixes("ci", t) \cup {u}
      /\ kind # "ci" => Fixes("ci", t)' = Fixes("ci", t)
    BY <1>3, FixesOf DEF Launched
<1>5. \A v \in Tasks : /\ Fixes("ci", v) \subseteq Tasks \ {u}
                       /\ In(v, "failed")' = In(v, "failed")
    BY <1>2, <1>3 DEF Fixes, In
<1>6. \A v \in Tasks \ {u} : task'[v].answers = task[v].answers
    BY DEF Launched
<1>7. \A v \in Tasks \ {t, u} : task'[v].ci = task[v].ci
    BY DEF Launched
<1> SUFFICES ASSUME checkReruns = 0
             PROVE  AnswersHold' /\ SettledChecksAreAnsweredOnce'
    BY <1>2 DEF AnswersHold, SettledChecksAreAnsweredOnce
<1>8. kind = "ci" => /\ scan.failed \subseteq In(t, "failed")
                     /\ task[t].ci.signature \subseteq scan.failed
                     /\ task[t].ci.signature # scan.failed
    BY <1>1 DEF AnswersHold
<1>9. ASSUME NEW v \in Tasks
      PROVE  /\ task'[v].ci.signature \subseteq In(v, "failed")
             /\ \A w \in Fixes("ci", v)' : task'[w].answers \subseteq task'[v].ci.signature
             /\ \A w, x \in Fixes("ci", v)' : w # x => task'[w].answers # task'[x].answers
    <2>1. CASE v = u
        BY <1>4, <2>1
    <2>2. CASE v # u /\ task'[v].ci = task[v].ci /\ Fixes("ci", v)' = Fixes("ci", v)
        BY <1>1, <1>5, <1>6, <2>2 DEF AnswersHold, SettledChecksAreAnsweredOnce
    <2>3. CASE v = t /\ kind = "ci"
        <3>1. /\ Fixes("ci", v)' = Fixes("ci", v) \cup {u}
              /\ task'[v].ci.signature = scan.failed /\ task'[u].answers = scan.failed
            BY <1>4, <2>3
        <3>2. \A w \in Fixes("ci", v) : /\ task'[w].answers = task[w].answers
                                        /\ task[w].answers \subseteq task[v].ci.signature
            BY <1>1, <1>5, <1>6 DEF AnswersHold
        <3>3. \A w \in Fixes("ci", v) : task'[w].answers \subseteq scan.failed
                                        /\ task'[w].answers # scan.failed
            BY <1>8, <2>3, <3>2
        <3>4. \A w, x \in Fixes("ci", v) : w # x => task'[w].answers # task'[x].answers
            BY <1>1, <3>2 DEF SettledChecksAreAnsweredOnce
        <3> QED
            BY <1>8, <2>3, <3>1, <3>3, <3>4
    <2>4. v \in Tasks \ {t, u} => task'[v].ci = task[v].ci /\ Fixes("ci", v)' = Fixes("ci", v)
        BY <1>4, <1>7
    <2>5. v = t /\ kind = "debug" => task'[v].ci = task[v].ci /\ Fixes("ci", v)' = Fixes("ci", v)
        BY <1>4
    <2> QED
        BY <2>1, <2>2, <2>3, <2>4, <2>5
<1>10. SettledChecksAreAnsweredOnce'
    BY <1>9 DEF SettledChecksAreAnsweredOnce
<1>11. kind = "debug" /\ scan.at # "idle" =>
          /\ scan.seen.signature = task'[scan.on].ci.signature
          /\ scan.at = "goal" => /\ scan.failed \subseteq In(scan.on, "failed")
                                 /\ scan.seen.signature \subseteq scan.failed
                                 /\ scan.seen.signature # scan.failed
    <2> SUFFICES ASSUME kind = "debug", scan.at # "idle"
                 PROVE  /\ scan.seen.signature = task'[scan.on].ci.signature
                        /\ scan.at = "goal" => /\ scan.failed \subseteq In(scan.on, "failed")
                                               /\ scan.seen.signature \subseteq scan.failed
                                               /\ scan.seen.signature # scan.failed
        OBVIOUS
    <2>1. scan.on \in Tasks \ {u}
        BY DEF IInv, ActorsHold, Launched
    <2>2. task'[scan.on].ci = task[scan.on].ci
        BY <1>7, <2>1
    <2> QED
        BY <1>1, <2>2 DEF AnswersHold
<1>12. In(scan.on, "failed")' = {c \in Checks : check[scan'.on][c] = "failed"}
    BY <1>2 DEF In
<1>13. AnswersHold'
    <2>1. CASE scan'.at = "idle"
        BY <1>5, <1>9, <2>1 DEF AnswersHold
    <2>2. CASE kind = "debug" /\ scan' = scan
        <3>1. In(scan.on, "failed")' = In(scan.on, "failed")
            BY <1>12, <2>2 DEF In
        <3> QED
            BY <1>5, <1>9, <1>11, <2>2, <3>1 DEF AnswersHold
    <2> QED
        BY <2>1, <2>2
<1> QED
    BY <1>10, <1>13

\* The metadata of a new fix knows its attempt only.
LEMMA Numbered ==
    ASSUME NEW a
    PROVE  /\ [NoDebug EXCEPT !.attempt = a] = [status |-> "none", attempt |-> a, fix |-> None]
           /\ [NoCI EXCEPT !.attempt = a] =
                [status |-> "none", attempt |-> a, fix |-> None, signature |-> {}]
<1>1. [NoDebug EXCEPT !.attempt = a] = [status |-> "none", attempt |-> a, fix |-> None]
    BY DEF NoDebug
<1>2. [NoCI EXCEPT !.attempt = a] =
        [status |-> "none", attempt |-> a, fix |-> None, signature |-> {}]
    BY DEF NoCI
<1> QED
    BY <1>1, <1>2

\* Launching a fix for a failed run keeps the invariant.
LEMMA DebugFixKeeps ==
    ASSUME IInv, NEW d \in Debuggers, LaunchDebugFix(d)
    PROVE  IInv'
<1> DEFINE t == debugger[d].on
           attempt == debugger[d].attempt + 1
<1>1. TypeOK /\ RowsHold /\ ActorsHold
    BY DEF IInv
<1>2. /\ debugger[d].at = "goal" /\ t \in Tasks /\ Present(t)
      /\ debugger' = [debugger EXCEPT ![d] = Idle] /\ UNCHANGED <<check, scan, bounds>>
    BY <1>1 DEF LaunchDebugFix, ActorsHold
<1>3. PICK u \in Tasks :
        Launches(u, Child("debug", t, {}, [NoDebug EXCEPT !.attempt = attempt], NoCI), t,
                 [task[t] EXCEPT !.debug = [status |-> "fix_in_progress",
                                            attempt |-> attempt, fix |-> u]])
    BY DEF LaunchDebugFix
<1>4. attempt \in Nat
    BY <1>1, Attempts
<1> DEFINE debug == [status |-> "fix_in_progress", attempt |-> attempt, fix |-> u]
           row == [status |-> "new", kind |-> "debug", parent |-> t, answers |-> {}, pr |-> FALSE,
                   debug |-> [status |-> "none", attempt |-> attempt, fix |-> None], ci |-> NoCI]
           prow == [task[t] EXCEPT !.debug = debug]
<1>5. Child("debug", t, {}, [NoDebug EXCEPT !.attempt = attempt], NoCI) = row
    BY Numbered, Zenon DEF Child
<1>6. /\ row \in TaskRows /\ row.status = "new" /\ row.kind = "debug" /\ row.parent = t
      /\ row.debug.attempt = attempt /\ row.debug.fix = None
      /\ row.ci.fix = None /\ row.ci.attempt = 0 /\ row.ci.signature = {}
    <2>1. [status |-> "none", attempt |-> attempt, fix |-> None] \in Debug
        BY <1>4 DEF Debug, Outcomes
    <2>2. row \in TaskRows
        BY <1>2, <2>1, EmptyRows, Names DEF TaskRows
    <2> QED
        BY <2>2 DEF NoCI
<1>7. /\ prow \in TaskRows /\ prow.kind = task[t].kind /\ prow.parent = task[t].parent
      /\ prow.answers = task[t].answers /\ prow.status = task[t].status
      /\ prow.ci = task[t].ci /\ prow.debug = debug
    <2>1. debug \in Debug /\ task[t] \in TaskRows
        BY <1>1, <1>2, <1>4, Names DEF Debug, TypeOK
    <2> HIDE DEF debug
    <2> QED
        BY <2>1 DEF TaskRows
<1>8. debug.attempt = attempt /\ debug.fix = u
    OBVIOUS
<1>9. Launches(u, row, t, prow)
    BY <1>3, <1>5
<1> HIDE DEF row, prow, debug, t
<1>10. /\ task' \in [Tasks -> TaskRows] /\ RowsHold'
       /\ ~Present(u) /\ u # t /\ t < u
       /\ task'[u] = row /\ task'[t] = prow
       /\ \A v \in Tasks \ {t, u} : task'[v] = task[v]
       /\ \A v \in Tasks : task[v].parent # u
       /\ \A v \in Tasks : Present(v) => Present(v)'
    BY <1>1, <1>2, <1>6, <1>7, <1>9, LaunchAdds
<1>11. running' = running \cup {u} /\ monitors' = monitors \cup {u}
    BY <1>9 DEF Launches
<1>12. Launched(t, u, "debug")
    BY <1>2, <1>6, <1>7, <1>10, <1>11 DEF Launched
<1>13. TypeOK'
    BY <1>1, <1>2, <1>10, <1>11, EmptyRows DEF TypeOK, bounds
<1>14. ActorsHold'
    <2>1. /\ \A v \in running' : Present(v)'
          /\ \A v \in monitors' : Present(v)' /\ task'[v].kind \in {"debug", "ci"}
        BY <1>1, <1>6, <1>7, <1>10, <1>11 DEF ActorsHold, Present, TypeOK
    <2>2. \A e \in Debuggers : debugger'[e].at = "goal" =>
             debugger'[e].on \in Tasks /\ task'[debugger'[e].on].status # "absent"
        BY <1>1, <1>2, <1>10 DEF ActorsHold, Idle, TypeOK, Present
    <2>3. scan'.at # "idle" => scan'.on \in Tasks /\ task'[scan'.on].status # "absent"
        BY <1>1, <1>2, <1>10 DEF ActorsHold, Present
    <2> QED
        BY <2>1, <2>2, <2>3 DEF ActorsHold, Present
<1>15. NamesHold' /\ InProgressIsMonitored'
    BY <1>2, <1>6, <1>7, <1>8, <1>10, <1>12, <1>13, LaunchKeepsNames
<1>16. DepthHolds'
    <2>1. \E e \in Debuggers :
             /\ debugger[e].at = "goal" /\ debugger[e].on = t
             /\ debugger' = [debugger EXCEPT ![e] = Idle]
             /\ task'[u].debug.attempt = debugger[e].attempt + 1
             /\ task'[t].debug.attempt = debugger[e].attempt + 1
        BY <1>2, <1>6, <1>7, <1>8, <1>10 DEF t
    <2>2. DebugDepthHolds'
        BY <1>2, <1>12, <1>13, <2>1, LaunchKeepsDebugDepth
    <2>3. CIDepthHolds'
        BY <1>2, <1>7, <1>10, <1>12, <1>13, LaunchKeepsCIDepth
    <2> QED
        BY <2>2, <2>3 DEF DepthHolds
<1>17. CountHolds'
    BY <1>2, <1>6, <1>7, <1>10, <1>12, <1>13, <1>14, LaunchKeepsCount
<1>18. AnswersHold' /\ SettledChecksAreAnsweredOnce'
    BY <1>2, <1>6, <1>7, <1>10, <1>12, <1>13, <1>14, LaunchKeepsAnswers
<1> QED
    BY <1>10, <1>13, <1>14, <1>15, <1>16, <1>17, <1>18 DEF IInv

\* So does launching one for failed checks.
LEMMA CIFixKeeps ==
    ASSUME IInv, LaunchCIFix
    PROVE  IInv'
<1> DEFINE t == scan.on
           attempt == scan.seen.attempt + 1
<1>1. TypeOK /\ RowsHold /\ ActorsHold
    BY DEF IInv
<1>2. /\ scan.at = "goal" /\ t \in Tasks /\ Present(t)
      /\ scan' = NoScan /\ UNCHANGED <<check, debugger, bounds>>
    BY <1>1 DEF LaunchCIFix, ActorsHold
<1>3. PICK u \in Tasks :
        Launches(u, Child("ci", t, scan.failed, NoDebug, [NoCI EXCEPT !.attempt = attempt]), t,
                 [task[t] EXCEPT !.ci = [status |-> "fix_in_progress", attempt |-> attempt,
                                         fix |-> u, signature |-> scan.failed]])
    BY DEF LaunchCIFix
<1>4. attempt \in Nat /\ scan.failed \subseteq Checks
    BY <1>1, Attempts
<1> DEFINE ci == [status |-> "fix_in_progress", attempt |-> attempt, fix |-> u,
                  signature |-> scan.failed]
           row == [status |-> "new", kind |-> "ci", parent |-> t, answers |-> scan.failed,
                   pr |-> FALSE, debug |-> NoDebug,
                   ci |-> [status |-> "none", attempt |-> attempt, fix |-> None, signature |-> {}]]
           prow == [task[t] EXCEPT !.ci = ci]
<1>5. Child("ci", t, scan.failed, NoDebug, [NoCI EXCEPT !.attempt = attempt]) = row
    BY Numbered, Zenon DEF Child
<1>6. /\ row \in TaskRows /\ row.status = "new" /\ row.kind = "ci" /\ row.parent = t
      /\ row.answers = scan.failed /\ row.debug.attempt = 0 /\ row.debug.fix = None
      /\ row.ci.fix = None /\ row.ci.attempt = attempt /\ row.ci.signature = {}
    <2>1. [status |-> "none", attempt |-> attempt, fix |-> None, signature |-> {}] \in CI
        BY <1>4 DEF CI, Outcomes
    <2>2. row \in TaskRows
        BY <1>2, <1>4, <2>1, EmptyRows, Names DEF TaskRows
    <2> QED
        BY <2>2 DEF NoDebug
<1>7. /\ prow \in TaskRows /\ prow.kind = task[t].kind /\ prow.parent = task[t].parent
      /\ prow.answers = task[t].answers /\ prow.status = task[t].status
      /\ prow.debug = task[t].debug /\ prow.ci = ci
    <2>1. ci \in CI /\ task[t] \in TaskRows
        BY <1>1, <1>2, <1>4, Names DEF CI, TypeOK
    <2> HIDE DEF ci
    <2> QED
        BY <2>1 DEF TaskRows
<1>8. ci.attempt = attempt /\ ci.fix = u /\ ci.signature = scan.failed
    OBVIOUS
<1>9. Launches(u, row, t, prow)
    BY <1>3, <1>5
<1> HIDE DEF row, prow, ci, t
<1>10. /\ task' \in [Tasks -> TaskRows] /\ RowsHold'
       /\ ~Present(u) /\ u # t /\ t < u
       /\ task'[u] = row /\ task'[t] = prow
       /\ \A v \in Tasks \ {t, u} : task'[v] = task[v]
       /\ \A v \in Tasks : task[v].parent # u
       /\ \A v \in Tasks : Present(v) => Present(v)'
    BY <1>1, <1>2, <1>6, <1>7, <1>9, LaunchAdds
<1>11. /\ running' = running \cup {u} /\ monitors' = monitors \cup {u}
       /\ scan'.at = "idle"
    BY <1>2, <1>9 DEF Launches, NoScan
<1>12. Launched(t, u, "ci")
    BY <1>2, <1>6, <1>7, <1>10, <1>11 DEF Launched
<1>13. TypeOK'
    BY <1>1, <1>2, <1>10, <1>11, EmptyRows DEF TypeOK, bounds
<1>14. ActorsHold'
    <2>1. /\ \A v \in running' : Present(v)'
          /\ \A v \in monitors' : Present(v)' /\ task'[v].kind \in {"debug", "ci"}
        BY <1>1, <1>6, <1>7, <1>10, <1>11 DEF ActorsHold, Present, TypeOK
    <2>2. \A e \in Debuggers : debugger'[e].at = "goal" =>
             debugger'[e].on \in Tasks /\ task'[debugger'[e].on].status # "absent"
        BY <1>1, <1>2, <1>10 DEF ActorsHold, Present
    <2> QED
        BY <1>11, <2>1, <2>2 DEF ActorsHold, Present
<1>15. NamesHold' /\ InProgressIsMonitored'
    BY <1>2, <1>6, <1>7, <1>8, <1>10, <1>12, <1>13, LaunchKeepsNames
<1>16. DepthHolds'
    <2>1. DebugDepthHolds'
        BY <1>2, <1>6, <1>7, <1>10, <1>12, <1>13, LaunchKeepsDebugDepth
    <2>2. attempt = task[t].ci.attempt + 1
        BY <1>2 DEF IInv, CountHolds, t
    <2>3. CIDepthHolds'
        BY <1>2, <1>6, <1>7, <1>8, <1>10, <1>12, <1>13, <2>2, LaunchKeepsCIDepth
    <2> QED
        BY <2>1, <2>3 DEF DepthHolds
<1>17. CountHolds'
    BY <1>2, <1>6, <1>7, <1>8, <1>10, <1>11, <1>12, <1>13, <1>14, LaunchKeepsCount DEF t
<1>18. AnswersHold' /\ SettledChecksAreAnsweredOnce'
    BY <1>2, <1>6, <1>7, <1>8, <1>10, <1>11, <1>12, <1>13, <1>14, LaunchKeepsAnswers DEF t
<1> QED
    BY <1>10, <1>13, <1>14, <1>15, <1>16, <1>17, <1>18 DEF IInv

-------------------------------------------------------------------------------
(* Theorems *)

\* The invariant holds of one task and nothing known about it.
LEMMA InitInv == Init => IInv
<1> SUFFICES ASSUME Init
             PROVE  IInv
    OBVIOUS
<1>1. MaxTasks \in Nat \ {0} /\ maxCI \in Nat /\ MaxDebug \in Nat /\ 1 \in Tasks
    BY LimitsAssumption DEF Init, Tasks
<1>2. PICK kind \in {"root", "cycle"} :
         task = [t \in Tasks |-> IF t = 1 THEN [NoTask EXCEPT !.status = "new", !.kind = kind]
                                 ELSE NoTask]
    BY DEF Init
<1> DEFINE row == [NoTask EXCEPT !.status = "new", !.kind = kind]
<1>3. /\ row \in TaskRows /\ row.status = "new" /\ row.kind \in {"root", "cycle"}
      /\ row.parent = None /\ row.debug = NoDebug /\ row.ci = NoCI /\ row.answers = {}
    <2>1. row \in TaskRows
        BY EmptyRows DEF TaskRows, Statuses, Kinds
    <2>2. /\ row.status = "new" /\ row.kind \in {"root", "cycle"}
          /\ row.parent = None /\ row.debug = NoDebug /\ row.ci = NoCI /\ row.answers = {}
        BY DEF NoTask
    <2> QED
        BY <2>1, <2>2
<1> HIDE DEF row
<1>4. task[1] = row /\ \A t \in Tasks \ {1} : task[t] = NoTask
    BY <1>1, <1>2 DEF row
<1>5. /\ NoTask.status = "absent" /\ NoTask.kind = "root" /\ NoTask.parent = None
      /\ NoTask.debug = NoDebug /\ NoTask.ci = NoCI /\ NoTask.answers = {}
    BY DEF NoTask
<1>6. \A t \in Tasks : /\ task[t].parent = None /\ task[t].kind \notin {"debug", "ci"}
                       /\ task[t].debug = NoDebug /\ task[t].ci = NoCI
                       /\ task[t] \in TaskRows /\ (Present(t) <=> t = 1)
    BY <1>3, <1>4, <1>5, EmptyRows DEF Present
<1>7. TypeOK
    <2>1. task \in [Tasks -> TaskRows]
        BY <1>2, <1>6
    <2> QED
        BY <1>1, <2>1, EmptyRows DEF TypeOK, Init, CheckStates
<1>8. RowsHold
    <2>1. \A t \in Tasks : t \in Nat /\ t > 0
        BY <1>1 DEF Tasks
    <2>2. RowsInOrder
        BY <1>6, <2>1 DEF RowsInOrder
    <2>3. AbsentIsBlank
        BY <1>4, <1>6 DEF AbsentIsBlank
    <2>4. ParentsAreOlder
        BY <1>6, <2>1 DEF ParentsAreOlder, None
    <2> QED
        BY <2>2, <2>3, <2>4 DEF RowsHold
<1>9. scan.at = "idle" /\ \A d \in Debuggers : debugger[d].at = "idle"
    BY DEF Init, NoScan, Idle
<1>10. ActorsHold
    <2>1. running = {1} /\ monitors = {}
        BY DEF Init
    <2>2. \A t \in running : Present(t)
        BY <1>1, <1>6, <2>1
    <2> QED
        BY <1>9, <2>1, <2>2 DEF ActorsHold
<1>11. DepthHolds
    <2> DEFINE depth == [t \in Tasks |-> 0]
    <2>1. IsDepth("debug", depth) /\ IsDepth("ci", depth)
        BY <1>6 DEF IsDepth
    <2>2. \A t \in Tasks : task[t].debug.attempt = 0 /\ task[t].ci.attempt = 0
        BY <1>6 DEF NoDebug, NoCI
    <2>3. /\ depth \in [Tasks -> Nat] /\ \A t \in Tasks : depth[t] <= task[t].debug.attempt
          /\ \A t \in Tasks : depth[t] <= task[t].ci.attempt
        BY <2>2
    <2> HIDE DEF depth
    <2>4. DebugDepthHolds
        BY <1>1, <1>9, <2>1, <2>2, <2>3 DEF DebugDepthHolds
    <2>5. CIDepthHolds
        BY <2>1, <2>3 DEF CIDepthHolds
    <2> QED
        BY <2>4, <2>5 DEF DepthHolds
<1>12. \A t : Fixes("ci", t) = {}
    BY <1>6 DEF Fixes
<1>13. CountHolds
    BY <1>1, <1>6, <1>9, <1>12, FS_EmptySet DEF CountHolds, NoCI
<1>14. AnswersHold /\ SettledChecksAreAnsweredOnce
    BY <1>6, <1>9, <1>12 DEF AnswersHold, SettledChecksAreAnsweredOnce, NoCI
<1>15. NamesHold /\ InProgressIsMonitored
    BY <1>6 DEF NamesHold, InProgressIsMonitored, HasFix, NoDebug, NoCI
<1> QED
    BY <1>7, <1>8, <1>10, <1>11, <1>13, <1>14, <1>15 DEF IInv

\* Every step keeps it.
LEMMA NextInv == IInv /\ [Next]_vars => IInv'
<1> SUFFICES ASSUME IInv, [Next]_vars
             PROVE  IInv'
    OBVIOUS
<1>1. CASE UNCHANGED vars
    <2>1. TypeOK /\ ActorsHold
        BY DEF IInv
    <2>2. UNCHANGED <<task, check, running, debugger, scan, monitors, maxCI, reruns,
                      checkReruns, restarts>>
        BY <1>1 DEF vars, bounds
    <2>3. TypeOK'
        BY <2>1, <2>2 DEF TypeOK
    <2>4. ActorsHold'
        BY <2>1, <2>2 DEF ActorsHold, Present
    <2>5. InProgressIsMonitored'
        BY <2>1, <2>2, SameTasks, StayingKeepsProgress
    <2>6. \A v \in Tasks : In(v, "failed")' = In(v, "failed")
        BY <2>2 DEF In
    <2> QED
        BY <2>1, <2>2, <2>3, <2>4, <2>5, <2>6, SameTasks, StillKeeps
<1>2. CASE \E t \in Tasks :
             RunStep(t) \/ RunEnds(t) \/ Rerun(t) \/ CheckEnds(t) \/ CheckRunsAgain(t)
    BY <1>2, RunKeeps, ChecksKeep
<1>3. CASE \E d \in Debuggers : LaunchDebugFix(d)
    BY <1>3, DebugFixKeeps
<1>4. CASE \E t \in Tasks : BeginInspection(t)
    BY <1>4, BeginKeeps
<1>5. CASE ScanStep
    BY <1>5, NoteKeeps, VerdictKeeps, CIFixKeeps DEF ScanStep
<1>6. CASE \E u \in Tasks : MonitorReports(u) \/ MonitorGivesUp(u)
    BY <1>6, ReportKeepsAll DEF MonitorReports, MonitorGivesUp
<1>7. CASE Restart
    BY <1>7, RestartKeeps
<1> QED
    BY <1>1, <1>2, <1>3, <1>4, <1>5, <1>6, <1>7 DEF Next

\* The invariant holds in every reachable state.
LEMMA InvariantHolds == Spec => []IInv
BY InitInv, NextInv, PTL DEF Spec

\* Every set of numbers that has a member has a least one.
LEMMA Least ==
    ASSUME NEW S, S \subseteq Nat, S # {}
    PROVE  \E x \in S : \A y \in S : x <= y
<1>1. PICK R : IsWellFoundedOn(R, Nat) /\ \A x, y \in Nat : <<y, x>> \in R <=> y < x
    <2>1. IsWellFoundedOn(OpToRel(<, Nat), Nat)
        BY NatLessThanWellFounded
    <2>2. \A x, y \in Nat : <<y, x>> \in OpToRel(<, Nat) <=> y < x
        BY DEF OpToRel
    <2> QED
        BY <2>1, <2>2
<1>2. PICK x \in S : \A y \in S : ~(<<y, x>> \in R)
    BY <1>1, WFMin
<1>3. ASSUME NEW y \in S
      PROVE  x <= y
    <2>1. x \in Nat /\ y \in Nat
        OBVIOUS
    <2>2. ~(y < x)
        BY <1>1, <1>2, <2>1
    <2> QED
        BY <2>1, <2>2
<1> QED
    BY <1>3

\* The length of the chain above a task is its depth: where they first differed,
\* they would already differ for the parent.
LEMMA ChainIsDepth ==
    ASSUME TypeOK, ParentsAreOlder, NEW kind, NEW depth \in [Tasks -> Nat],
           IsDepth(kind, depth)
    PROVE  \A t \in Tasks : Chain(kind)[t] = depth[t]
<1> DEFINE Defines(g) ==
              g = [t \in Tasks |-> IF task[t].kind # kind \/ task[t].parent = None THEN 0
                                   ELSE 1 + g[task[t].parent]]
           up == CHOOSE g : Defines(g)
<1>1. Chain(kind) = up
    BY Zenon DEF Chain
<1>2. Defines(depth)
    BY DEF IsDepth
<1>3. Defines(up)
    <2> HIDE DEF Defines
    <2> QED
        BY <1>2, Zenon
<1> HIDE DEF up
<1>4. \A t \in Tasks : /\ up[t] = IF task[t].kind # kind \/ task[t].parent = None THEN 0
                                  ELSE 1 + up[task[t].parent]
                       /\ depth[t] = IF task[t].kind # kind \/ task[t].parent = None THEN 0
                                     ELSE 1 + depth[task[t].parent]
    <2>1. \A t \in Tasks : up[t] = IF task[t].kind # kind \/ task[t].parent = None THEN 0
                                   ELSE 1 + up[task[t].parent]
        BY <1>3
    <2>2. \A t \in Tasks : depth[t] = IF task[t].kind # kind \/ task[t].parent = None THEN 0
                                      ELSE 1 + depth[task[t].parent]
        BY <1>2
    <2> QED
        BY <2>1, <2>2
<1> DEFINE Differ == {t \in Tasks : up[t] # depth[t]}
<1>5. ASSUME Differ # {}
      PROVE  FALSE
    <2>1. Differ \subseteq Nat
        BY LimitsAssumption DEF Tasks
    <2>2. PICK t \in Differ : \A v \in Differ : t <= v
        BY <1>5, <2>1, Least
    <2>3. t \in Tasks /\ up[t] # depth[t]
        OBVIOUS
    <2>4. task[t].parent \in Tasks \cup {None} /\ task[t].parent < t
        BY <2>3, Attempts DEF ParentsAreOlder
    <2>5. task[t].parent # None /\ up[task[t].parent] # depth[task[t].parent]
        BY <1>4, <2>3
    <2>6. task[t].parent \in Differ
        BY <2>4, <2>5
    <2>7. t <= task[t].parent
        BY <2>2, <2>6
    <2>8. t \in Nat /\ task[t].parent \in Nat
        BY <2>1, <2>6, <2>2
    <2> QED
        BY <2>4, <2>7, <2>8
<1> QED
    BY <1>1, <1>5

\* Every variable keeps its type.
THEOREM TypesHold == Spec => []TypeOK
<1>1. IInv => TypeOK
    BY DEF IInv
<1> QED
    BY <1>1, InvariantHolds, PTL

\* Neither service goes on for ever by itself, for every limit, every number of
\* debuggers and however often runs, checks and the process are disturbed: fixes
\* of failed fixes (auto_debug.py) in a row, and fixes of the checks of fixes
\* (github_autofix.py) in a row, are never more than the limit of their service,
\* and no pull request gets more fixes than that.  Chains that alternate between
\* the two are not bounded: each starts the count of the other anew.
THEOREM FixesStayBounded == Spec => []FixesAreBounded
<1>1. IInv => FixesAreBounded
    <2> SUFFICES ASSUME IInv
                 PROVE  FixesAreBounded
        OBVIOUS
    <2>1. TypeOK /\ ParentsAreOlder /\ DepthHolds /\ CountHolds
        BY DEF IInv, RowsHold
    <2>2. \A t \in Tasks : Chain("debug")[t] <= MaxDebug
        <3>1. PICK depth \in [Tasks -> Nat] :
                 /\ IsDepth("debug", depth)
                 /\ \A t \in Tasks : depth[t] <= task[t].debug.attempt
            BY <2>1 DEF DepthHolds, DebugDepthHolds
        <3>2. \A t \in Tasks : Chain("debug")[t] = depth[t]
            BY <2>1, <3>1, ChainIsDepth
        <3>3. \A t \in Tasks : depth[t] \in Nat /\ task[t].debug.attempt \in Nat /\ MaxDebug \in Nat
            BY <2>1, Attempts
        <3>4. \A t \in Tasks : task[t].debug.attempt <= MaxDebug
            BY <2>1 DEF DepthHolds, DebugDepthHolds
        <3>5. \A t \in Tasks : depth[t] <= MaxDebug
            BY <3>1, <3>3, <3>4
        <3> QED
            BY <3>2, <3>5
    <2>3. \A t \in Tasks : Chain("ci")[t] <= maxCI
        <3>1. PICK depth \in [Tasks -> Nat] :
                 /\ IsDepth("ci", depth)
                 /\ \A t \in Tasks : depth[t] <= task[t].ci.attempt
            BY <2>1 DEF DepthHolds, CIDepthHolds
        <3>2. \A t \in Tasks : Chain("ci")[t] = depth[t]
            BY <2>1, <3>1, ChainIsDepth
        <3>3. \A t \in Tasks : depth[t] \in Nat /\ task[t].ci.attempt \in Nat /\ maxCI \in Nat
            BY <2>1, Attempts
        <3>4. \A t \in Tasks : task[t].ci.attempt <= maxCI
            BY <2>1 DEF CountHolds
        <3>5. \A t \in Tasks : depth[t] <= maxCI
            BY <3>1, <3>3, <3>4
        <3> QED
            BY <3>2, <3>5
    <2>4. CIFixesAreBounded
        <3> SUFFICES ASSUME NEW t \in Tasks
                     PROVE  Cardinality(Fixes("ci", t)) + (IF task[t].kind = "ci" THEN 1 ELSE 0)
                              <= maxCI
            BY DEF CIFixesAreBounded
        <3>1. /\ Cardinality(Fixes("ci", t)) \in Nat /\ task[t].ci.attempt \in Nat /\ maxCI \in Nat
            BY <2>1, FixesAreFinite, Attempts
        <3> QED
            BY <2>1, <3>1 DEF CountHolds
    <2> QED
        BY <2>2, <2>3, <2>4 DEF FixesAreBounded, ChainsAreBounded
<1> QED
    BY <1>1, InvariantHolds, PTL

\* As long as GitHub runs no check again, no two fixes of a pull request answer
\* the same failed checks (github_autofix.py's failure signature).
THEOREM AnsweredOnce == Spec => []SettledChecksAreAnsweredOnce
<1>1. IInv => SettledChecksAreAnsweredOnce
    BY DEF IInv
<1> QED
    BY <1>1, InvariantHolds, PTL

\* Without a restart a parent that says "fix in progress" has a monitor that
\* follows the fix it names (_monitor_fix of both services).
THEOREM ProgressIsMonitored == Spec => []InProgressIsMonitored
<1>1. IInv => InProgressIsMonitored
    BY DEF IInv
<1> QED
    BY <1>1, InvariantHolds, PTL
===============================================================================
