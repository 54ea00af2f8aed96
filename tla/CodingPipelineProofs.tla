---- MODULE CodingPipelineProofs ----
(* Proofs about CodingPipeline, for every repository, every set of operations a
   model may answer with and every plan of them, every number of posts, batches and
   restarts. DiffHolds and PublicationHolds leave open what an edit plan makes of
   the files; TypesHold and RollbacksHold follow the patch engine through its plan. *)
EXTENDS CodingPipeline, TLAPS, SequenceTheorems, WellFoundedInduction

(* The fields of the records the steps change one by one. *)
Fields(w) == DOMAIN w = {"cloned", "branch", "unmerged", "base", "head", "index", "work"}
Pcs == Dead \union Attempts \union {"prepare", "openhands"}
Shapes ==
    /\ Fields(ws)
    /\ DOMAIN task = {"stage", "call", "posts", "restarts"}
    /\ exec \in [Executions -> [pc : Pcs, batch : Nat, result : Results \union {"none"}]]

\* Of a file no execution has written, all versions in a checkout are the base branch's.
Clean(w, p) == w.index[p] = w.base[p] /\ w.head[p] = w.base[p] /\ w.work[p] = w.base[p]
\* The local base branch is one that GitHub had or has.
OfMain(w) == \A p \in Paths : w.base[p] \in {Initial[p], main[p]}
Untouched == OfMain(ws) /\ \A p \in Paths \ touched : Clean(ws, p)

\* The worker edits, and the stages behind it read, a checkout on the feature branch.
OnBranch(w) == w.cloned /\ w.branch
Behind == {"review", "testing", "preflight", "commit", "push", "api", "pull_request", "done",
           "failed_testing", "failed_github"}
Prepared ==
    /\ task.call # 0 => task.stage = "coding"
    /\ task.stage \in Behind => OnBranch(ws)
    /\ \A e \in Executions : exec[e].pc \in Attempts \union {"openhands"} => OnBranch(ws)
    /\ tester # "idle" => OnBranch(ws)
    /\ tester = "awaited" => task.stage = "testing"

\* From the answer of the coding stage to the pull request, but for late writes, the
\* checkout, then its commit, then the published branch are what was accepted, or what
\* the test commands made of it.
Allowed(p) == {accepted[p]} \union (IF p \in tested THEN TestOutputs[p] ELSE {})
OnGitHub(p) ==
    \/ IF accepted[p] = ws.base[p] THEN remote.tree[p] \in {Initial[p], main[p]}
       ELSE remote.tree[p] = accepted[p]
    \/ p \in tested /\ remote.tree[p] \in TestOutputs[p] \union {accepted[p], Initial[p], main[p]}
Accepted ==
    \A p \in Paths \ late :
       /\ task.stage \in Behind => ws.work[p] \in Allowed(p)
       /\ task.stage \in {"push", "api", "pull_request"} => ws.head[p] \in Allowed(p)
       /\ task.stage = "pull_request" => OnGitHub(p)

Inv == Shapes /\ Untouched /\ Prepared /\ Accepted

-----------------------------------------------------------------------------
(* What the coding worker does to a checkout *)

\* A checkout v as an execution finds it, prepared from the one there was.
Found(v) ==
    /\ Fields(v) /\ OfMain(v)
    /\ \A p \in Paths \ touched : Clean(v, p)
    /\ OnBranch(ws) => /\ OnBranch(v)
                       /\ v.base = ws.base /\ v.head = ws.head
                       /\ v.index = ws.index /\ v.work = ws.work

\* An execution leaves branches and base alone; what it commits is in the files.
Leaves(v, w) ==
    /\ Fields(w) /\ w.base = v.base
    /\ OnBranch(v) => OnBranch(w)
    /\ \A p \in Paths : /\ w.index[p] \in {v.index[p], w.work[p]}
                        /\ w.head[p] \in {v.head[p], w.work[p]}

\* The checkout there is, is one that an execution may find.
LEMMA FoundAsItIs == ASSUME Inv PROVE Found(ws)
BY DEF Inv, Shapes, Untouched, Found

\* An execution may leave its checkout alone.
LEMMA LeftAsItIs == ASSUME NEW v, Fields(v) PROVE Leaves(v, v)
BY DEF Leaves

\* An execution may write its working tree, and nothing else.
LEMMA LeftWritten == ASSUME NEW v, NEW tree, Fields(v) PROVE Leaves(v, Written(v, tree))
BY DEF Leaves, Written, Fields, OnBranch

\* ensure_repository_checkout and ensure_branch: only a checkout that was not on the
\* feature branch changes, and then it is the base branch of GitHub.
LEMMA FoundPrepared ==
    ASSUME Inv
    PROVE  /\ Found(EnsureBranch(EnsureCheckout(ws)))
           /\ OnBranch(EnsureBranch(EnsureCheckout(ws)))
<1> DEFINE v == EnsureCheckout(ws)
           b == EnsureBranch(v)
<1>1. /\ Fields(v) /\ v.cloned
      /\ \/ /\ v.base = ws.base /\ v.head = ws.head
            /\ v.index = ws.index /\ v.work = ws.work
         \/ /\ ~OnBranch(ws)
            /\ v.base = main /\ v.head = main /\ v.index = main /\ v.work = main
    <2>1. CASE ws.cloned
        BY <2>1 DEF Inv, Shapes, Fields, OnBranch, EnsureCheckout, Refreshed
    <2>2. CASE ~ws.cloned
        BY <2>2 DEF Inv, Shapes, Fields, OnBranch, EnsureCheckout
    <2> QED
        BY <2>1, <2>2
<1>2. /\ Fields(b) /\ OnBranch(b) /\ b.base = v.base /\ b.head = v.head
      /\ b.index = v.index /\ b.work = v.work
    <2> HIDE DEF v
    <2> QED
        BY <1>1 DEF EnsureBranch, Fields, OnBranch
<1> HIDE DEF v, b
<1>3. OfMain(b) /\ \A p \in Paths \ touched : Clean(b, p)
    BY <1>1, <1>2 DEF Inv, Untouched, OfMain, Clean
<1>4. Found(b)
    BY <1>1, <1>2, <1>3 DEF Found
<1> QED
    BY <1>2, <1>4 DEF b, v

-----------------------------------------------------------------------------
(* The end of an execution *)

\* An execution that somebody waits for brings what is accepted with it; the writes
\* of one that nobody waits for are late.
LEMMA EndsKeepsInv ==
    ASSUME Inv, NEW e \in Executions, NEW result \in Results, NEW v, NEW w,
           Found(v), Leaves(v, w), result = "success" => OnBranch(v),
           Ends(e, result, v, w), UNCHANGED <<main, remote, pr, backend, tester>>
    PROVE  Inv'
<1> DEFINE written == {p \in Paths : w.work[p] # v.work[p]}
           waited == task.call = e
<1>1. /\ ws' = w /\ touched' = touched \union written
      /\ exec' = [exec EXCEPT ![e] = [pc |-> "answered", batch |-> 0, result |-> result]]
    BY DEF Ends
<1>2. /\ ~waited => task' = task
      /\ waited => task' = [task EXCEPT !.call = 0,
                               !.stage = IF result = "success" THEN "review"
                                         ELSE "failed_coding"]
      /\ accepted' = IF waited /\ result = "success" THEN w.work ELSE accepted
      /\ late' = IF waited THEN IF result = "success" THEN {} ELSE late
                 ELSE late \union written
      /\ tested' = IF waited /\ result = "success" THEN {} ELSE tested
    BY DEF Ends
<1>3. /\ waited => /\ task'.call = 0
                   /\ result = "success" => task'.stage = "review"
                   /\ result # "success" => task'.stage = "failed_coding"
      /\ DOMAIN task' = DOMAIN task
    BY <1>2 DEF Inv, Shapes
<1>4. \A p \in Paths \ written : w.work[p] = v.work[p]
    OBVIOUS
<1> HIDE DEF written, waited
<1>5. Shapes'
    <2>1. exec' \in [Executions -> [pc : Pcs, batch : Nat, result : Results \union {"none"}]]
        BY <1>1 DEF Inv, Shapes, Pcs, Dead
    <2> QED
        BY <1>1, <1>3, <2>1 DEF Inv, Shapes, Leaves, Fields
<1>6. Untouched'
    <2>1. OfMain(ws)'
        BY <1>1 DEF OfMain, Found, Leaves
    <2>2. ASSUME NEW p \in Paths \ touched' PROVE Clean(w, p)
        BY <1>1, <1>4, <2>2 DEF Found, Leaves, Clean
    <2> QED
        BY <1>1, <2>1, <2>2 DEF Untouched, Clean
<1>7. Prepared'
    <2>1. OnBranch(ws) => OnBranch(w)
        BY DEF Found, Leaves
    <2>2. task'.call # 0 => task'.stage = "coding"
        BY <1>2, <1>3 DEF Inv, Prepared
    <2>3. task'.stage \in Behind => OnBranch(w)
        <3>1. CASE waited
            BY <1>3, <3>1 DEF Behind, Leaves
        <3>2. CASE ~waited
            BY <1>2, <2>1, <3>2 DEF Inv, Prepared
        <3> QED
            BY <3>1, <3>2
    <2>4. ASSUME NEW f \in Executions, exec'[f].pc \in Attempts \union {"openhands"}
          PROVE  OnBranch(w)
        <3>1. exec'[f].pc = exec[f].pc
            BY <1>1, <2>4 DEF Inv, Shapes, Attempts
        <3> QED
            BY <2>1, <2>4, <3>1 DEF Inv, Prepared
    <2>5. OnBranch(ws)' <=> OnBranch(w)
        BY <1>1 DEF OnBranch
    <2>6. tester' # "idle" => OnBranch(w)
        BY <2>1 DEF Inv, Prepared
    <2>7. tester' = "awaited" => task'.stage = "testing"
        <3>1. CASE ~waited
            BY <1>2, <3>1 DEF Inv, Prepared
        <3>2. CASE waited
            <4>1. e # 0 /\ task.call # 0
                BY <3>2, BoundsAssumption DEF waited
            <4>2. task.stage = "coding"
                BY <4>1 DEF Inv, Prepared
            <4> QED
                BY <4>2 DEF Inv, Prepared
        <3> QED
            BY <3>1, <3>2
    <2> QED
        BY <2>2, <2>3, <2>4, <2>5, <2>6, <2>7 DEF Prepared
<1>8. Accepted'
    <2>1. CASE waited /\ result = "success"
        BY <1>1, <1>2, <1>3, <2>1 DEF Accepted, Behind, Allowed
    <2>2. CASE waited /\ result # "success"
        BY <1>3, <2>2 DEF Accepted, Behind
    <2>3. CASE ~waited
        <3> SUFFICES ASSUME NEW p \in Paths \ late', task.stage \in Behind
                     PROVE  /\ w.work[p] \in Allowed(p)
                            /\ task.stage \in {"push", "api", "pull_request"}
                               => w.head[p] \in Allowed(p)
                            /\ task.stage = "pull_request" => OnGitHub(p)'
            BY <1>1, <1>2, <2>3 DEF Accepted, Behind, Allowed
        <3>1. p \in Paths \ late /\ p \notin written
            BY <1>2, <2>3
        <3>2. /\ v.base = ws.base /\ v.head = ws.head /\ v.work = ws.work
              /\ w.base = v.base
            BY DEF Inv, Prepared, Found, Leaves
        <3>3. w.work[p] \in Allowed(p)
            BY <1>4, <3>1, <3>2 DEF Inv, Accepted
        <3>4. task.stage \in {"push", "api", "pull_request"} => w.head[p] \in Allowed(p)
            BY <3>1, <3>2, <3>3 DEF Inv, Accepted, Leaves
        <3>5. task.stage = "pull_request" => OnGitHub(p)'
            BY <1>1, <1>2, <2>3, <3>1, <3>2 DEF Inv, Accepted, OnGitHub
        <3> QED
            BY <3>3, <3>4, <3>5
    <2> QED
        BY <2>1, <2>2, <2>3
<1> QED
    BY <1>5, <1>6, <1>7, <1>8 DEF Inv

\* The same of the answers that are a success or a failure.
LEMMA AnswerKeepsInv ==
    ASSUME Inv, NEW e \in Executions, NEW success, NEW v, NEW w,
           Found(v), Leaves(v, w), OnBranch(v) \/ ~success,
           Answer(e, success, v, w), UNCHANGED <<main, remote, pr, backend, tester>>
    PROVE  Inv'
<1> DEFINE result == IF success THEN "success" ELSE "failure"
<1>1. result \in Results /\ (result = "success" => OnBranch(v))
    BY DEF Results
<1>2. Ends(e, result, v, w)
    BY DEF Answer
<1> HIDE DEF result
<1> QED
    BY <1>1, <1>2, EndsKeepsInv

-----------------------------------------------------------------------------
(* One lemma per action of the coding worker *)

\* The fast paths edit one file through a plan, or answer without one.
LEMMA FastPathsKeepInv ==
    ASSUME Inv, NEW e \in Executions, NEW v, Found(v), OnBranch(v),
           ReadmeFastPath(e, v) \/ TimeoutFastPath(e, v),
           UNCHANGED <<main, remote, pr, backend, tester>>
    PROVE  Inv'
<1>1. Fields(v)
    BY DEF Found
<1>2. ASSUME NEW success, Answer(e, success, v, v) PROVE Inv'
    BY <1>1, <1>2, LeftAsItIs, AnswerKeepsInv
<1>3. ASSUME NEW success, NEW tree, Answer(e, success, v, Written(v, tree)) PROVE Inv'
    BY <1>1, <1>3, LeftWritten, AnswerKeepsInv
<1>4. CASE ReadmeFastPath(e, v)
    BY <1>2, <1>3, <1>4, Zenon DEF ReadmeFastPath
<1>5. CASE TimeoutFastPath(e, v)
    BY <1>2, <1>3, <1>5, Zenon DEF TimeoutFastPath
<1> QED
    BY <1>4, <1>5

\* git revert commits the files it changed, or leaves them unmerged.
LEMMA GitRevertKeepsInv ==
    ASSUME Inv, NEW e \in Executions, NEW v, Found(v), OnBranch(v), GitRevert(e, v),
           UNCHANGED <<main, remote, pr, backend, tester>>
    PROVE  Inv'
<1> DEFINE reverted == [v.head EXCEPT ![Target] = <<Mark>>]
           done == [v EXCEPT !.head = reverted, !.index = reverted, !.work = reverted]
           conflict == [v.work EXCEPT ![Target] = <<"conflict">>]
           stuck == [v EXCEPT !.unmerged = TRUE, !.work[Target] = <<"conflict">>]
<1>1. Fields(v)
    BY DEF Found
<1>2. Leaves(v, done)
    <2> HIDE DEF reverted
    <2> QED
        BY <1>1 DEF Leaves, Fields, OnBranch
<1>3. Leaves(v, stuck)
    <2>1. stuck = [v EXCEPT !.unmerged = TRUE, !.work = conflict]
        BY <1>1 DEF Fields
    <2> HIDE DEF conflict, stuck
    <2> QED
        BY <1>1, <2>1 DEF Leaves, Fields, OnBranch
<1>4. \/ Answer(e, FALSE, v, v)
      \/ \E success : Answer(e, success, v, done)
      \/ Answer(e, FALSE, v, stuck)
    BY Zenon DEF GitRevert
<1> HIDE DEF done, stuck
<1> QED
    BY <1>1, <1>2, <1>3, <1>4, LeftAsItIs, AnswerKeepsInv

\* The first step of an execution: it answers at once, or goes on with a prepared checkout.
LEMMA PrepareKeepsInv ==
    ASSUME Inv, NEW e \in Executions, Prepare(e) PROVE Inv'
<1> DEFINE v == EnsureBranch(EnsureCheckout(ws))
<1>1. Found(v) /\ OnBranch(v) /\ Fields(v)
    BY FoundPrepared DEF Found
<1>2. UNCHANGED <<main, remote, pr, backend, tester>>
    BY DEF Prepare
<1>3. \/ Answer(e, FALSE, ws, ws)
      \/ GitRevert(e, v) \/ ReadmeFastPath(e, v) \/ TimeoutFastPath(e, v)
      \/ Answer(e, FALSE, v, v)
      \/ /\ ws' = v /\ UNCHANGED <<task, touched, accepted, late, tested>>
         /\ \E pc \in Pcs : exec' = [exec EXCEPT ![e] = [pc |-> pc, batch |-> 1, result |-> "none"]]
    <2>1. "initial" \in Pcs /\ "openhands" \in Pcs
        BY DEF Pcs, Attempts
    <2> HIDE DEF v
    <2> QED
        BY <2>1, Zenon DEF Prepare, v
<1> HIDE DEF v
<1>4. CASE Answer(e, FALSE, ws, ws)
    BY <1>2, <1>4, FoundAsItIs, LeftAsItIs, AnswerKeepsInv DEF Inv, Shapes
<1>5. CASE GitRevert(e, v) \/ ReadmeFastPath(e, v) \/ TimeoutFastPath(e, v)
    BY <1>1, <1>2, <1>5, GitRevertKeepsInv, FastPathsKeepInv
<1>6. CASE Answer(e, FALSE, v, v)
    BY <1>1, <1>2, <1>6, LeftAsItIs, AnswerKeepsInv
<1>7. CASE /\ ws' = v /\ UNCHANGED <<task, touched, accepted, late, tested>>
           /\ \E pc \in Pcs : exec' = [exec EXCEPT ![e] = [pc |-> pc, batch |-> 1, result |-> "none"]]
    <2>1. Shapes'
        BY <1>1, <1>7 DEF Inv, Shapes, Fields
    <2>2. Untouched'
        BY <1>1, <1>2, <1>7 DEF Untouched, Found, OfMain, Clean
    <2>3. Prepared'
        BY <1>1, <1>2, <1>7 DEF Inv, Prepared, OnBranch
    <2>4. Accepted'
        <3>1. task.stage \in Behind => v.base = ws.base /\ v.head = ws.head /\ v.work = ws.work
            BY <1>1 DEF Inv, Prepared, Found
        <3> QED
            BY <1>2, <1>7, <3>1 DEF Inv, Accepted, OnGitHub, Allowed, Behind
    <2> QED
        BY <2>1, <2>2, <2>3, <2>4 DEF Inv
<1> QED
    BY <1>3, <1>4, <1>5, <1>6, <1>7

\* A clone that fails leaves no checkout behind.
LEMMA CloneFailsKeepsInv ==
    ASSUME Inv, NEW e \in Executions, CloneFails(e) PROVE Inv'
BY FoundAsItIs, LeftAsItIs, AnswerKeepsInv DEF Inv, Shapes, CloneFails

\* A plan, applied or rolled back, writes the working tree only.
LEMMA AttemptPlansKeepsInv ==
    ASSUME Inv, NEW e \in Executions, AttemptPlans(e) PROVE Inv'
<1>1. /\ Found(ws) /\ Fields(ws) /\ OnBranch(ws)
      /\ UNCHANGED <<main, remote, pr, backend, tester>>
    BY FoundAsItIs DEF Inv, Shapes, Prepared, Attempts, AttemptPlans
<1>2. CASE Answer(e, FALSE, ws, ws)
    BY <1>1, <1>2, LeftAsItIs, AnswerKeepsInv
<1>3. ASSUME NEW plan, ApplyPlan(e, ws, plan) PROVE Inv'
    <2>1. PICK r \in ApplyEditPlan(ws.work, plan) :
             Ends(e, CASE ~r.ok -> "rolled_back"
                       [] r.ok /\ CurrentDiff(Written(ws, r.tree)) = {} -> "failure"
                       [] OTHER -> "success", ws, Written(ws, r.tree))
        BY <1>3, Zenon DEF ApplyPlan
    <2> DEFINE result == CASE ~r.ok -> "rolled_back"
                           [] r.ok /\ CurrentDiff(Written(ws, r.tree)) = {} -> "failure"
                           [] OTHER -> "success"
    <2>2. result \in Results
        BY DEF Results
    <2>3. Leaves(ws, Written(ws, r.tree))
        BY <1>1, LeftWritten
    <2> HIDE DEF result
    <2>4. Ends(e, result, ws, Written(ws, r.tree))
        BY <2>1 DEF result
    <2> QED
        BY <1>1, <2>2, <2>3, <2>4, EndsKeepsInv
<1>4. \/ Answer(e, FALSE, ws, ws)
      \/ \E plan : ApplyPlan(e, ws, plan)
    BY Zenon DEF AttemptPlans
<1> QED
    BY <1>2, <1>3, <1>4

\* The attempt after one that was empty.
LEMMA NextAttemptIs ==
    ASSUME NEW R, NEW x \in [pc : Pcs, batch : Nat, result : R], NEW error \in BOOLEAN
    PROVE  NextAttempt(x, error) \in [pc : Attempts, batch : Nat, result : R]
<1>1. CASE x.pc = "initial" /\ ~error
    BY <1>1 DEF NextAttempt, Attempts
<1>2. CASE x.pc = "no-op-retry" \/ (x.pc = "initial" /\ error)
    <2>1. NextAttempt(x, error) = [x EXCEPT !.pc = "contract-recovery"]
        BY <1>2, Zenon DEF NextAttempt
    <2> QED
        BY <2>1 DEF Attempts
<1>3. CASE ~(x.pc = "initial" /\ ~error)
           /\ ~(x.pc = "no-op-retry" \/ (x.pc = "initial" /\ error))
    <2>1. NextAttempt(x, error) = [x EXCEPT !.pc = "initial", !.batch = @ + 1]
        BY <1>3, Zenon DEF NextAttempt
    <2>2. x.batch + 1 \in Nat
        OBVIOUS
    <2> QED
        BY <2>1, <2>2 DEF Attempts
<1> QED
    BY <1>1, <1>2, <1>3

\* An empty attempt writes nothing, whether it is asked again or is the last.
LEMMA AttemptIsEmptyKeepsInv ==
    ASSUME Inv, NEW e \in Executions, AttemptIsEmpty(e) PROVE Inv'
<1>1. /\ Found(ws) /\ Fields(ws) /\ OnBranch(ws) /\ exec[e].pc \in Attempts
      /\ UNCHANGED <<main, remote, pr, backend, tester>>
    BY FoundAsItIs DEF Inv, Shapes, Prepared, Attempts, AttemptIsEmpty
<1>2. CASE Answer(e, FALSE, ws, ws)
    BY <1>1, <1>2, LeftAsItIs, AnswerKeepsInv
<1>3. CASE /\ UNCHANGED <<ws, task, touched, accepted, late, tested>>
           /\ \E error \in BOOLEAN : exec' = [exec EXCEPT ![e] = NextAttempt(exec[e], error)]
    <2>1. PICK error \in BOOLEAN : exec' = [exec EXCEPT ![e] = NextAttempt(exec[e], error)]
        BY <1>3
    <2>2. exec[e] \in [pc : Pcs, batch : Nat, result : Results \union {"none"}]
        BY DEF Inv, Shapes
    <2>3. NextAttempt(exec[e], error) \in
             [pc : Attempts, batch : Nat, result : Results \union {"none"}]
        BY <1>1, <2>2, NextAttemptIs
    <2>4. Shapes'
        BY <1>3, <2>1, <2>3 DEF Inv, Shapes, Pcs
    <2>5. Prepared'
        BY <1>1, <1>3, <2>1 DEF Inv, Prepared, OnBranch, Shapes
    <2>6. Untouched' /\ Accepted'
        BY <1>1, <1>3 DEF Inv, Untouched, OfMain, Clean, Accepted, OnGitHub, Allowed
    <2> QED
        BY <2>4, <2>5, <2>6 DEF Inv
<1> QED
    BY <1>2, <1>3, Zenon DEF AttemptIsEmpty

\* The OpenHands adapter writes the working tree only.
LEMMA OpenHandsKeepsInv ==
    ASSUME Inv, NEW e \in Executions, OpenHandsAnswers(e) PROVE Inv'
<1> DEFINE content == [ws.work EXCEPT ![Target] = <<Mark>>]
           marked == [ws EXCEPT !.work[Target] = <<Mark>>]
<1>1. /\ Found(ws) /\ Fields(ws) /\ OnBranch(ws)
      /\ UNCHANGED <<main, remote, pr, backend, tester>>
    BY FoundAsItIs DEF Inv, Shapes, Prepared, OpenHandsAnswers
<1>2. Leaves(ws, marked)
    <2>1. marked = Written(ws, content)
        BY <1>1 DEF Fields, Written
    <2> HIDE DEF marked, content
    <2> QED
        BY <1>1, <2>1, LeftWritten
<1>3. \/ \E success : Answer(e, success, ws, ws)
      \/ Answer(e, TRUE, ws, marked)
    BY Zenon DEF OpenHandsAnswers
<1> HIDE DEF marked
<1> QED
    BY <1>1, <1>2, <1>3, LeftAsItIs, AnswerKeepsInv

-----------------------------------------------------------------------------
(* The orchestrator, GitHub and others *)

\* What a step of the orchestrator must say of the stage it goes on to, when it
\* leaves the files alone.
LEMMA StageKeepsInv ==
    ASSUME Inv, Shapes', UNCHANGED <<main, ws, touched, accepted, late, tested>>,
           tester' # "idle" => tester # "idle" \/ task.stage = "testing",
           tester' = "awaited" => task'.stage = "testing",
           task'.call # 0 => task'.stage = "coding",
           \A e \in Executions : exec'[e].pc \in Attempts \union {"openhands"}
                                 => exec[e].pc \in Attempts \union {"openhands"},
           task'.stage \in Behind => task.stage \in Behind,
           task'.stage \in {"push", "api", "pull_request"}
              => task.stage \in {"push", "api", "pull_request"},
           task'.stage = "pull_request" => \A p \in Paths \ late : OnGitHub(p)'
    PROVE  Inv'
<1>1. Untouched'
    BY DEF Inv, Untouched, OfMain, Clean
<1>2. Prepared'
    BY DEF Inv, Prepared, OnBranch, Behind
<1>3. Accepted'
    BY DEF Inv, Accepted, OnGitHub, Allowed
<1> QED
    BY <1>1, <1>2, <1>3 DEF Inv

\* A step that goes on to a stage keeps the shape of the task.
LEMMA AdvanceIs ==
    ASSUME Inv, NEW stage, Advance(stage)
    PROVE  /\ DOMAIN task' = DOMAIN task
           /\ task'.stage = stage /\ task'.call = task.call
BY DEF Inv, Shapes, Advance

\* Posting, losing and giving up a call, or its worker, touches no file.
LEMMA CallsKeepInv ==
    ASSUME Inv, Post \/ ConnectionBreaks \/ StageTimesOut \/ WorkerRestarts
    PROVE  Inv'
<1>1. UNCHANGED <<main, ws, remote, touched, accepted, late, tester, tested>>
    BY DEF Post, ConnectionBreaks, StageTimesOut, WorkerRestarts
<1>2. CASE Post
    <2>1. /\ task.stage = "coding"
          /\ task' = [task EXCEPT !.call = NextCall, !.posts = @ + 1]
          /\ exec' = [exec EXCEPT ![NextCall].pc = "prepare"]
        BY <1>2 DEF Post
    <2>2. DOMAIN task' = DOMAIN task /\ task'.stage = "coding"
        BY <2>1 DEF Inv, Shapes
    <2>3. /\ exec' \in [Executions -> [pc : Pcs, batch : Nat, result : Results \union {"none"}]]
          /\ \A e \in Executions : exec'[e].pc \in {exec[e].pc, "prepare"}
        BY <2>1 DEF Inv, Shapes, Pcs
    <2>4. Shapes'
        BY <1>1, <2>2, <2>3 DEF Inv, Shapes, Fields
    <2>5. tester' # "awaited"
        BY <1>1, <2>1 DEF Inv, Prepared
    <2> QED
        BY <1>1, <2>2, <2>3, <2>4, <2>5, StageKeepsInv DEF Behind, Attempts
<1>3. CASE ConnectionBreaks \/ StageTimesOut
    <2>1. /\ task.call # 0 /\ exec' = exec
          /\ \/ task' = [task EXCEPT !.call = 0]
             \/ task' = [task EXCEPT !.call = 0, !.stage = "failed_coding"]
        BY <1>3 DEF ConnectionBreaks, StageTimesOut
    <2>2. /\ DOMAIN task' = DOMAIN task /\ task'.call = 0
          /\ task'.stage \in {"coding", "failed_coding"}
        BY <2>1 DEF Inv, Shapes, Prepared
    <2>3. Shapes'
        BY <1>1, <2>1, <2>2 DEF Inv, Shapes, Fields
    <2>4. tester' # "awaited"
        BY <1>1, <2>1 DEF Inv, Prepared
    <2> QED
        BY <1>1, <2>1, <2>2, <2>3, <2>4, StageKeepsInv DEF Behind
<1>4. CASE WorkerRestarts
    <2>1. /\ task' = task
          /\ exec' = [e \in Executions |->
                         IF exec[e].pc \in Dead THEN exec[e]
                         ELSE [pc |-> "gone", batch |-> 0, result |-> "none"]]
        BY <1>4 DEF WorkerRestarts
    <2>2. /\ exec' \in [Executions -> [pc : Pcs, batch : Nat, result : Results \union {"none"}]]
          /\ \A e \in Executions : exec'[e].pc \in {exec[e].pc, "gone"}
        BY <2>1 DEF Inv, Shapes, Pcs, Dead
    <2>3. Shapes'
        BY <1>1, <2>1, <2>2 DEF Inv, Shapes, Fields
    <2> QED
        BY <1>1, <2>1, <2>2, <2>3, StageKeepsInv
           DEF Inv, Prepared, Accepted, OnGitHub, Allowed, Attempts
<1> QED
    BY <1>2, <1>3, <1>4

\* The review and the preflight only read the diff.
LEMMA ReviewKeepsInv ==
    ASSUME Inv, Review \/ Preflight PROVE Inv'
<1>1. /\ task.stage \in {"review", "preflight"}
      /\ UNCHANGED <<main, ws, exec, remote, touched, accepted, late, tester, tested>>
      /\ \/ \E stage \in {"failed_coding", "preflight", "commit", "failed_github"} : Advance(stage)
         \/ task' = [task EXCEPT !.stage = "testing", !.posts = 0]
    BY DEF Review, Preflight
<1>2. /\ DOMAIN task' = DOMAIN task /\ task'.call = task.call
      /\ task'.stage \in {"failed_coding", "testing", "preflight", "commit", "failed_github"}
    BY <1>1, AdvanceIs DEF Inv, Shapes
<1>3. Shapes'
    BY <1>1, <1>2 DEF Inv, Shapes, Fields
<1>4. task.call = 0
    BY <1>1 DEF Inv, Prepared
<1>5. tester' # "awaited"
    BY <1>1 DEF Inv, Prepared
<1> QED
    BY <1>1, <1>2, <1>3, <1>4, <1>5, StageKeepsInv DEF Behind

\* The tests begin and end on a checkout that was accepted.
LEMMA TestsKeepInv ==
    ASSUME Inv, PostTests \/ TestsEnd \/ TestsAreLost PROVE Inv'
<1>1. UNCHANGED <<main, ws, exec, remote, touched, accepted, late, tested>>
    BY DEF PostTests, TestsEnd, TestsAreLost
<1>2. /\ tester' # "idle" => tester # "idle" \/ task.stage = "testing"
      /\ \/ task.stage = "testing" /\ task' = [task EXCEPT !.posts = @ + 1]
         \/ task' = task
         \/ task.stage = "testing" /\ Advance("preflight")
         \/ task.stage = "testing" /\ Advance("failed_testing")
    BY DEF PostTests, TestsEnd, TestsAreLost, Inv, Prepared
<1>3. /\ DOMAIN task' = DOMAIN task /\ task'.call = task.call
      /\ \/ task'.stage = task.stage
         \/ task.stage = "testing" /\ task'.stage \in {"preflight", "failed_testing"}
      /\ tester' = "awaited" => task'.stage = "testing"
    BY <1>2, AdvanceIs DEF Inv, Shapes, Prepared, PostTests, TestsEnd, TestsAreLost
<1>4. Shapes'
    BY <1>1, <1>3 DEF Inv, Shapes, Fields
<1> QED
    BY <1>1, <1>2, <1>3, <1>4, StageKeepsInv DEF Inv, Prepared, Accepted, OnGitHub, Allowed, Behind

\* A test command writes a file of the working tree that it may write.
LEMMA CommandWritesKeepsInv ==
    ASSUME Inv, CommandWrites PROVE Inv'
<1>1. PICK q \in Paths, c \in UNION {TestOutputs[x] : x \in Paths} :
         /\ c \in TestOutputs[q]
         /\ ws' = [ws EXCEPT !.work = [ws.work EXCEPT ![q] = c]]
         /\ touched' = touched \union {q} /\ tested' = tested \union {q}
    BY Zenon DEF CommandWrites
<1>2. UNCHANGED <<main, exec, task, remote, accepted, late, tester>> /\ tester # "idle"
    BY DEF CommandWrites
<1> DEFINE tree == [ws.work EXCEPT ![q] = c]
<1>3. \A p \in Paths : tree[p] = ws.work[p] \/ (p = q /\ tree[p] = c) \/ (p = q /\ tree = ws.work)
    OBVIOUS
<1>4. ws' = [ws EXCEPT !.work = tree]
    BY <1>1
<1> HIDE DEF tree
<1>5. /\ Fields(ws') /\ ws'.base = ws.base /\ ws'.work = tree
      /\ ws'.index = ws.index /\ ws'.head = ws.head
      /\ OnBranch(ws) => OnBranch(ws')
    BY <1>4 DEF Inv, Shapes, Fields, OnBranch
<1>6. Shapes'
    BY <1>2, <1>5 DEF Inv, Shapes
<1>7. Untouched'
    BY <1>1, <1>2, <1>3, <1>5 DEF Inv, Untouched, OfMain, Clean
<1>8. Prepared'
    BY <1>2, <1>5 DEF Inv, Prepared
<1>9. Accepted'
    <2> SUFFICES ASSUME NEW p \in Paths \ late
                 PROVE  /\ task.stage \in Behind => tree[p] \in Allowed(p)'
                        /\ task.stage \in {"push", "api", "pull_request"} => ws.head[p] \in Allowed(p)'
                        /\ task.stage = "pull_request" => OnGitHub(p)'
        BY <1>2, <1>5 DEF Accepted
    <2>1. Allowed(p) \subseteq Allowed(p)' /\ (p = q => c \in Allowed(p)')
        BY <1>1, <1>2 DEF Allowed
    <2>2. OnGitHub(p) => OnGitHub(p)'
        BY <1>1, <1>2, <1>5 DEF OnGitHub
    <2> QED
        BY <1>3, <2>1, <2>2 DEF Inv, Accepted
<1> QED
    BY <1>6, <1>7, <1>8, <1>9 DEF Inv

\* What is committed is what was accepted, but for late writes.
LEMMA CommitKeepsInv ==
    ASSUME Inv, Commit PROVE Inv'
<1>1. /\ task.stage = "commit" /\ Advance("push")
      /\ ws' = [ws EXCEPT !.index = ws.work, !.head = ws.work, !.unmerged = FALSE]
      /\ UNCHANGED <<main, exec, remote, touched, accepted, late, tester, tested>>
    BY DEF Commit
<1>2. DOMAIN task' = DOMAIN task /\ task'.stage = "push" /\ task'.call = task.call
    BY <1>1, AdvanceIs
<1>3. /\ Fields(ws') /\ ws'.base = ws.base /\ ws'.work = ws.work
      /\ ws'.index = ws.work /\ ws'.head = ws.work
      /\ OnBranch(ws) => OnBranch(ws')
    BY <1>1 DEF Inv, Shapes, Fields, OnBranch
<1>4. Shapes'
    BY <1>1, <1>2, <1>3 DEF Inv, Shapes
<1>5. Untouched'
    BY <1>1, <1>3 DEF Inv, Untouched, OfMain, Clean
<1>6. Prepared'
    BY <1>1, <1>2, <1>3 DEF Inv, Prepared, Behind, OnBranch
<1>7. Accepted'
    BY <1>1, <1>2, <1>3 DEF Inv, Accepted, Behind, Allowed
<1> QED
    BY <1>4, <1>5, <1>6, <1>7 DEF Inv

\* Either way of publishing puts on GitHub what was committed.
LEMMA PublishingKeepsInv ==
    ASSUME Inv, Push \/ PublishViaApi PROVE Inv'
<1>1. /\ task.stage \in {"push", "api"}
      /\ UNCHANGED <<main, ws, exec, touched, accepted, late, tester, tested>>
      /\ \E stage \in {"pull_request", "api", "failed_github"} : Advance(stage)
    BY DEF Push, PublishViaApi
<1>2. /\ DOMAIN task' = DOMAIN task /\ task'.call = task.call
      /\ task'.stage \in {"pull_request", "api", "failed_github"}
    BY <1>1, AdvanceIs
<1>3. Shapes'
    BY <1>1, <1>2 DEF Inv, Shapes, Fields
<1>4. task.call = 0
    BY <1>1 DEF Inv, Prepared
<1>5. ASSUME task'.stage = "pull_request", NEW p \in Paths \ late
      PROVE  OnGitHub(p)'
    <2>1. /\ ws.work[p] \in Allowed(p) /\ ws.head[p] \in Allowed(p)
          /\ ws.base[p] \in {Initial[p], main[p]}
        BY <1>1, <1>5 DEF Inv, Accepted, Behind, Untouched, OfMain
    <2>2. \/ remote' = [by |-> "push", tree |-> ws.head]
          \/ remote' = [by |-> "api", tree |-> Overlay]
        BY <1>5, AdvanceIs DEF Push, PublishViaApi
    <2>3. CASE remote' = [by |-> "push", tree |-> ws.head]
        BY <1>1, <2>1, <2>3 DEF OnGitHub, Allowed
    <2>4. CASE remote' = [by |-> "api", tree |-> Overlay]
        <3>1. remote'.tree[p] = IF ws.head[p] = ws.base[p] THEN main[p]
                                ELSE IF ws.head[p] = Absent THEN Absent ELSE ws.work[p]
            BY <2>4 DEF Overlay, CommittedPaths
        <3> QED
            BY <1>1, <2>1, <3>1 DEF OnGitHub, Allowed
    <2> QED
        BY <2>2, <2>3, <2>4
<1>6. tester' # "awaited"
    BY <1>1 DEF Inv, Prepared
<1> QED
    BY <1>1, <1>2, <1>3, <1>4, <1>5, <1>6, StageKeepsInv DEF Behind

\* Opening the pull request, or failing to, leaves the branch as it was published.
LEMMA OpenPullRequestKeepsInv ==
    ASSUME Inv, OpenPullRequest PROVE Inv'
<1>1. /\ task.stage = "pull_request"
      /\ UNCHANGED <<main, ws, exec, remote, touched, accepted, late, tester, tested>>
      /\ \E stage \in {"done", "failed_github"} : Advance(stage)
    BY DEF OpenPullRequest
<1>2. /\ DOMAIN task' = DOMAIN task /\ task'.call = task.call
      /\ task'.stage \in {"done", "failed_github"}
    BY <1>1, AdvanceIs
<1>3. Shapes'
    BY <1>1, <1>2 DEF Inv, Shapes, Fields
<1>4. task.call = 0
    BY <1>1 DEF Inv, Prepared
<1>5. tester' # "awaited"
    BY <1>1 DEF Inv, Prepared
<1> QED
    BY <1>1, <1>2, <1>3, <1>4, <1>5, StageKeepsInv DEF Behind

\* A restart at the tests or the publication keeps what is accepted; one at coding has it made anew.
LEMMA RestartTaskKeepsInv ==
    ASSUME Inv, RestartTask PROVE Inv'
<1>1. /\ UNCHANGED <<main, ws, exec, remote, touched, accepted, late, tester, tested>>
      /\ task.stage # "testing"
      /\ \E stage \in {"coding", "testing", "preflight"} :
            /\ stage = "testing" => task.stage = "failed_testing"
            /\ stage = "preflight" => task.stage = "failed_github"
            /\ task' = [stage |-> stage, call |-> 0, posts |-> 0,
                        restarts |-> task.restarts + 1]
    BY DEF RestartTask
<1>2. /\ DOMAIN task' = {"stage", "call", "posts", "restarts"} /\ task'.call = 0
      /\ \/ task'.stage = "coding"
         \/ task'.stage = "testing" /\ task.stage = "failed_testing"
         \/ task'.stage = "preflight" /\ task.stage = "failed_github"
    BY <1>1
<1>3. Shapes'
    BY <1>1, <1>2 DEF Inv, Shapes, Fields
<1>4. tester' # "awaited"
    BY <1>1 DEF Inv, Prepared
<1> QED
    BY <1>1, <1>2, <1>3, <1>4, StageKeepsInv DEF Behind

\* The base branch moves once, from where it was at first.
LEMMA OthersMergeKeepsInv ==
    ASSUME Inv, OthersMerge PROVE Inv'
<1>1. main = Initial /\ UNCHANGED <<ws, exec, task, remote, touched, accepted, late, tester, tested>>
    BY DEF OthersMerge
<1>2. Shapes' /\ Prepared'
    BY <1>1 DEF Inv, Shapes, Fields, Prepared, OnBranch
<1>3. Untouched' /\ Accepted'
    BY <1>1 DEF Inv, Untouched, OfMain, Clean, Accepted, OnGitHub, Allowed
<1> QED
    BY <1>2, <1>3 DEF Inv

\* A step that changes nothing keeps the invariant.
LEMMA StutterKeepsInv ==
    ASSUME Inv, UNCHANGED vars PROVE Inv'
BY DEF Inv, vars, Shapes, Fields, Untouched, OfMain, Clean, Prepared, OnBranch,
       Accepted, OnGitHub, Allowed

-----------------------------------------------------------------------------
(* Theorems *)

\* The initial states satisfy the invariant.
LEMMA InitInv == Init => Inv
<1> SUFFICES ASSUME Init PROVE Inv
    OBVIOUS
<1>1. Shapes
    BY DEF Init, NoWorkspace, Shapes, Fields, Pcs, Dead
<1>2. Untouched
    BY DEF Init, NoWorkspace, Untouched, OfMain, Clean
<1>3. Prepared /\ Accepted
    BY DEF Init, Prepared, Accepted, Attempts, Behind
<1> QED
    BY <1>1, <1>2, <1>3 DEF Inv

\* The inductive invariant holds in every reachable state.
THEOREM InvariantHolds == Spec => []Inv
<1>1. Inv /\ [Next]_vars => Inv'
    <2> SUFFICES ASSUME Inv, [Next]_vars PROVE Inv'
        OBVIOUS
    <2>1. CASE Post \/ ConnectionBreaks \/ StageTimesOut \/ WorkerRestarts
        BY <2>1, CallsKeepInv
    <2>2. CASE Coding
        BY <2>2, PrepareKeepsInv, CloneFailsKeepsInv, AttemptPlansKeepsInv,
           AttemptIsEmptyKeepsInv, OpenHandsKeepsInv DEF Coding
    <2>3. CASE Review \/ Testing \/ Github
        BY <2>3, ReviewKeepsInv, TestsKeepInv, CommandWritesKeepsInv, CommitKeepsInv,
           PublishingKeepsInv, OpenPullRequestKeepsInv DEF Testing, Github
    <2>4. CASE RestartTask \/ OthersMerge \/ UNCHANGED vars
        BY <2>4, RestartTaskKeepsInv, OthersMergeKeepsInv, StutterKeepsInv
    <2> QED
        BY <2>1, <2>2, <2>3, <2>4 DEF Next
<1> QED
    BY <1>1, InitInv, PTL DEF Spec

\* The diff of a task shows its own writes only, whatever others merge meanwhile and
\* however many executions prepare the checkout.
THEOREM DiffHolds == Spec => []DiffIsOnlyOurs
<1>1. Inv => DiffIsOnlyOurs
    BY DEF Inv, Untouched, Clean, DiffIsOnlyOurs, CurrentDiff, Visible
<1> QED
    BY <1>1, InvariantHolds, PTL

\* The pull request shows what the coding stage answered with and what the test commands
\* made of it, but for late writes, by either way of publishing and after any number of
\* restarts.
THEOREM PublicationHolds == Spec => PublishedIsAccepted
<1>1. Inv /\ [Next]_vars =>
         (pr' /\ ~pr =>
             \A p \in Paths \ late :
                 \/ IF accepted[p] = ws.base[p] THEN remote.tree[p] \in {Initial[p], main[p]}
                    ELSE remote.tree[p] = accepted[p]
                 \/ p \in tested /\ remote.tree[p] \in TestOutputs[p]
                                           \union {accepted[p], Initial[p], main[p]})
    <2> SUFFICES ASSUME Inv, [Next]_vars, pr', ~pr, NEW p \in Paths \ late
                 PROVE  OnGitHub(p)
        BY DEF OnGitHub
    <2>1. OpenPullRequest
        BY DEF Next, vars, Post, ConnectionBreaks, StageTimesOut, WorkerRestarts, Coding,
               Prepare, CloneFails, AttemptPlans, AttemptIsEmpty, OpenHandsAnswers,
               Review, Github, Preflight, Commit, Push, PublishViaApi, RestartTask,
               OthersMerge, Testing, PostTests, CommandWrites, TestsEnd, TestsAreLost
    <2>2. task.stage = "pull_request"
        BY <2>1 DEF OpenPullRequest
    <2> QED
        BY <2>2 DEF Inv, Accepted
<1> QED
    BY <1>1, InvariantHolds, PTL DEF Spec, PublishedIsAccepted

-----------------------------------------------------------------------------
(* The loops of the patch engine *)

\* Every set of naturals has a least one.
LEMMA LeastNatural ==
    ASSUME NEW T, T \subseteq Nat, T # {}
    PROVE  \E m \in T : \A n \in T : m <= n
<1>1. PICK m \in T : \A n \in T : <<n, m>> \notin OpToRel(<, Nat)
    BY WFMin, NatLessThanWellFounded, Zenon
<1>2. \A n \in T : ~(n < m)
    BY <1>1 DEF OpToRel
<1> QED
    BY <1>2

\* A set that a loop enters, and that no turn of the loop leaves, has all its turns.
LEMMA Loops ==
    ASSUME NEW m \in Nat, NEW S, 0 \in S, \A n \in 1..m : n - 1 \in S => n \in S
    PROVE  \A n \in 0..m : n \in S
<1> DEFINE Out == {n \in 0..m : n \notin S}
<1> SUFFICES ASSUME Out # {} PROVE FALSE
    OBVIOUS
<1>1. PICK n \in Out : \A k \in Out : n <= k
    <2>1. Out \subseteq Nat
        OBVIOUS
    <2> HIDE DEF Out
    <2> QED
        BY <2>1, LeastNatural
<1>2. n # 0 /\ n - 1 \in 0..m /\ n - 1 \notin Out
    BY <1>1
<1> QED
    BY <1>1, <1>2

\* The loop of apply_edit_plan: a plan has runs after each of its operations.
LEMMA RunsOfIs ==
    ASSUME NEW before, NEW plan, Len(plan) \in Nat
    PROVE  \E after :
              /\ after[0] = {[ok |-> TRUE, tree |-> before, faulty |-> {}]}
              /\ \A n \in 1..Len(plan) : after[n] = Extend(after[n - 1], plan[n])
              /\ RunsOf(before, plan) = after[Len(plan)]
<1> DEFINE start == {[ok |-> TRUE, tree |-> before, faulty |-> {}]}
           Loop(f, m) == f = [n \in 0..m |-> IF n = 0 THEN start ELSE Extend(f[n - 1], plan[n])]
           Turns == {m \in Nat : \E f : Loop(f, m)}
<1>1. 0 \in Turns
    <2>1. Loop([n \in 0..0 |-> start], 0)
        OBVIOUS
    <2> QED
        BY <2>1
<1>2. ASSUME NEW m \in 1..Len(plan), m - 1 \in Turns PROVE m \in Turns
    <2>1. PICK f : Loop(f, m - 1)
        BY <1>2
    <2> DEFINE g == [n \in 0..m |-> IF n < m THEN f[n] ELSE Extend(f[m - 1], plan[m])]
    <2>2. \A n \in 0..m - 1 : f[n] = IF n = 0 THEN start ELSE Extend(f[n - 1], plan[n])
        BY <2>1
    <2>3. \A n \in 0..m : g[n] = IF n = 0 THEN start ELSE Extend(g[n - 1], plan[n])
        <3>1. \A n \in 0..m - 1 : n \in 0..m /\ g[n] = f[n]
            OBVIOUS
        <3>2. ASSUME NEW n \in 0..m - 1
              PROVE  g[n] = IF n = 0 THEN start ELSE Extend(g[n - 1], plan[n])
            <4>1. n # 0 => n - 1 \in 0..m - 1
                OBVIOUS
            <4> HIDE DEF g
            <4> QED
                BY <2>2, <3>1, <4>1
        <3>3. g[m] = Extend(g[m - 1], plan[m])
            OBVIOUS
        <3>4. m # 0 /\ \A n \in 0..m : n \in 0..m - 1 \/ n = m
            OBVIOUS
        <3> HIDE DEF g, start
        <3> QED
            BY <3>2, <3>3, <3>4
    <2>4. Loop(g, m)
        BY <2>3
    <2>5. m \in Nat
        OBVIOUS
    <2> HIDE DEF Loop, g
    <2> QED
        BY <2>4, <2>5
<1>3. Len(plan) \in Turns
    <2> HIDE DEF Turns
    <2>1. \A n \in 0..Len(plan) : n \in Turns
        BY <1>1, <1>2, Loops
    <2> QED
        BY <2>1
<1> DEFINE after == CHOOSE f : Loop(f, Len(plan))
<1>4. Loop(after, Len(plan))
    BY <1>3, Zenon
<1>5. RunsOf(before, plan) = after[Len(plan)]
    BY Zenon DEF RunsOf
<1> HIDE DEF after
<1>6. \A n \in 0..Len(plan) :
         after[n] = IF n = 0 THEN start ELSE Extend(after[n - 1], plan[n])
    BY <1>4
<1>7. /\ after[0] = start
      /\ \A n \in 1..Len(plan) : after[n] = Extend(after[n - 1], plan[n])
    BY <1>6
<1> QED
    BY <1>5, <1>7

\* The loop of the parser, which keeps the operations that are valid.
LEMMA ParsedAre ==
    ASSUME NEW raw \in Seq(Operations)
    PROVE  /\ ParseOperations(raw) \in Seq(Operations)
           /\ \A i \in 1..Len(ParseOperations(raw)) : ParseOperations(raw)[i].action \in EditAction
<1> DEFINE Loop(f, m) ==
              f = [n \in 0..m |->
                      IF n = 0 THEN <<>>
                      ELSE IF raw[n].action \in EditAction THEN Append(f[n - 1], raw[n])
                      ELSE f[n - 1]]
           Turns == {m \in Nat : \E f : Loop(f, m)}
<1>1. 0 \in Turns
    <2>1. Loop([n \in 0..0 |-> <<>>], 0)
        OBVIOUS
    <2> QED
        BY <2>1
<1>2. ASSUME NEW m \in 1..Len(raw), m - 1 \in Turns PROVE m \in Turns
    <2>1. PICK f : Loop(f, m - 1)
        BY <1>2
    <2> DEFINE g == [n \in 0..m |->
                        IF n < m THEN f[n]
                        ELSE IF raw[m].action \in EditAction THEN Append(f[m - 1], raw[m])
                        ELSE f[m - 1]]
    <2>2. \A n \in 0..m - 1 : f[n] = IF n = 0 THEN <<>>
                                     ELSE IF raw[n].action \in EditAction
                                     THEN Append(f[n - 1], raw[n]) ELSE f[n - 1]
        BY <2>1
    <2>3. \A n \in 0..m : g[n] = IF n = 0 THEN <<>>
                                 ELSE IF raw[n].action \in EditAction
                                 THEN Append(g[n - 1], raw[n]) ELSE g[n - 1]
        BY <2>2
    <2>4. Loop(g, m)
        BY <2>3
    <2>5. m \in Nat
        OBVIOUS
    <2> HIDE DEF Loop, g
    <2> QED
        BY <2>4, <2>5
<1>3. Len(raw) \in Turns
    <2>1. Len(raw) \in Nat
        BY LenProperties
    <2> HIDE DEF Turns
    <2>2. \A n \in 0..Len(raw) : n \in Turns
        BY <1>1, <1>2, <2>1, Loops
    <2> QED
        BY <2>1, <2>2
<1> DEFINE parsed == CHOOSE f : Loop(f, Len(raw))
<1>4. Loop(parsed, Len(raw))
    BY <1>3, Zenon
<1>5. ParseOperations(raw) = parsed[Len(raw)]
    BY Zenon DEF ParseOperations
<1> HIDE DEF parsed
<1> DEFINE Turn(n) == IF n = 0 THEN <<>>
                      ELSE IF raw[n].action \in EditAction
                      THEN Append(parsed[n - 1], raw[n]) ELSE parsed[n - 1]
<1>6. Len(raw) \in Nat /\ \A n \in 0..Len(raw) : parsed[n] = Turn(n)
    <2>1. parsed = [n \in 0..Len(raw) |-> Turn(n)]
        BY <1>4
    <2> HIDE DEF Turn
    <2> QED
        BY <2>1, LenProperties
<1> DEFINE Valid == {op \in Operations : op.action \in EditAction}
           Kept == {n \in Nat : parsed[n] \in Seq(Valid)}
<1>7. 0 \in Kept
    <2>1. parsed[0] = <<>>
        BY <1>6
    <2>2. parsed[0] \in Seq(Valid)
        BY <2>1, EmptySeq, Zenon
    <2> QED
        BY <2>2, Zenon
<1>8. ASSUME NEW n \in 1..Len(raw), n - 1 \in Kept PROVE n \in Kept
    <2>1. /\ n \in Nat /\ raw[n] \in Operations /\ parsed[n - 1] \in Seq(Valid)
          /\ parsed[n] = IF raw[n].action \in EditAction
                         THEN Append(parsed[n - 1], raw[n]) ELSE parsed[n - 1]
        BY <1>6, <1>8
    <2>2. raw[n].action \in EditAction => raw[n] \in Valid
        BY <2>1
    <2> HIDE DEF Valid
    <2>3. parsed[n] \in Seq(Valid)
        BY <2>1, <2>2, AppendProperties
    <2> QED
        BY <2>1, <2>3
<1>9. ParseOperations(raw) \in Seq(Valid)
    <2> HIDE DEF Kept
    <2>1. \A n \in 0..Len(raw) : n \in Kept
        BY <1>6, <1>7, <1>8, Loops
    <2>2. Len(raw) \in Kept
        BY <1>6, <2>1
    <2> QED
        BY <1>5, <2>2 DEF Kept
<1> DEFINE plan == ParseOperations(raw)
<1> HIDE DEF plan
<1>10. plan \in Seq(Valid)
    BY <1>9 DEF plan
<1>11. plan \in Seq(Operations) /\ \A i \in 1..Len(plan) : plan[i].action \in EditAction
    BY <1>10
<1> QED
    BY <1>11 DEF plan

-----------------------------------------------------------------------------
(* What an operation and a plan make of the files *)

\* The least element of a set of naturals is in it.
LEMMA MinIsIn ==
    ASSUME NEW T, T \subseteq Nat, T # {}
    PROVE  Min(T) \in T
BY LeastNatural DEF Min

\* A text of which lines are replaced is a text.
LEMMA SpliceIsText ==
    ASSUME NEW text \in Seq(STRING), NEW new \in Seq(STRING),
           NEW at \in Nat \ {0}, NEW count \in Nat, at - 1 <= Len(text)
    PROVE  Splice(text, at, count, new) \in Seq(STRING)
<1>1. Len(text) \in Nat /\ \A i \in 1..Len(text) : text[i] \in STRING
    BY LenProperties
<1>2. SubSeq(text, 1, at - 1) \in Seq(STRING)
    BY <1>1, SubSeqProperties
<1>3. SubSeq(text, at + count, Len(text)) \in Seq(STRING)
    BY <1>1, SubSeqProperties
<1> QED
    BY <1>2, <1>3, ConcatProperties DEF Splice

\* An anchor is found where all its lines fit in the file.
LEMMA AnchorsFit ==
    ASSUME NEW text \in Seq(STRING), NEW anchor \in Seq(STRING),
           NEW i \in FuzzyFindAnchor(text, anchor)
    PROVE  i \in 1..(Len(text) - Len(anchor) + 1)
<1>1. Len(text) \in Nat /\ Len(anchor) \in Nat
    BY LenProperties
<1>2. /\ ExactAnchors(text, anchor) \subseteq 1..(Len(text) - Len(anchor) + 1)
      /\ ExactAnchors(text, anchor) \subseteq Nat
    BY <1>1 DEF ExactAnchors
<1>3. ExactAnchors(text, anchor) # {} => Min(ExactAnchors(text, anchor)) \in ExactAnchors(text, anchor)
    BY <1>2, MinIsIn
<1> QED
    BY <1>2, <1>3 DEF FuzzyFindAnchor

\* The operations at an anchor leave a text.
LEMMA AnchoredIsText ==
    ASSUME NEW text \in Seq(STRING), NEW op \in EditOperations,
           op.action \in {"replace_block", "delete_block", "insert_before_anchor",
                          "insert_after_anchor"},
           NEW o \in Anchored(text, op)
    PROVE  o.ok \in BOOLEAN /\ o.content \in Seq(STRING)
<1>1. /\ op.anchor_text \in Seq(STRING) /\ op.new_content \in Seq(STRING)
      /\ op.expected_old_content \in Seq(STRING)
    BY DEF EditOperations
<1>2. Len(text) \in Nat /\ Len(op.anchor_text) \in Nat /\ ConsumedLines(op) \in Nat
    BY <1>1, LenProperties DEF ConsumedLines
<1>3. ASSUME NEW i \in FuzzyFindAnchor(text, op.anchor_text)
      PROVE  AnchoredAt(text, op, i) \in Seq(STRING)
    <2>1. i \in 1..(Len(text) - Len(op.anchor_text) + 1)
        BY <1>1, AnchorsFit
    <2>2. /\ i \in Nat \ {0} /\ i - 1 <= Len(text)
          /\ i + Len(op.anchor_text) \in Nat \ {0}
          /\ i + Len(op.anchor_text) - 1 <= Len(text)
        BY <1>2, <2>1
    <2>3. <<>> \in Seq(STRING)
        OBVIOUS
    <2>4. CASE op.action = "replace_block"
        BY <1>1, <1>2, <2>2, <2>4, SpliceIsText DEF AnchoredAt
    <2>5. CASE op.action = "delete_block"
        BY <1>1, <1>2, <2>2, <2>3, <2>5, SpliceIsText DEF AnchoredAt
    <2>6. CASE op.action = "insert_before_anchor"
        BY <1>1, <1>2, <2>2, <2>6, SpliceIsText DEF AnchoredAt
    <2>7. CASE op.action = "insert_after_anchor"
        <3> DEFINE after == i + Len(op.anchor_text)
        <3>1. AnchoredAt(text, op, i) = Splice(text, after, 0, op.new_content)
            BY <2>7 DEF AnchoredAt
        <3>2. after \in Nat \ {0} /\ after - 1 <= Len(text)
            BY <2>2
        <3> HIDE DEF after
        <3> QED
            BY <1>1, <3>1, <3>2, SpliceIsText
    <2> QED
        BY <2>4, <2>5, <2>6, <2>7
<1>4. \/ o = Refused(text)
      \/ \E i \in FuzzyFindAnchor(text, op.anchor_text) : o = Left(AnchoredAt(text, op, i))
    BY DEF Anchored
<1>5. CASE o = Refused(text)
    BY <1>5 DEF Refused
<1>6. ASSUME NEW i \in FuzzyFindAnchor(text, op.anchor_text), o = Left(AnchoredAt(text, op, i))
      PROVE  o.ok \in BOOLEAN /\ o.content \in Seq(STRING)
    <2>1. o.ok = TRUE /\ o.content = AnchoredAt(text, op, i)
        BY <1>6, Zenon DEF Left
    <2> QED
        BY <1>3, <2>1
<1> QED
    BY <1>4, <1>5, <1>6

\* Replacing a range of lines, or the definition of a symbol, leaves a text.
LEMMA ReplacedIsText ==
    ASSUME NEW text \in Seq(STRING), NEW op \in EditOperations,
           NEW o \in ReplaceLines(text, op) \union ReplaceSymbol(text, op)
    PROVE  o.ok \in BOOLEAN /\ o.content \in Seq(STRING)
<1>1. /\ op.new_content \in Seq(STRING) /\ op.start_line \in Nat \ {0}
      /\ op.end_line \in Nat \ {0}
    BY DEF EditOperations
<1>2. Len(text) \in Nat
    BY LenProperties
<1>3. CASE o = Refused(text)
    BY <1>3 DEF Refused
<1>4. CASE o \in ReplaceLines(text, op) /\ o # Refused(text)
    <2> DEFINE first == op.start_line - 1
               last == Min({op.end_line, Len(text)})
    <2>1. last \in Nat
        BY <1>1, <1>2, MinIsIn
    <2>2. /\ ~(first >= Len(text) \/ first > last)
          /\ o = Left(Splice(text, op.start_line, last - first, op.new_content))
        BY <1>4 DEF ReplaceLines
    <2>3. last - first \in Nat /\ op.start_line - 1 <= Len(text)
        BY <1>1, <1>2, <2>1, <2>2
    <2> QED
        BY <1>1, <2>2, <2>3, SpliceIsText DEF Left
<1>5. CASE o \in ReplaceSymbol(text, op) /\ o # Refused(text)
    <2> DEFINE found == ExactAnchors(text, <<op.symbol_name>>)
    <2>1. found # {} /\ o = Left(Splice(text, Min(found), 1, op.new_content))
        BY <1>5 DEF ReplaceSymbol
    <2>2. found \subseteq 1..Len(text) /\ found \subseteq Nat
        BY <1>2 DEF ExactAnchors
    <2> HIDE DEF found
    <2>3. Min(found) \in Nat \ {0} /\ Min(found) - 1 <= Len(text)
        <3>1. Min(found) \in found
            BY <2>1, <2>2, MinIsIn
        <3>2. Min(found) \in 1..Len(text)
            BY <2>2, <3>1, Zenon
        <3> QED
            BY <1>2, <3>2
    <2> QED
        BY <1>1, <2>1, <2>3, SpliceIsText DEF Left
<1> QED
    BY <1>3, <1>4, <1>5

\* A part of a content is a content.
LEMMA TornIsContent ==
    ASSUME NEW content \in Contents, NEW c \in Torn(content) PROVE c \in Contents
<1>1. content \in Seq(STRING) /\ c \in {SubSeq(content, 1, n) : n \in 0..Len(content)}
    BY DEF Torn, Contents
<1>2. PICK n \in 0..Len(content) : c = SubSeq(content, 1, n)
    BY <1>1
<1>3. Len(content) \in Nat /\ \A i \in 1..Len(content) : content[i] \in STRING
    BY <1>1, LenProperties
<1>4. c \in Seq(STRING)
    BY <1>1, <1>2, <1>3, SubSeqProperties
<1> QED
    BY <1>4 DEF Contents

\* An operation leaves a content.  One that creates the file leaves the content it
\* has, one that deletes it the old content or none.
LEMMA PerformedLeaves ==
    ASSUME NEW content \in Contents, NEW op \in EditOperations, op.action \in EditAction,
           NEW o \in Performed(content, op)
    PROVE  /\ o.ok \in BOOLEAN /\ o.content \in Contents
           /\ op.action = "create_file" => o.content = op.new_content
           /\ op.action = "delete_file" => o.content \in {content, Absent}
<1>1. op.new_content \in Seq(STRING)
    BY DEF EditOperations
<1>2. CASE op.action \in WholeFile
    <2>1. o = Left(op.new_content)
        BY <1>2 DEF Performed, WholeFile
    <2> QED
        BY <1>1, <1>2, <2>1 DEF Left, Contents, WholeFile
<1>3. CASE op.action \notin WholeFile /\ content = Absent
    <2>1. o = Refused(content)
        BY <1>3 DEF Performed
    <2> QED
        BY <1>3, <2>1 DEF Refused, Contents, WholeFile
<1>4. CASE op.action = "delete_file" /\ content # Absent
    <2>1. o = Left(Absent)
        BY <1>4 DEF Performed, WholeFile
    <2> QED
        BY <1>4, <2>1 DEF Left, Contents
<1>5. CASE op.action \in Targeted /\ content # Absent
    <2>1. content \in Seq(STRING)
        BY <1>5 DEF Contents
    <2>2. CASE op.action = "append_to_file"
        <3>1. o = Left(content \o op.new_content)
            BY <1>5, <2>2 DEF Performed, WholeFile
        <3> QED
            BY <1>1, <2>1, <2>2, <3>1, ConcatProperties DEF Left, Contents
    <2>3. CASE op.action = "replace_lines" \/ op.action = "replace_symbol_body"
        <3>1. o \in ReplaceLines(content, op) \union ReplaceSymbol(content, op)
            BY <1>5, <2>3 DEF Performed, WholeFile
        <3> QED
            BY <2>1, <2>3, <3>1, ReplacedIsText DEF Contents
    <2>4. CASE op.action \in {"replace_block", "delete_block", "insert_before_anchor",
                              "insert_after_anchor"}
        <3>1. o \in Anchored(content, op)
            BY <1>5, <2>4 DEF Performed, WholeFile
        <3> QED
            BY <2>1, <2>4, <3>1, AnchoredIsText DEF Contents
    <2> QED
        BY <1>5, <2>2, <2>3, <2>4 DEF Targeted
<1> QED
    BY <1>2, <1>3, <1>4, <1>5 DEF EditAction

\* The same of one during which the file system fails, which leaves a part of a content.
LEMMA OperationLeaves ==
    ASSUME NEW content \in Contents, NEW op \in EditOperations, op.action \in EditAction,
           NEW o \in ApplySingleOperation(content, op)
    PROVE  /\ o.ok \in BOOLEAN /\ o.content \in Contents
           /\ \/ o.fault
              \/ /\ op.action = "create_file" => o.content = op.new_content
                 /\ op.action = "delete_file" => o.content \in {content, Absent}
<1>1. CASE o \in Performed(content, op)
    BY <1>1, PerformedLeaves
<1>2. ASSUME NEW x \in Performed(content, op), NEW c \in Torn(x.content), o = Failed(c)
      PROVE  o.ok \in BOOLEAN /\ o.content \in Contents /\ o.fault
    <2>1. x.content \in Contents
        BY PerformedLeaves
    <2>2. c \in Contents
        BY <2>1, TornIsContent
    <2> QED
        BY <1>2, <2>2 DEF Failed
<1>3. CASE o = Failed(content)
    BY <1>3 DEF Failed
<1>4. \/ o \in Performed(content, op)
      \/ o = Failed(content)
      \/ \E x \in Performed(content, op) : \E c \in Torn(x.content) : o = Failed(c)
    BY DEF ApplySingleOperation
<1> QED
    BY <1>1, <1>2, <1>3, <1>4

\* Operations a plan may hold.
ValidOperations == {op \in EditOperations : op.action \in EditAction}

\* The content that an operation of the plan which creates or deletes file p leaves it.
Given(op) == IF op.action = "create_file" THEN op.new_content ELSE Absent
\* What a file that a plan has no snapshot of may hold when the plan ends.
Traces(before, plan, p) ==
    {before[p]} \union
        {Given(plan[i]) : i \in {n \in 1..Len(plan) : /\ plan[n].action \in {"create_file", "delete_file"}
                                                      /\ plan[n].file_path = p}}

\* The runs of a plan keep trees, and leave such files with what they had or with what
\* an operation of the plan gave them, but where the file system failed.
Runs == [ok : BOOLEAN, tree : Trees, faulty : SUBSET Paths]
RunsAs(before, plan) ==
    {r \in Runs : \A p \in (Paths \ Snapshotted(plan)) \ r.faulty :
                     r.tree[p] \in Traces(before, plan, p)}

\* What an operation makes of a run, by what it makes of its file.
After(x, p, o) == [ok |-> o.ok, tree |-> [x.tree EXCEPT ![p] = o.content],
                   faulty |-> x.faulty \union (IF o.fault THEN {p} ELSE {})]

\* One more operation keeps a run like that.
LEMMA ExtendedRun ==
    ASSUME NEW before \in Trees, NEW plan \in Seq(ValidOperations), NEW n \in 1..Len(plan),
           NEW x \in RunsAs(before, plan), plan[n].file_path \in Paths,
           NEW o \in ApplySingleOperation(x.tree[plan[n].file_path], plan[n])
    PROVE  After(x, plan[n].file_path, o) \in RunsAs(before, plan)
<1> DEFINE op == plan[n]
           p == op.file_path
           tree == [x.tree EXCEPT ![p] = o.content]
           faulty == x.faulty \union (IF o.fault THEN {p} ELSE {})
<1>1. /\ op \in EditOperations /\ op.action \in EditAction /\ p \in Paths
      /\ Len(plan) \in Nat
    BY LenProperties DEF ValidOperations
<1>2. x.tree \in Trees /\ x.tree[p] \in Contents /\ x.faulty \subseteq Paths
    BY <1>1 DEF RunsAs, Runs, Trees
<1>3. /\ o.ok \in BOOLEAN /\ o.content \in Contents
      /\ \/ o.fault
         \/ /\ op.action = "create_file" => o.content = op.new_content
            /\ op.action = "delete_file" => o.content \in {x.tree[p], Absent}
    <2> HIDE DEF op, p
    <2>1. o \in ApplySingleOperation(x.tree[p], op)
        BY DEF op, p
    <2> QED
        BY <1>1, <1>2, <2>1, OperationLeaves
<1>4. tree \in Trees /\ faulty \subseteq Paths
    <2> HIDE DEF p
    <2> QED
        BY <1>1, <1>2, <1>3 DEF Trees
<1>5. ASSUME NEW q \in (Paths \ Snapshotted(plan)) \ faulty
      PROVE  tree[q] \in Traces(before, plan, q)
    <2>1. x.tree[q] \in Traces(before, plan, q)
        BY DEF RunsAs
    <2>2. CASE q # p
        BY <1>2, <2>1, <2>2 DEF Trees
    <2>3. CASE q = p
        <3>1. tree[q] = o.content
            BY <1>2, <2>3 DEF Trees
        <3>2. op.action \in {"create_file", "delete_file"} /\ ~o.fault
            BY <2>3 DEF Snapshotted
        <3>3. Given(op) \in Traces(before, plan, q)
            BY <2>3, <3>2 DEF Traces
        <3>4. o.content \in {x.tree[p], Given(op)}
            BY <1>3, <3>2 DEF Given
        <3> QED
            BY <2>1, <2>3, <3>1, <3>3, <3>4
    <2> QED
        BY <2>2, <2>3
<1>6. [ok |-> o.ok, tree |-> tree, faulty |-> faulty] \in RunsAs(before, plan)
    <2> HIDE DEF tree, faulty
    <2> QED
        BY <1>3, <1>4, <1>5 DEF RunsAs, Runs
<1> QED
    BY <1>6, Zenon DEF After

\* So does one that is refused for its path.
LEMMA RefusedRun ==
    ASSUME NEW before, NEW plan, NEW x \in RunsAs(before, plan)
    PROVE  [x EXCEPT !.ok = FALSE] \in RunsAs(before, plan)
BY DEF RunsAs, Runs

\* A run extended by an operation had failed, or the operation extends it.
LEMMA ExtendIs ==
    ASSUME NEW runs, NEW op, NEW r \in Extend(runs, op)
    PROVE  \/ r \in runs
           \/ \E x \in runs : r = [x EXCEPT !.ok = FALSE]
           \/ \E x \in runs : /\ op.file_path \in DOMAIN x.tree
                              /\ \E o \in ApplySingleOperation(x.tree[op.file_path], op) :
                                    r = After(x, op.file_path, o)
<1>1. r \in {x \in runs : ~x.ok} \union UNION {Step(x, op) : x \in {y \in runs : y.ok}}
    BY Zenon DEF Extend
<1>2. ASSUME NEW x \in runs, r \in Step(x, op)
      PROVE  \/ r = [x EXCEPT !.ok = FALSE]
             \/ /\ op.file_path \in DOMAIN x.tree
                /\ \E o \in ApplySingleOperation(x.tree[op.file_path], op) :
                      r = After(x, op.file_path, o)
    BY <1>2, Zenon DEF Step, After
<1>3. r \in runs \/ \E x \in runs : r \in Step(x, op)
    BY <1>1
<1> QED
    BY <1>2, <1>3, Zenon

\* So every run of a plan is like that.
LEMMA RunsLeave ==
    ASSUME NEW before \in Trees, NEW plan \in Seq(ValidOperations)
    PROVE  RunsOf(before, plan) \subseteq RunsAs(before, plan)
<1>1. Len(plan) \in Nat
    BY LenProperties
<1>2. PICK after :
         /\ after[0] = {[ok |-> TRUE, tree |-> before, faulty |-> {}]}
         /\ \A n \in 1..Len(plan) : after[n] = Extend(after[n - 1], plan[n])
         /\ RunsOf(before, plan) = after[Len(plan)]
    BY <1>1, RunsOfIs
<1> DEFINE Good == {n \in Nat : after[n] \subseteq RunsAs(before, plan)}
<1>3. 0 \in Good
    <2>1. \A p \in Paths : before[p] \in Traces(before, plan, p)
        BY DEF Traces
    <2>2. [ok |-> TRUE, tree |-> before, faulty |-> {}] \in RunsAs(before, plan)
        BY <2>1 DEF RunsAs, Runs
    <2> QED
        BY <1>2, <2>2
<1>4. ASSUME NEW n \in 1..Len(plan), n - 1 \in Good PROVE n \in Good
    <2>1. after[n] = Extend(after[n - 1], plan[n]) /\ after[n - 1] \subseteq RunsAs(before, plan)
        BY <1>2, <1>4
    <2>2. ASSUME NEW r \in after[n] PROVE r \in RunsAs(before, plan)
        <3>1. \/ r \in after[n - 1]
              \/ \E x \in after[n - 1] : r = [x EXCEPT !.ok = FALSE]
              \/ \E x \in after[n - 1] :
                    /\ plan[n].file_path \in DOMAIN x.tree
                    /\ \E o \in ApplySingleOperation(x.tree[plan[n].file_path], plan[n]) :
                          r = After(x, plan[n].file_path, o)
            <4>1. r \in Extend(after[n - 1], plan[n])
                BY <2>1
            <4> QED
                BY <4>1, ExtendIs
        <3>2. \A x \in after[n - 1] : x \in RunsAs(before, plan) /\ DOMAIN x.tree = Paths
            BY <2>1 DEF RunsAs, Runs, Trees
        <3>3. CASE \E x \in after[n - 1] : r = [x EXCEPT !.ok = FALSE]
            BY <3>2, <3>3, RefusedRun
        <3>4. ASSUME NEW x \in after[n - 1], plan[n].file_path \in DOMAIN x.tree,
                     NEW o \in ApplySingleOperation(x.tree[plan[n].file_path], plan[n]),
                     r = After(x, plan[n].file_path, o)
              PROVE  r \in RunsAs(before, plan)
            <4>1. x \in RunsAs(before, plan) /\ plan[n].file_path \in Paths
                BY <3>2, <3>4
            <4> QED
                BY <3>4, <4>1, ExtendedRun
        <3> QED
            BY <3>1, <3>2, <3>3, <3>4, Zenon
    <2>3. n \in Nat
        BY <1>1
    <2> QED
        BY <2>2, <2>3
<1>5. Len(plan) \in Good
    <2> HIDE DEF Good
    <2>1. \A n \in 0..Len(plan) : n \in Good
        BY <1>1, <1>3, <1>4, Loops
    <2> QED
        BY <1>1, <2>1
<1> QED
    BY <1>2, <1>5

\* A file that is restored is as it was, or the file system failed.
LEMMA RestoredIs ==
    ASSUME NEW p, NEW old \in Contents, NEW now \in Contents, NEW y \in Restored(p, old, now)
    PROVE  y.content \in Contents /\ (~y.fault => y.content = old)
<1>1. CASE y = [content |-> old, fault |-> FALSE]
    BY <1>1
<1>2. ASSUME NEW c \in {Absent, now} \union Torn(old), y = [content |-> c, fault |-> TRUE]
      PROVE  y.content \in Contents /\ y.fault
    <2>1. c \in Contents
        BY TornIsContent DEF Contents
    <2> QED
        BY <1>2, <2>1
<1>3. \/ y = [content |-> old, fault |-> FALSE]
      \/ \E c \in {Absent, now} \union Torn(old) : y = [content |-> c, fault |-> TRUE]
    BY Zenon DEF Restored
<1> QED
    BY <1>1, <1>2, <1>3

\* A rollback leaves a file of the snapshot as it was, and the others as they are,
\* but where the file system fails.
LEMMA RollbackLeaves ==
    ASSUME NEW before \in Trees, NEW plan, NEW x \in Runs, NEW r \in Rollback(before, x, plan)
    PROVE  /\ r \in Runs /\ ~r.ok
           /\ \A p \in Paths \ r.faulty :
                 /\ p \notin x.faulty
                 /\ r.tree[p] = IF p \in Snapshotted(plan) THEN before[p] ELSE x.tree[p]
<1> DEFINE saved == Snapshotted(plan) \intersect DOMAIN before
           Kept(p) == Restored(p, before[p], x.tree[p])
           tree(f) == [p \in DOMAIN before |-> IF p \in saved THEN f[p].content ELSE x.tree[p]]
           faulty(f) == x.faulty \union {p \in saved : f[p].fault}
<1>1. PICK f : /\ \A p \in saved : f[p] \in Kept(p)
               /\ r = [ok |-> FALSE, tree |-> tree(f), faulty |-> faulty(f)]
    BY Zenon DEF Rollback
<1>2. DOMAIN before = Paths /\ saved = Snapshotted(plan) \intersect Paths
    BY DEF Trees
<1>3. ASSUME NEW p \in saved
      PROVE  /\ f[p].content \in Contents
             /\ ~f[p].fault => f[p].content = before[p]
    <2> DEFINE y == f[p]
               old == before[p]
               now == x.tree[p]
    <2>1. old \in Contents /\ now \in Contents
        BY <1>2 DEF Trees, Runs
    <2>2. y \in Restored(p, old, now)
        BY <1>1
    <2> HIDE DEF y, old, now
    <2>3. y.content \in Contents /\ (~y.fault => y.content = old)
        BY <2>1, <2>2, RestoredIs
    <2> QED
        BY <2>3 DEF y, old
<1>4. tree(f) \in Trees
    BY <1>2, <1>3 DEF Trees, Runs
<1>5. faulty(f) \subseteq Paths
    BY <1>2 DEF Runs
<1>6. \A p \in Paths \ faulty(f) :
         /\ p \notin x.faulty
         /\ tree(f)[p] = IF p \in Snapshotted(plan) THEN before[p] ELSE x.tree[p]
    BY <1>2, <1>3
<1> HIDE DEF tree, faulty
<1> QED
    BY <1>1, <1>4, <1>5, <1>6 DEF Runs

\* A plan ends with a tree; one that fails, with the old contents in its snapshot.
LEMMA PlanEnds ==
    ASSUME NEW before \in Trees, NEW plan \in Seq(ValidOperations),
           NEW r \in ApplyEditPlan(before, plan)
    PROVE  /\ r.ok \in BOOLEAN /\ r.tree \in Trees /\ r.faulty \subseteq Paths
           /\ ~r.ok => \A p \in Paths \ r.faulty : r.tree[p] \in Traces(before, plan, p)
<1>1. PICK x \in RunsOf(before, plan) :
         IF x.ok THEN r = x ELSE r \in Rollback(before, x, plan)
    BY Zenon DEF ApplyEditPlan
<1>2. x \in RunsAs(before, plan) /\ x \in Runs
    BY RunsLeave DEF RunsAs
<1>3. CASE x.ok
    BY <1>1, <1>2, <1>3 DEF Runs
<1>4. CASE ~x.ok
    <2>1. /\ r \in Runs
          /\ \A p \in Paths \ r.faulty :
                /\ p \notin x.faulty
                /\ r.tree[p] = IF p \in Snapshotted(plan) THEN before[p] ELSE x.tree[p]
        BY <1>1, <1>2, <1>4, RollbackLeaves
    <2>2. ASSUME NEW p \in Paths \ r.faulty PROVE r.tree[p] \in Traces(before, plan, p)
        <3>1. before[p] \in Traces(before, plan, p)
            BY DEF Traces
        <3>2. p \notin Snapshotted(plan) => x.tree[p] \in Traces(before, plan, p)
            BY <1>2, <2>1 DEF RunsAs
        <3> QED
            BY <2>1, <3>1, <3>2
    <2> QED
        BY <2>1, <2>2 DEF Runs
<1> QED
    BY <1>3, <1>4

-----------------------------------------------------------------------------
(* The types of the state *)

Files ==
    /\ main \in Trees /\ accepted \in Trees /\ ws \in Checkouts
    /\ remote \in [by : {"none", "push", "api"}, tree : Trees]
    /\ touched \subseteq Paths /\ late \subseteq touched /\ tested \subseteq touched
Execution(x) ==
    /\ x.pc \in Pcs
    /\ x.batch \in 0..Batches + 1
    /\ x.result \in Results \union {"none"}
    /\ x.result = "none" \/ x.pc = "answered"
    /\ x.batch = 0 \/ x.pc \in Attempts \union {"openhands"}

\* A call, and a request of the tests, that is not posted yet has a post left.
Called ==
    /\ task.stage \in Stages /\ task.posts \in 0..WorkerRetryAttempts
    /\ task.call \in {0} \union Executions /\ (task.call # 0 => task.stage = "coding")
    /\ task.stage = "coding" /\ task.call = 0 => task.posts < WorkerRetryAttempts
    /\ tester \in {"idle", "awaited", "abandoned"}
    /\ (tester = "awaited" => task.stage = "testing")
    /\ task.stage = "testing" /\ tester # "awaited" => task.posts < WorkerRetryAttempts

\* A pull request, and the step that opens it, come after the branch was published.
Opened ==
    /\ pr \in BOOLEAN
    /\ pr \/ task.stage = "pull_request" => remote.by # "none"

Typed == Files /\ Called /\ Opened /\ \A e \in Executions : Execution(exec[e])

\* What was rolled back is of operations that a model may answer with.
UndoTyped == undo \in [operations : SUBSET Operations, faulty : SUBSET Paths]

\* The types with what is needed to keep them imply the types.
LEMMA TypedIs == ASSUME Typed, UndoTyped PROVE TypeOK
BY DEF UndoTyped, Typed, Files, Called, Opened, Execution, Pcs, TypeOK

\* The initial states have their types.
LEMMA InitTyped == ASSUME Init PROVE Typed
<1>1. /\ main = Initial /\ accepted = Initial /\ ws = NoWorkspace /\ remote = NoBranch
      /\ touched = {} /\ late = {} /\ tested = {} /\ tester = "idle" /\ pr = FALSE
      /\ task = [stage |-> "coding", call |-> 0, posts |-> 0, restarts |-> 0]
      /\ exec = [e \in Executions |-> [pc |-> "idle", batch |-> 0, result |-> "none"]]
    BY DEF Init
<1>2. Initial \in Trees
    BY TreesAssumption DEF Trees
<1>3. Files
    BY <1>1, <1>2 DEF Files, NoWorkspace, NoBranch, Checkouts
<1>4. Called
    BY <1>1, BoundsAssumption DEF Called, Stages
<1>5. Opened
    BY <1>1 DEF Opened
<1>6. \A e \in Executions : Execution(exec[e])
    BY <1>1, BoundsAssumption DEF Execution, Pcs, Dead, Results
<1> QED
    BY <1>3, <1>4, <1>5, <1>6 DEF Typed

\* The end of an execution leaves a checkout, and a task that has its answer.
LEMMA EndsKeepsTyped ==
    ASSUME Inv, Typed, NEW e \in Executions, NEW result \in Results, NEW v,
           NEW w \in Checkouts, Ends(e, result, v, w),
           UNCHANGED <<main, remote, pr, backend, tester>>
    PROVE  Typed'
<1> DEFINE written == {p \in Paths : w.work[p] # v.work[p]}
           stage == IF result = "success" THEN "review" ELSE "failed_coding"
<1>1. /\ ws' = w /\ touched' = touched \union written
      /\ exec' = [exec EXCEPT ![e] = [pc |-> "answered", batch |-> 0, result |-> result]]
    BY DEF Ends
<1>2. /\ accepted' \in {accepted, w.work}
      /\ late' \in {late, {}, late \union written} /\ tested' \in {tested, {}}
      /\ \/ task' = task
         \/ task.call = e /\ task' = [task EXCEPT !.call = 0, !.stage = stage]
    BY DEF Ends
<1>3. written \subseteq Paths /\ stage \in {"review", "failed_coding"}
    OBVIOUS
<1> HIDE DEF written, stage
<1>4. Files'
    BY <1>1, <1>2, <1>3 DEF Typed, Files, Checkouts
<1>5. \A f \in Executions : Execution(exec'[f])
    <2>1. Execution([pc |-> "answered", batch |-> 0, result |-> result])
        BY BoundsAssumption DEF Execution, Pcs, Dead
    <2>2. \A f \in Executions :
             exec'[f] \in {exec[f], [pc |-> "answered", batch |-> 0, result |-> result]}
        BY <1>1 DEF Inv, Shapes
    <2> QED
        BY <2>1, <2>2 DEF Typed
<1>6. CASE task' = task
    BY <1>4, <1>5, <1>6 DEF Typed, Called, Opened
<1>7. CASE task.call = e /\ task' = [task EXCEPT !.call = 0, !.stage = stage]
    <2>1. task'.call = 0 /\ task'.stage = stage /\ task'.posts = task.posts
        BY <1>7 DEF Inv, Shapes
    <2>2. tester # "awaited"
        <3>1. task.call # 0
            BY <1>7, BoundsAssumption
        <3> QED
            BY <3>1 DEF Typed, Called
    <2>3. Called' /\ Opened'
        BY <1>3, <2>1, <2>2 DEF Typed, Called, Opened, Stages
    <2> QED
        BY <1>4, <1>5, <2>3 DEF Typed
<1> QED
    BY <1>2, <1>6, <1>7

\* The same of the answers that are a success or a failure.
LEMMA AnswerKeepsTyped ==
    ASSUME Inv, Typed, NEW e \in Executions, NEW success, NEW v, NEW w \in Checkouts,
           Answer(e, success, v, w), UNCHANGED <<main, remote, pr, backend, tester>>
    PROVE  Typed'
<1> DEFINE result == IF success THEN "success" ELSE "failure"
<1>1. result \in Results
    BY DEF Results
<1>2. Ends(e, result, v, w)
    BY DEF Answer
<1> HIDE DEF result
<1> QED
    BY <1>1, <1>2, EndsKeepsTyped

\* What the coding worker makes of a checkout is one.
LEMMA PreparedIsCheckout ==
    ASSUME Typed PROVE EnsureBranch(EnsureCheckout(ws)) \in Checkouts
<1>1. EnsureCheckout(ws) \in Checkouts
    BY DEF Typed, Files, EnsureCheckout, Refreshed, Checkouts
<1> QED
    BY <1>1 DEF EnsureBranch, Checkouts

\* A checkout with another working tree is a checkout.
LEMMA WrittenIsCheckout ==
    ASSUME NEW w \in Checkouts, NEW tree \in Trees PROVE Written(w, tree) \in Checkouts
BY DEF Written, Checkouts

\* The deterministic backends' plans are of valid operations.
LEMMA WritingPlanEnds ==
    ASSUME NEW before \in Trees, NEW new \in Seq(STRING),
           NEW r \in ApplyEditPlan(before, <<EditOperation("create_or_update", Target, new)>>)
    PROVE  r.tree \in Trees
<1> DEFINE op == EditOperation("create_or_update", Target, new)
           plan == <<op>>
<1>1. op \in ValidOperations
    <2>1. <<>> \in Seq(STRING) /\ 1 \in Nat \ {0}
        OBVIOUS
    <2>2. "" \in STRING
        BY TextsAssumption, Zenon
    <2>3. op \in EditOperations
        BY <2>1, <2>2, TreesAssumption DEF EditOperation, EditOperations, EditAction, WholeFile
    <2>4. op.action = "create_or_update" /\ op.file_path = Target
        BY DEF EditOperation
    <2> QED
        BY <2>3, <2>4, TreesAssumption DEF ValidOperations, EditAction, WholeFile
<1> HIDE DEF op
<1>2. plan \in Seq(ValidOperations)
    BY <1>1
<1> HIDE DEF plan
<1>3. r \in ApplyEditPlan(before, plan)
    BY DEF plan, op
<1> QED
    BY <1>2, <1>3, PlanEnds

\* The line a deterministic backend writes is a text.
LEMMA MarkIsText == <<Mark>> \in Seq(STRING)
<1>1. Mark \in STRING
    BY TextsAssumption, Zenon
<1>2. <<>> \in Seq(STRING) /\ Append(<<>>, Mark) = <<Mark>>
    OBVIOUS
<1> QED
    BY <1>1, <1>2, AppendProperties

\* The fast paths leave the checkout, or the result of their plan.
LEMMA FastPathsKeepTyped ==
    ASSUME Inv, Typed, NEW e \in Executions, NEW v \in Checkouts,
           ReadmeFastPath(e, v) \/ TimeoutFastPath(e, v),
           UNCHANGED <<main, remote, pr, backend, tester>>
    PROVE  Typed'
<1>1. v.work \in Trees
    BY DEF Checkouts
<1>2. v.work[Target] \in Contents
    BY <1>1, TreesAssumption DEF Trees
<1>3. ASSUME NEW success, Answer(e, success, v, v) PROVE Typed'
    BY <1>3, AnswerKeepsTyped
<1>4. ASSUME NEW new \in Seq(STRING), NEW success,
             NEW r \in ApplyEditPlan(v.work, <<EditOperation("create_or_update", Target, new)>>),
             Answer(e, success, v, Written(v, r.tree))
      PROVE  Typed'
    <2>1. Written(v, r.tree) \in Checkouts
        BY <1>1, WritingPlanEnds, WrittenIsCheckout
    <2> QED
        BY <1>4, <2>1, AnswerKeepsTyped
<1>5. CASE ReadmeFastPath(e, v)
    <2> DEFINE content == v.work[Target]
               new == <<Mark>> \o content
    <2>1. content # Absent => new \in Seq(STRING)
        BY <1>2, MarkIsText, ConcatProperties DEF Contents
    <2>2. \/ \E success : Answer(e, success, v, v)
          \/ /\ content # Absent
             /\ \E r \in ApplyEditPlan(v.work, <<EditOperation("create_or_update", Target, new)>>) :
                   Answer(e, r.ok, v, Written(v, r.tree))
        BY <1>5, Zenon DEF ReadmeFastPath
    <2> HIDE DEF new
    <2> QED
        BY <1>3, <1>4, <2>1, <2>2
<1>6. CASE TimeoutFastPath(e, v)
    <2> DEFINE content == v.work[Target]
               new == IF content \in {Absent, <<>>} THEN content ELSE <<Mark>> \o Tail(content)
    <2>1. new # content => new \in Seq(STRING)
        <3>1. content \notin {Absent, <<>>} => Tail(content) \in Seq(STRING)
            BY <1>2, HeadTailProperties DEF Contents
        <3>2. content \notin {Absent, <<>>} => <<Mark>> \o Tail(content) \in Seq(STRING)
            BY <3>1, MarkIsText, ConcatProperties
        <3> QED
            BY <3>2
    <2>2. \/ \E success : Answer(e, success, v, v)
          \/ /\ new # content
             /\ \E r \in ApplyEditPlan(v.work, <<EditOperation("create_or_update", Target, new)>>) :
                   Answer(e, r.ok, v, Written(v, r.tree))
        BY <1>6, Zenon DEF TimeoutFastPath
    <2> HIDE DEF new
    <2> QED
        BY <1>3, <1>4, <2>1, <2>2
<1> QED
    BY <1>5, <1>6

\* git revert leaves trees.
LEMMA GitRevertKeepsTyped ==
    ASSUME Inv, Typed, NEW e \in Executions, NEW v \in Checkouts, GitRevert(e, v),
           UNCHANGED <<main, remote, pr, backend, tester>>
    PROVE  Typed'
<1> DEFINE reverted == [v.head EXCEPT ![Target] = <<Mark>>]
           done == [v EXCEPT !.head = reverted, !.index = reverted, !.work = reverted]
           conflict == [v.work EXCEPT ![Target] = <<"conflict">>]
           stuck == [v EXCEPT !.unmerged = TRUE, !.work[Target] = <<"conflict">>]
<1>1. v.head \in Trees /\ v.work \in Trees
    BY DEF Checkouts
<1>2. <<Mark>> \in Contents /\ <<"conflict">> \in Contents
    <2>1. Mark \in STRING /\ "conflict" \in STRING
        BY TextsAssumption, Zenon
    <2> QED
        BY <2>1 DEF Contents
<1>3. reverted \in Trees /\ conflict \in Trees
    BY <1>1, <1>2, TreesAssumption DEF Trees
<1>4. done \in Checkouts
    <2> HIDE DEF reverted
    <2> QED
        BY <1>3 DEF Checkouts
<1>5. stuck \in Checkouts
    <2>1. stuck = [v EXCEPT !.unmerged = TRUE, !.work = conflict]
        BY DEF Checkouts
    <2> HIDE DEF conflict, stuck
    <2> QED
        BY <1>3, <2>1 DEF Checkouts
<1>6. \/ Answer(e, FALSE, v, v)
      \/ \E success : Answer(e, success, v, done)
      \/ Answer(e, FALSE, v, stuck)
    BY Zenon DEF GitRevert
<1> HIDE DEF done, stuck
<1> QED
    BY <1>4, <1>5, <1>6, AnswerKeepsTyped

\* A step that leaves the task, and one execution in an attempt.
LEMMA ExecutionKeepsTyped ==
    ASSUME Inv, Typed, NEW e \in Executions, NEW x, Execution(x),
           exec' = [exec EXCEPT ![e] = x], ws' \in Checkouts,
           UNCHANGED <<main, task, remote, pr, touched, accepted, late, tester, tested>>
    PROVE  Typed'
<1>1. \A f \in Executions : exec'[f] \in {exec[f], x}
    BY DEF Inv, Shapes
<1>2. \A f \in Executions : Execution(exec'[f])
    BY <1>1 DEF Typed
<1>3. Files' /\ Called'
    BY DEF Typed, Files, Called
<1>4. Opened'
    BY DEF Typed, Opened
<1> QED
    BY <1>2, <1>3, <1>4 DEF Typed

\* The first step of an execution has a prepared checkout, which is one.
LEMMA PrepareKeepsTyped ==
    ASSUME Inv, Typed, NEW e \in Executions, Prepare(e) PROVE Typed'
<1> DEFINE v == EnsureBranch(EnsureCheckout(ws))
           Next1(pc) == [pc |-> pc, batch |-> 1, result |-> "none"]
<1>1. v \in Checkouts /\ ws \in Checkouts
    BY PreparedIsCheckout DEF Typed, Files
<1>2. UNCHANGED <<main, remote, pr, backend, tester>>
    BY DEF Prepare
<1>3. \/ Answer(e, FALSE, ws, ws)
      \/ GitRevert(e, v) \/ ReadmeFastPath(e, v) \/ TimeoutFastPath(e, v)
      \/ Answer(e, FALSE, v, v)
      \/ /\ ws' = v /\ UNCHANGED <<task, touched, accepted, late, tested>>
         /\ \E pc \in {"initial", "openhands"} : exec' = [exec EXCEPT ![e] = Next1(pc)]
    <2>1. "initial" \in {"initial", "openhands"} /\ "openhands" \in {"initial", "openhands"}
        OBVIOUS
    <2> HIDE DEF v
    <2> QED
        BY <2>1, Zenon DEF Prepare, v
<1> HIDE DEF v
<1>4. CASE Answer(e, FALSE, ws, ws) \/ Answer(e, FALSE, v, v)
    BY <1>1, <1>2, <1>4, AnswerKeepsTyped
<1>5. CASE GitRevert(e, v) \/ ReadmeFastPath(e, v) \/ TimeoutFastPath(e, v)
    BY <1>1, <1>2, <1>5, GitRevertKeepsTyped, FastPathsKeepTyped
<1>6. ASSUME ws' = v, UNCHANGED <<task, touched, accepted, late, tested>>,
             NEW pc \in {"initial", "openhands"}, exec' = [exec EXCEPT ![e] = Next1(pc)]
      PROVE  Typed'
    <2>1. Execution(Next1(pc))
        BY BoundsAssumption DEF Execution, Pcs, Attempts
    <2> HIDE DEF Next1
    <2> QED
        BY <1>1, <1>2, <1>6, <2>1, ExecutionKeepsTyped
<1> QED
    BY <1>3, <1>4, <1>5, <1>6

\* A clone that fails leaves the checkout as it was.
LEMMA CloneFailsKeepsTyped ==
    ASSUME Inv, Typed, NEW e \in Executions, CloneFails(e) PROVE Typed'
BY AnswerKeepsTyped DEF Typed, Files, CloneFails

\* The operations of an answer that parse are a plan of valid operations.
LEMMA ParsedIsPlan ==
    ASSUME NEW raw \in Plans
    PROVE  /\ ParseOperations(raw) \in Seq(Operations)
           /\ ParseOperations(raw) \in Seq(ValidOperations)
<1> DEFINE plan == ParseOperations(raw)
<1>1. raw \in Seq(Operations)
    BY BoundsAssumption DEF Plans
<1>2. plan \in Seq(Operations) /\ \A i \in 1..Len(plan) : plan[i].action \in EditAction
    BY <1>1, ParsedAre
<1> HIDE DEF plan
<1>3. \A i \in 1..Len(plan) : plan[i] \in Operations
    BY <1>2
<1>4. \A i \in 1..Len(plan) : plan[i] \in ValidOperations
    BY <1>2, <1>3, OperationsAssumption DEF ValidOperations
<1>5. plan \in Seq(ValidOperations)
    BY <1>2, <1>4
<1> QED
    BY <1>2, <1>5 DEF plan

\* A plan ends with a tree, whatever its operations are.
LEMMA AttemptPlansKeepsTyped ==
    ASSUME Inv, Typed, NEW e \in Executions, AttemptPlans(e) PROVE Typed'
<1>1. /\ ws \in Checkouts /\ ws.work \in Trees
      /\ UNCHANGED <<main, remote, pr, backend, tester>>
    BY DEF Typed, Files, Checkouts, AttemptPlans
<1>2. CASE Answer(e, FALSE, ws, ws)
    BY <1>1, <1>2, AnswerKeepsTyped
<1>3. ASSUME NEW raw \in Plans, ApplyPlan(e, ws, ParseOperations(raw)) PROVE Typed'
    <2> DEFINE Result(r) == CASE ~r.ok -> "rolled_back"
                              [] r.ok /\ CurrentDiff(Written(ws, r.tree)) = {} -> "failure"
                              [] OTHER -> "success"
    <2>1. PICK r \in ApplyEditPlan(ws.work, ParseOperations(raw)) :
             Ends(e, Result(r), ws, Written(ws, r.tree))
        BY <1>3, Zenon DEF ApplyPlan
    <2>2. Result(r) \in Results
        BY DEF Results
    <2>3. Written(ws, r.tree) \in Checkouts
        BY <1>1, ParsedIsPlan, PlanEnds, WrittenIsCheckout
    <2> HIDE DEF Result
    <2> QED
        BY <1>1, <2>1, <2>2, <2>3, EndsKeepsTyped
<1>4. \/ Answer(e, FALSE, ws, ws)
      \/ \E raw \in Plans : ApplyPlan(e, ws, ParseOperations(raw))
    BY Zenon DEF AttemptPlans
<1> QED
    BY <1>2, <1>3, <1>4

\* An empty attempt goes on only within the batches there are.
LEMMA AttemptIsEmptyKeepsTyped ==
    ASSUME Inv, Typed, NEW e \in Executions, AttemptIsEmpty(e) PROVE Typed'
<1>1. /\ exec[e].pc \in Attempts /\ ws \in Checkouts
      /\ UNCHANGED <<main, remote, pr, backend, tester>>
    BY DEF Typed, Files, Attempts, AttemptIsEmpty
<1>2. CASE Answer(e, FALSE, ws, ws)
    BY <1>1, <1>2, AnswerKeepsTyped
<1>3. ASSUME NEW error \in BOOLEAN, ~(NextAttempt(exec[e], error).batch > Batches),
             exec' = [exec EXCEPT ![e] = NextAttempt(exec[e], error)],
             UNCHANGED <<ws, task, touched, accepted, late, tested>>
      PROVE  Typed'
    <2> DEFINE x == NextAttempt(exec[e], error)
    <2>1. exec[e] \in [pc : Pcs, batch : Nat, result : {exec[e].result}]
        BY DEF Inv, Shapes
    <2>2. x \in [pc : Attempts, batch : Nat, result : {exec[e].result}]
        BY <2>1, NextAttemptIs
    <2>3. exec[e].result = "none"
        BY <1>1 DEF Typed, Execution, Attempts
    <2> HIDE DEF x
    <2>4. x.batch \in 0..Batches + 1
        <3>1. x.batch \in Nat /\ ~(x.batch > Batches)
            BY <1>3, <2>2 DEF x
        <3> QED
            BY <3>1, BoundsAssumption
    <2>5. Execution(x)
        BY <2>2, <2>3, <2>4 DEF Execution, Pcs, Attempts
    <2> QED
        BY <1>1, <1>3, <2>5, ExecutionKeepsTyped DEF x
<1>4. \/ Answer(e, FALSE, ws, ws)
      \/ \E error \in BOOLEAN :
            /\ ~(NextAttempt(exec[e], error).batch > Batches)
            /\ exec' = [exec EXCEPT ![e] = NextAttempt(exec[e], error)]
            /\ UNCHANGED <<ws, task, touched, accepted, late, tested>>
    BY Zenon DEF AttemptIsEmpty
<1> QED
    BY <1>2, <1>3, <1>4, Zenon

\* The OpenHands adapter writes a text.
LEMMA OpenHandsKeepsTyped ==
    ASSUME Inv, Typed, NEW e \in Executions, OpenHandsAnswers(e) PROVE Typed'
<1> DEFINE content == [ws.work EXCEPT ![Target] = <<Mark>>]
           marked == [ws EXCEPT !.work[Target] = <<Mark>>]
<1>1. /\ ws \in Checkouts /\ ws.work \in Trees
      /\ UNCHANGED <<main, remote, pr, backend, tester>>
    BY DEF Typed, Files, Checkouts, OpenHandsAnswers
<1>2. marked \in Checkouts
    <2>1. marked = Written(ws, content)
        BY <1>1 DEF Checkouts, Written
    <2>2. content \in Trees
        BY <1>1, TreesAssumption, MarkIsText DEF Trees, Contents
    <2> HIDE DEF marked, content
    <2> QED
        BY <1>1, <2>1, <2>2, WrittenIsCheckout
<1>3. \/ \E success : Answer(e, success, ws, ws)
      \/ Answer(e, TRUE, ws, marked)
    BY Zenon DEF OpenHandsAnswers
<1> HIDE DEF marked
<1> QED
    BY <1>1, <1>2, <1>3, AnswerKeepsTyped

\* A step of the orchestrator that goes on to a stage of its own.
LEMMA StageKeepsTyped ==
    ASSUME Inv, Typed, UNCHANGED <<exec, touched, accepted, late, tested>>,
           main' \in Trees, ws' \in Checkouts, remote' \in [by : {"none", "push", "api"}, tree : Trees],
           task.call = 0, NEW stage \in Stages \ {"coding", "testing"}, Advance(stage),
           tester' # "awaited", tester' \in {"idle", "abandoned"},
           pr' \in BOOLEAN, pr' \/ stage = "pull_request" => remote'.by # "none"
    PROVE  Typed'
<1>1. task'.stage = stage /\ task'.call = 0 /\ task'.posts = task.posts
    BY DEF Inv, Shapes, Advance
<1>2. Files'
    BY DEF Typed, Files
<1>3. Called'
    BY <1>1 DEF Typed, Called
<1>4. Opened'
    BY <1>1 DEF Opened
<1> QED
    BY <1>2, <1>3, <1>4 DEF Typed

\* Outside of the tests nobody waits for them.
LEMMA NotAwaited ==
    ASSUME Typed, task.stage # "testing"
    PROVE  tester # "awaited" /\ tester \in {"idle", "abandoned"}
BY DEF Typed, Called

\* A call is posted by an execution that was idle, and within the retries.
LEMMA PostKeepsTyped == ASSUME Inv, Typed, Post PROVE Typed'
<1> DEFINE Idle == {e \in Executions : exec[e].pc = "idle"}
<1>1. NextCall \in Executions /\ exec[NextCall].pc = "idle"
    <2>1. Idle \subseteq Nat /\ Idle # {}
        BY BoundsAssumption DEF Post, CanPost
    <2> HIDE DEF Idle
    <2>2. NextCall \in Idle
        BY <2>1, MinIsIn DEF NextCall, Idle
    <2> QED
        BY <2>2 DEF Idle
<1>2. /\ task.stage = "coding" /\ task.call = 0
      /\ exec' = [exec EXCEPT ![NextCall].pc = "prepare"]
      /\ task' = [task EXCEPT !.call = NextCall, !.posts = @ + 1]
      /\ UNCHANGED <<main, ws, remote, pr, backend, touched, accepted, late, tester, tested>>
    BY DEF Post
<1>3. \A e \in Executions : Execution(exec'[e])
    <2>1. ASSUME NEW e \in Executions PROVE Execution(exec'[e])
        <3>1. CASE e = NextCall
            <4>1. /\ exec'[e].pc = "prepare" /\ exec'[e].batch = exec[e].batch
                  /\ exec'[e].result = exec[e].result
                BY <1>1, <1>2, <3>1 DEF Inv, Shapes
            <4> QED
                BY <1>1, <3>1, <4>1 DEF Typed, Execution, Pcs, Attempts
        <3>2. CASE e # NextCall
            <4>1. exec'[e] = exec[e]
                BY <1>1, <1>2, <3>2 DEF Inv, Shapes
            <4> QED
                BY <4>1 DEF Typed
        <3> QED
            BY <3>1, <3>2
    <2> QED
        BY <2>1
<1>4. Called'
    <2>1. /\ task'.stage = "coding" /\ task'.call = NextCall
          /\ task'.posts = task.posts + 1
        BY <1>2 DEF Inv, Shapes
    <2>2. task'.call # 0
        BY <1>1, <2>1, BoundsAssumption
    <2>3. task.posts \in 0..WorkerRetryAttempts /\ task.posts < WorkerRetryAttempts
        BY <1>2 DEF Typed, Called
    <2>4. task'.posts \in 0..WorkerRetryAttempts
        BY <2>1, <2>3, BoundsAssumption
    <2>5. tester' # "awaited" /\ tester' \in {"idle", "abandoned"}
        BY <1>2, NotAwaited
    <2> QED
        BY <1>1, <2>1, <2>2, <2>4, <2>5 DEF Called, Stages
<1>5. Files'
    BY <1>2 DEF Typed, Files
<1>6. Opened'
    <2>1. task'.stage = task.stage
        BY <1>2 DEF Inv, Shapes
    <2> QED
        BY <1>2, <2>1 DEF Typed, Opened
<1> QED
    BY <1>3, <1>4, <1>5, <1>6 DEF Typed

\* A call that is lost is posted again only if it has a post left.
LEMMA CallEndsKeepsTyped ==
    ASSUME Inv, Typed, ConnectionBreaks \/ StageTimesOut PROVE Typed'
<1>1. UNCHANGED <<main, ws, exec, remote, pr, touched, accepted, late, tester, tested>>
    BY DEF ConnectionBreaks, StageTimesOut
<1>2. /\ task.call # 0
      /\ \/ task.posts < WorkerRetryAttempts /\ task' = [task EXCEPT !.call = 0]
         \/ task' = [task EXCEPT !.call = 0, !.stage = "failed_coding"]
    BY DEF ConnectionBreaks, StageTimesOut
<1>3. /\ task'.call = 0 /\ task'.posts = task.posts
      /\ \/ task.posts < WorkerRetryAttempts /\ task'.stage = task.stage
         \/ task'.stage = "failed_coding"
    BY <1>2 DEF Inv, Shapes
<1>4. Files'
    BY <1>1 DEF Typed, Files
<1>5. task.stage = "coding"
    BY <1>2 DEF Typed, Called
<1>6. tester' # "awaited" /\ tester' \in {"idle", "abandoned"}
    BY <1>1, <1>5, NotAwaited
<1>7. Called' /\ Opened'
    BY <1>1, <1>3, <1>5, <1>6 DEF Typed, Called, Opened, Stages
<1> QED
    BY <1>1, <1>4, <1>7 DEF Typed

\* A restart of the worker ends its executions without a result.
LEMMA WorkerRestartsKeepsTyped ==
    ASSUME Inv, Typed, WorkerRestarts PROVE Typed'
<1> DEFINE gone == [pc |-> "gone", batch |-> 0, result |-> "none"]
<1>1. UNCHANGED <<main, ws, task, remote, pr, touched, accepted, late, tester, tested>>
    BY DEF WorkerRestarts
<1>2. \A e \in Executions : exec'[e] \in {exec[e], gone}
    BY DEF WorkerRestarts
<1>3. Execution(gone)
    BY BoundsAssumption DEF Execution, Pcs, Dead
<1>4. \A e \in Executions : Execution(exec'[e])
    <2> HIDE DEF gone
    <2> QED
        BY <1>2, <1>3 DEF Typed
<1>5. Files' /\ Called'
    BY <1>1 DEF Typed, Files, Called
<1>6. Opened'
    BY <1>1 DEF Typed, Opened
<1> QED
    BY <1>4, <1>5, <1>6 DEF Typed

\* A step of the orchestrator that changes the task alone.
LEMMA TaskKeepsTyped ==
    ASSUME Typed, Called', UNCHANGED <<main, ws, exec, remote, pr, touched, accepted, late, tested>>,
           task'.stage # "pull_request" \/ task'.stage = task.stage
    PROVE  Typed'
<1>1. Files'
    BY DEF Typed, Files
<1>2. Opened'
    BY DEF Typed, Opened
<1> QED
    BY <1>1, <1>2 DEF Typed

\* The review and the preflight go on to a stage of their own, or to the tests.
LEMMA ReviewKeepsTyped ==
    ASSUME Inv, Typed, Review \/ Preflight PROVE Typed'
<1>1. /\ task.stage \in {"review", "preflight"}
      /\ UNCHANGED <<main, ws, exec, remote, pr, touched, accepted, late, tester, tested>>
      /\ \/ \E stage \in {"failed_coding", "preflight", "commit", "failed_github"} : Advance(stage)
         \/ task' = [task EXCEPT !.stage = "testing", !.posts = 0]
    BY DEF Review, Preflight
<1>2. tester # "awaited" /\ tester' = tester /\ tester \in {"idle", "abandoned"}
    BY <1>1, NotAwaited
<1>3. task.call = 0
    BY <1>1 DEF Inv, Prepared
<1>4. Called'
    <2>1. CASE \E stage \in {"failed_coding", "preflight", "commit", "failed_github"} : Advance(stage)
        <3>1. /\ task'.stage \in {"failed_coding", "preflight", "commit", "failed_github"}
              /\ task'.call = 0 /\ task'.posts = task.posts
            BY <1>3, <2>1 DEF Advance, Inv, Shapes
        <3> QED
            BY <1>2, <3>1 DEF Typed, Called, Stages
    <2>2. CASE task' = [task EXCEPT !.stage = "testing", !.posts = 0]
        <3>1. task'.stage = "testing" /\ task'.call = 0 /\ task'.posts = 0
            BY <1>3, <2>2 DEF Inv, Shapes
        <3> QED
            BY <1>2, <3>1, BoundsAssumption DEF Called, Stages
    <2> QED
        BY <1>1, <2>1, <2>2
<1>5. task'.stage # "pull_request"
    BY <1>1, AdvanceIs DEF Inv, Shapes
<1> QED
    BY <1>1, <1>4, <1>5, TaskKeepsTyped

\* A request of the tests is posted within the retries, as a call is.
LEMMA TestsKeepTyped ==
    ASSUME Inv, Typed, PostTests \/ TestsEnd \/ TestsAreLost PROVE Typed'
<1>1. UNCHANGED <<main, ws, exec, remote, pr, touched, accepted, late, tested>>
    BY DEF PostTests, TestsEnd, TestsAreLost
<1>2. CASE PostTests
    <2>1. /\ task.stage = "testing" /\ tester = "idle" /\ tester' = "awaited"
          /\ task' = [task EXCEPT !.posts = @ + 1]
        BY <1>2 DEF PostTests
    <2>2. task'.stage = "testing" /\ task'.call = task.call /\ task'.posts = task.posts + 1
        BY <2>1 DEF Inv, Shapes
    <2>3. task'.posts \in 0..WorkerRetryAttempts
        <3>1. task.posts \in 0..WorkerRetryAttempts /\ task.posts < WorkerRetryAttempts
            BY <2>1 DEF Typed, Called
        <3> QED
            BY <2>2, <3>1, BoundsAssumption
    <2>4. Called'
        BY <2>1, <2>2, <2>3 DEF Typed, Called
    <2> QED
        BY <1>1, <2>2, <2>4, TaskKeepsTyped
<1>3. CASE tester' # "awaited" /\ tester' \in {"idle", "abandoned"} /\ UNCHANGED task
           /\ (task.stage = "testing" => task.posts < WorkerRetryAttempts)
    <2>1. Called'
        BY <1>3 DEF Typed, Called
    <2> QED
        BY <1>1, <1>3, <2>1, TaskKeepsTyped
<1>4. CASE /\ tester' # "awaited" /\ tester' \in {"idle", "abandoned"} /\ tester = "awaited"
           /\ \E stage \in {"preflight", "failed_testing"} : Advance(stage)
    <2>1. task.call = 0
        BY <1>4 DEF Inv, Prepared
    <2>2. /\ task'.stage \in {"preflight", "failed_testing"}
          /\ task'.call = 0 /\ task'.posts = task.posts
        BY <1>4, <2>1 DEF Advance, Inv, Shapes
    <2>3. Called'
        BY <1>4, <2>2 DEF Typed, Called, Stages
    <2>4. task'.stage # "pull_request"
        BY <2>2
    <2> QED
        BY <1>1, <2>3, <2>4, TaskKeepsTyped
<1>5. CASE TestsEnd
    <2>1. /\ tester' = "idle"
          /\ \/ tester = "abandoned" /\ UNCHANGED task
             \/ tester = "awaited" /\ \E stage \in {"preflight", "failed_testing"} : Advance(stage)
        BY <1>5 DEF TestsEnd
    <2>2. tester = "abandoned" /\ task.stage = "testing" => task.posts < WorkerRetryAttempts
        BY DEF Typed, Called
    <2> QED
        BY <1>3, <1>4, <2>1, <2>2
<1>6. CASE TestsAreLost
    BY <1>3, <1>4, <1>6 DEF TestsAreLost
<1> QED
    BY <1>2, <1>5, <1>6

\* A test command leaves a content.
LEMMA CommandWritesKeepsTyped == ASSUME Inv, Typed, CommandWrites PROVE Typed'
<1>1. PICK q \in Paths, c \in UNION {TestOutputs[x] : x \in Paths} :
         /\ c \in TestOutputs[q]
         /\ ws' = [ws EXCEPT !.work = [ws.work EXCEPT ![q] = c]]
         /\ touched' = touched \union {q} /\ tested' = tested \union {q}
    BY Zenon DEF CommandWrites
<1>2. UNCHANGED <<main, exec, task, remote, pr, accepted, late, tester>>
    BY DEF CommandWrites
<1> DEFINE tree == [ws.work EXCEPT ![q] = c]
<1>3. tree \in Trees
    <2>1. c \in Contents
        BY <1>1, OperationsAssumption
    <2> QED
        BY <2>1 DEF Typed, Files, Checkouts, Trees
<1>4. ws' = Written(ws, tree)
    BY <1>1 DEF Written
<1> HIDE DEF tree
<1>5. ws' \in Checkouts
    BY <1>3, <1>4, WrittenIsCheckout DEF Typed, Files
<1>6. Files'
    BY <1>1, <1>2, <1>5 DEF Typed, Files
<1>7. Called'
    BY <1>2 DEF Typed, Called
<1>8. Opened'
    BY <1>2 DEF Typed, Opened
<1>9. \A e \in Executions : Execution(exec'[e])
    BY <1>2 DEF Typed
<1> QED
    BY <1>6, <1>7, <1>8, <1>9 DEF Typed

\* A commit makes the working tree the head of the checkout.
LEMMA CommitKeepsTyped == ASSUME Inv, Typed, Commit PROVE Typed'
<1>1. /\ task.stage = "commit" /\ Advance("push")
      /\ ws' = [ws EXCEPT !.index = ws.work, !.head = ws.work, !.unmerged = FALSE]
      /\ UNCHANGED <<main, exec, remote, pr, touched, accepted, late, tester, tested>>
    BY DEF Commit
<1>2. task.call = 0 /\ main \in Trees /\ ws' \in Checkouts
      /\ remote \in [by : {"none", "push", "api"}, tree : Trees]
    BY <1>1 DEF Inv, Prepared, Typed, Files, Checkouts
<1>3. pr \in BOOLEAN /\ (pr => remote.by # "none")
    BY DEF Typed, Opened
<1>4. "push" \in Stages \ {"coding", "testing"}
    BY DEF Stages
<1>5. tester' # "awaited" /\ tester' \in {"idle", "abandoned"}
    BY <1>1, NotAwaited
<1> QED
    BY <1>1, <1>2, <1>3, <1>4, <1>5, StageKeepsTyped

\* Either way of publishing leaves a tree on GitHub, and names who published it.
LEMMA PublishingKeepsTyped ==
    ASSUME Inv, Typed, Push \/ PublishViaApi PROVE Typed'
<1>1. /\ task.stage \in {"push", "api"}
      /\ UNCHANGED <<main, ws, exec, pr, touched, accepted, late, tester, tested>>
    BY DEF Push, PublishViaApi
<1>2. task.call = 0 /\ main \in Trees /\ ws \in Checkouts
      /\ remote \in [by : {"none", "push", "api"}, tree : Trees]
    BY <1>1 DEF Inv, Prepared, Typed, Files
<1>3. pr \in BOOLEAN /\ (pr => remote.by # "none")
    BY DEF Typed, Opened
<1>8. tester' # "awaited" /\ tester' \in {"idle", "abandoned"}
    BY <1>1, NotAwaited
<1>4. Overlay \in Trees
    <2>1. \A p \in Paths : main[p] \in Contents /\ ws.work[p] \in Contents
        BY <1>2 DEF Checkouts, Trees
    <2>2. \A p \in Paths :
             Overlay[p] \in Contents
        BY <2>1 DEF Overlay, Contents
    <2> QED
        BY <2>2 DEF Overlay, Trees
<1>5. \/ /\ remote' \in {[by |-> "push", tree |-> ws.head], [by |-> "api", tree |-> Overlay]}
         /\ Advance("pull_request")
      \/ /\ remote' = remote
         /\ \E stage \in {"api", "failed_github"} : Advance(stage)
    BY DEF Push, PublishViaApi
<1>6. CASE /\ remote' \in {[by |-> "push", tree |-> ws.head], [by |-> "api", tree |-> Overlay]}
           /\ Advance("pull_request")
    <2>1. remote' \in [by : {"none", "push", "api"}, tree : Trees] /\ remote'.by # "none"
        BY <1>2, <1>4, <1>6 DEF Checkouts
    <2>2. "pull_request" \in Stages \ {"coding", "testing"}
        BY DEF Stages
    <2> QED
        BY <1>1, <1>2, <1>3, <1>6, <1>8, <2>1, <2>2, StageKeepsTyped
<1>7. CASE /\ remote' = remote
           /\ \E stage \in {"api", "failed_github"} : Advance(stage)
    <2>1. PICK stage \in Stages \ {"coding", "testing", "pull_request"} : Advance(stage)
        BY <1>7 DEF Stages
    <2> QED
        BY <1>1, <1>2, <1>3, <1>7, <1>8, <2>1, StageKeepsTyped
<1> QED
    BY <1>5, <1>6, <1>7

\* The pull request is opened for a branch that was published.
LEMMA OpenPullRequestKeepsTyped ==
    ASSUME Inv, Typed, OpenPullRequest PROVE Typed'
<1>1. /\ task.stage = "pull_request"
      /\ UNCHANGED <<main, ws, exec, remote, touched, accepted, late, tester, tested>>
      /\ \E stage \in {"done", "failed_github"} : Advance(stage)
    BY DEF OpenPullRequest
<1>2. task.call = 0 /\ main \in Trees /\ ws \in Checkouts
      /\ remote \in [by : {"none", "push", "api"}, tree : Trees]
    BY <1>1 DEF Inv, Prepared, Typed, Files
<1>3. remote.by # "none"
    BY <1>1 DEF Typed, Opened
<1>4. pr' \in BOOLEAN
    <2>1. pr \in BOOLEAN
        BY DEF Typed, Opened
    <2> QED
        BY <2>1 DEF OpenPullRequest
<1>5. PICK stage \in Stages \ {"coding", "testing"} : Advance(stage)
    BY <1>1 DEF Stages
<1>6. tester' # "awaited" /\ tester' \in {"idle", "abandoned"}
    BY <1>1, NotAwaited
<1> QED
    BY <1>1, <1>2, <1>3, <1>4, <1>5, <1>6, StageKeepsTyped

\* A restarted task has its posts again.
LEMMA RestartTaskKeepsTyped ==
    ASSUME Inv, Typed, RestartTask PROVE Typed'
<1>1. /\ UNCHANGED <<main, ws, exec, remote, pr, touched, accepted, late, tester, tested>>
      /\ task.stage # "testing"
      /\ \E stage \in {"coding", "testing", "preflight"} :
            task' = [stage |-> stage, call |-> 0, posts |-> 0, restarts |-> task.restarts + 1]
    BY DEF RestartTask
<1>2. task'.stage \in {"coding", "testing", "preflight"} /\ task'.call = 0 /\ task'.posts = 0
    BY <1>1
<1>3. Files'
    BY <1>1 DEF Typed, Files
<1>6. tester # "awaited" /\ tester' = tester /\ tester \in {"idle", "abandoned"}
    BY <1>1, NotAwaited
<1>4. Called'
    BY <1>2, <1>6, BoundsAssumption DEF Called, Stages
<1>5. Opened'
    BY <1>1, <1>2 DEF Typed, Opened
<1> QED
    BY <1>1, <1>3, <1>4, <1>5 DEF Typed

\* What others merge is a text.
LEMMA OthersMergeKeepsTyped ==
    ASSUME Inv, Typed, OthersMerge PROVE Typed'
<1>1. /\ \E p \in Paths : main' = [main EXCEPT ![p] = Theirs]
      /\ UNCHANGED <<ws, exec, task, remote, pr, touched, accepted, late, tester, tested>>
    BY DEF OthersMerge
<1>2. main' \in Trees
    BY <1>1, TextsAssumption DEF Typed, Files, Trees, Contents
<1>3. Files' /\ Called'
    BY <1>1, <1>2 DEF Typed, Files, Called
<1>4. Opened'
    BY <1>1 DEF Typed, Opened
<1> QED
    BY <1>1, <1>3, <1>4 DEF Typed

\* A step that changes nothing keeps the types.
LEMMA StutterKeepsTyped == ASSUME Typed, UNCHANGED vars PROVE Typed'
<1>1. Files' /\ Called'
    BY DEF Typed, Files, Called, vars
<1>2. Opened'
    BY DEF Typed, Opened, vars
<1>3. \A e \in Executions : Execution(exec'[e])
    BY DEF Typed, vars
<1> QED
    BY <1>1, <1>2, <1>3 DEF Typed

\* The types, with what is needed to keep them, hold in every reachable state.
LEMMA TypedHolds == Spec => []Typed
<1>1. Inv /\ Typed /\ [Next]_vars => Typed'
    <2> SUFFICES ASSUME Inv, Typed, [Next]_vars PROVE Typed'
        OBVIOUS
    <2>1. CASE Post \/ ConnectionBreaks \/ StageTimesOut \/ WorkerRestarts
        BY <2>1, PostKeepsTyped, CallEndsKeepsTyped, WorkerRestartsKeepsTyped
    <2>2. CASE Coding
        BY <2>2, PrepareKeepsTyped, CloneFailsKeepsTyped, AttemptPlansKeepsTyped,
           AttemptIsEmptyKeepsTyped, OpenHandsKeepsTyped DEF Coding
    <2>3. CASE Review \/ Testing \/ Github
        BY <2>3, ReviewKeepsTyped, TestsKeepTyped, CommandWritesKeepsTyped, CommitKeepsTyped,
           PublishingKeepsTyped, OpenPullRequestKeepsTyped DEF Testing, Github
    <2>4. CASE RestartTask \/ OthersMerge \/ UNCHANGED vars
        BY <2>4, RestartTaskKeepsTyped, OthersMergeKeepsTyped, StutterKeepsTyped
    <2> QED
        BY <2>1, <2>2, <2>3, <2>4 DEF Next
<1> QED
    BY <1>1, InitTyped, InvariantHolds, PTL DEF Spec

\* What a step rolls back is a plan of an answer, and it fails at files there are.
LEMMA UndoKept ==
    ASSUME Typed, UndoTyped, [Next]_vars PROVE UndoTyped'
<1>1. UndoTyped' \/ \E e \in Executions : AttemptPlans(e)
    <2>1. NothingUndone \in [operations : SUBSET Operations, faulty : SUBSET Paths]
        BY DEF NothingUndone
    <2>2. NoRollback \/ undo' = undo \/ \E e \in Executions : AttemptPlans(e)
        BY DEF Next, vars, Post, ConnectionBreaks, StageTimesOut, WorkerRestarts, Coding,
               Prepare, CloneFails, AttemptIsEmpty, OpenHandsAnswers, Review, Testing,
               PostTests, CommandWrites, TestsEnd, TestsAreLost, Github, Preflight, Commit,
               Push, PublishViaApi, OpenPullRequest, RestartTask, OthersMerge
    <2> QED
        BY <2>1, <2>2 DEF NoRollback, UndoTyped
<1>2. ASSUME NEW e \in Executions, AttemptPlans(e) PROVE UndoTyped'
    <2>1. ASSUME NoRollback PROVE UndoTyped'
        BY <2>1 DEF NoRollback, NothingUndone, UndoTyped
    <2>2. ASSUME NEW raw \in Plans, ApplyPlan(e, ws, ParseOperations(raw)) PROVE UndoTyped'
        <3> DEFINE plan == ParseOperations(raw)
        <3>1. plan \in Seq(Operations) /\ plan \in Seq(ValidOperations)
            BY ParsedIsPlan
        <3> HIDE DEF plan
        <3>2. PICK r \in ApplyEditPlan(ws.work, plan) :
                 undo' = IF r.ok THEN NothingUndone
                         ELSE [operations |-> {plan[i] : i \in 1..Len(plan)}, faulty |-> r.faulty]
            BY <2>2, Zenon DEF ApplyPlan, plan
        <3>3. ws.work \in Trees
            BY DEF Typed, Files, Checkouts
        <3>4. r.faulty \subseteq Paths
            BY <3>1, <3>3, PlanEnds
        <3>5. {plan[i] : i \in 1..Len(plan)} \subseteq Operations
            BY <3>1
        <3> QED
            BY <3>2, <3>4, <3>5 DEF NothingUndone, UndoTyped
    <2>3. NoRollback \/ \E raw \in Plans : ApplyPlan(e, ws, ParseOperations(raw))
        BY <1>2, Zenon DEF AttemptPlans
    <2> QED
        BY <2>1, <2>2, <2>3
<1> QED
    BY <1>1, <1>2

\* The state has its types for every repository and every answer of a model: whatever
\* a plan does, its files stay texts or absent; a task waits only for a call that was
\* posted, no more often than the retries allow, and a pull request is of a branch.
THEOREM TypesHold == Spec => []TypeOK
<1>1. Init => UndoTyped
    BY DEF Init, NothingUndone, UndoTyped
<1>2. Typed /\ UndoTyped /\ [Next]_vars => UndoTyped'
    BY UndoKept
<1>3. Typed /\ UndoTyped => TypeOK
    BY TypedIs
<1> QED
    BY <1>1, <1>2, <1>3, TypedHolds, PTL DEF Spec

-----------------------------------------------------------------------------
(* What a failed plan leaves *)

\* An answer that is a success or a failure rolls nothing back.
LEMMA AnswersAreNoRollback ==
    ASSUME Inv, NEW f \in Executions, NEW success, NEW v, NEW w, Answer(f, success, v, w),
           NEW e \in Executions, RolledBack(e)
    PROVE  FALSE
<1> DEFINE result == IF success THEN "success" ELSE "failure"
<1>1. exec' = [exec EXCEPT ![f] = [pc |-> "answered", batch |-> 0, result |-> result]]
    BY DEF Answer, Ends
<1>2. result \in {"success", "failure"}
    OBVIOUS
<1> HIDE DEF result
<1> QED
    BY <1>1, <1>2 DEF Inv, Shapes, RolledBack

\* Neither do the steps that answer nothing.
LEMMA SilentStepsAreNoRollback ==
    ASSUME Inv, NEW f \in Executions, NEW x, x.result = "none" \/ x.result = exec[f].result,
           exec' = [exec EXCEPT ![f] = x], NEW e \in Executions
    PROVE  ~RolledBack(e)
BY DEF Inv, Shapes, RolledBack

\* Neither does an execution outside the attempts of the language model.
LEMMA PrepareIsNoRollback ==
    ASSUME Inv, NEW f \in Executions, Prepare(f) \/ CloneFails(f) \/ OpenHandsAnswers(f),
           NEW e \in Executions, RolledBack(e)
    PROVE  FALSE
<1>1. \/ \E success, v, w : Answer(f, success, v, w)
      \/ \E pc : exec' = [exec EXCEPT ![f] = [pc |-> pc, batch |-> 1, result |-> "none"]]
    <2>1. CASE CloneFails(f) \/ OpenHandsAnswers(f)
        BY <2>1, Zenon DEF CloneFails, OpenHandsAnswers
    <2>2. ASSUME NEW v, GitRevert(f, v) \/ ReadmeFastPath(f, v) \/ TimeoutFastPath(f, v)
          PROVE  \E success, x, w : Answer(f, success, x, w)
        <3>1. CASE GitRevert(f, v)
            BY <3>1, Zenon DEF GitRevert
        <3>2. CASE ReadmeFastPath(f, v)
            BY <3>2, Zenon DEF ReadmeFastPath
        <3>3. CASE TimeoutFastPath(f, v)
            BY <3>3, Zenon DEF TimeoutFastPath
        <3> QED
            BY <2>2, <3>1, <3>2, <3>3
    <2>3. CASE Prepare(f)
        BY <2>2, <2>3, Zenon DEF Prepare
    <2> QED
        BY <2>1, <2>3
<1>2. ASSUME NEW pc, exec' = [exec EXCEPT ![f] = [pc |-> pc, batch |-> 1, result |-> "none"]]
      PROVE  FALSE
    <2> DEFINE x == [pc |-> pc, batch |-> 1, result |-> "none"]
    <2>1. x.result = "none" /\ exec' = [exec EXCEPT ![f] = x]
        BY <1>2
    <2> HIDE DEF x
    <2> QED
        BY <2>1, SilentStepsAreNoRollback, Zenon
<1> QED
    BY <1>1, <1>2, AnswersAreNoRollback

\* Neither does an attempt that is empty.
LEMMA EmptyIsNoRollback ==
    ASSUME Inv, NEW f \in Executions, AttemptIsEmpty(f), NEW e \in Executions, RolledBack(e)
    PROVE  FALSE
<1>1. \/ \E success, v, w : Answer(f, success, v, w)
      \/ \E error \in BOOLEAN : exec' = [exec EXCEPT ![f] = NextAttempt(exec[f], error)]
    BY Zenon DEF AttemptIsEmpty
<1>2. ASSUME NEW error \in BOOLEAN, exec' = [exec EXCEPT ![f] = NextAttempt(exec[f], error)]
      PROVE  FALSE
    <2>1. exec[f] \in [pc : Pcs, batch : Nat, result : {exec[f].result}]
        BY DEF Inv, Shapes
    <2> DEFINE x == NextAttempt(exec[f], error)
    <2>2. x \in [pc : Attempts, batch : Nat, result : {exec[f].result}]
        BY <2>1, NextAttemptIs
    <2>3. exec' = [exec EXCEPT ![f] = x]
        BY <1>2
    <2> HIDE DEF x
    <2>4. x.result = exec[f].result
        BY <2>2
    <2> QED
        BY <2>3, <2>4, SilentStepsAreNoRollback, Zenon
<1> QED
    BY <1>1, <1>2, AnswersAreNoRollback

\* What a plan that is rolled back leaves in `undo`.
Undo(plan, r) == [operations |-> {plan[i] : i \in 1..Len(plan)}, faulty |-> r.faulty]

\* An execution that rolls back is one whose plan failed.
LEMMA RollbackIsOfPlan ==
    ASSUME Inv, [Next]_vars, NEW e \in Executions, RolledBack(e)
    PROVE  \E raw \in Plans : \E r \in ApplyEditPlan(ws.work, ParseOperations(raw)) :
              /\ ~r.ok /\ ws' = Written(ws, r.tree)
              /\ undo' = Undo(ParseOperations(raw), r)
<1>1. PICK f \in Executions : AttemptPlans(f)
    <2>1. CASE Post
        <3>1. exec' = [exec EXCEPT ![NextCall].pc = "prepare"]
            BY <2>1 DEF Post
        <3>2. exec'[e].result = exec[e].result
            BY <3>1 DEF Inv, Shapes
        <3> QED
            BY <3>2 DEF RolledBack
    <2>2. CASE WorkerRestarts
        BY <2>2 DEF WorkerRestarts, Inv, Shapes, RolledBack
    <2>3. CASE exec' = exec
        BY <2>3 DEF RolledBack
    <2>4. CASE Coding
        BY <2>4, PrepareIsNoRollback, EmptyIsNoRollback DEF Coding
    <2> QED
        BY <2>1, <2>2, <2>3, <2>4 DEF Next, vars, ConnectionBreaks, StageTimesOut, Review,
           Testing, PostTests, CommandWrites, TestsEnd, TestsAreLost, Github, Preflight,
           Commit, Push, PublishViaApi, OpenPullRequest, RestartTask, OthersMerge
<1>2. PICK raw \in Plans : ApplyPlan(f, ws, ParseOperations(raw))
    <2>1. Answer(f, FALSE, ws, ws) \/ \E raw \in Plans : ApplyPlan(f, ws, ParseOperations(raw))
        BY <1>1, Zenon DEF AttemptPlans
    <2> QED
        BY <2>1, AnswersAreNoRollback
<1> DEFINE Result(r) == CASE ~r.ok -> "rolled_back"
                          [] r.ok /\ CurrentDiff(Written(ws, r.tree)) = {} -> "failure"
                          [] OTHER -> "success"
<1>3. PICK r \in ApplyEditPlan(ws.work, ParseOperations(raw)) :
         /\ Ends(f, Result(r), ws, Written(ws, r.tree))
         /\ undo' = IF r.ok THEN NothingUndone ELSE Undo(ParseOperations(raw), r)
    BY <1>2, Zenon DEF ApplyPlan, Undo
<1>4. /\ exec' = [exec EXCEPT ![f] = [pc |-> "answered", batch |-> 0, result |-> Result(r)]]
      /\ ws' = Written(ws, r.tree)
    BY <1>3 DEF Ends
<1>5. Result(r) = "rolled_back"
    <2> HIDE DEF Result
    <2> QED
        BY <1>4 DEF Inv, Shapes, RolledBack
<1>6. ~r.ok
    BY <1>5
<1>7. undo' = Undo(ParseOperations(raw), r)
    BY <1>3, <1>6
<1> QED
    BY <1>4, <1>6, <1>7

\* A plan that is rolled back leaves a file as it was, or as one of its own operations
\* deleted or created it, if the file system did not fail at it.
LEMMA RollbackUndoes ==
    ASSUME Inv, Typed, [Next]_vars, NEW e \in Executions, RolledBack(e),
           NEW p \in Paths \ undo'.faulty
    PROVE  \/ ws'.work[p] = ws.work[p]
           \/ \E op \in undo'.operations :
                 /\ op.file_path = p
                 /\ \/ op.action = "delete_file" /\ ws'.work[p] = Absent
                    \/ op.action = "create_file" /\ ws'.work[p] = op.new_content
<1>1. PICK raw \in Plans : \E r \in ApplyEditPlan(ws.work, ParseOperations(raw)) :
         /\ ~r.ok /\ ws' = Written(ws, r.tree)
         /\ undo' = Undo(ParseOperations(raw), r)
    BY RollbackIsOfPlan
<1> DEFINE plan == ParseOperations(raw)
<1>2. PICK r \in ApplyEditPlan(ws.work, plan) :
         ~r.ok /\ ws' = Written(ws, r.tree) /\ undo' = Undo(plan, r)
    BY <1>1
<1>3. plan \in Seq(Operations) /\ plan \in Seq(ValidOperations)
    BY ParsedIsPlan
<1> HIDE DEF plan
<1>4. ws \in Checkouts /\ ws.work \in Trees
    BY DEF Typed, Files, Checkouts
<1>5. ws'.work = r.tree
    BY <1>2, <1>4 DEF Written, Checkouts
<1>6. /\ undo'.operations = {plan[i] : i \in 1..Len(plan)}
      /\ undo'.faulty = r.faulty
    BY <1>2 DEF Undo
<1>7. r.tree[p] \in Traces(ws.work, plan, p)
    BY <1>2, <1>3, <1>4, <1>6, PlanEnds
<1>8. CASE r.tree[p] = ws.work[p]
    BY <1>5, <1>8
<1>9. ASSUME NEW i \in 1..Len(plan), plan[i].action \in {"create_file", "delete_file"},
             plan[i].file_path = p, r.tree[p] = Given(plan[i])
      PROVE  \E op \in undo'.operations :
                /\ op.file_path = p
                /\ \/ op.action = "delete_file" /\ ws'.work[p] = Absent
                   \/ op.action = "create_file" /\ ws'.work[p] = op.new_content
    <2>1. plan[i] \in undo'.operations
        BY <1>6
    <2> QED
        BY <1>5, <1>9, <2>1 DEF Given
<1> QED
    BY <1>7, <1>8, <1>9 DEF Traces

\* A plan that is rolled back leaves every file as it was, but one that an operation of
\* this plan deleted or created, whatever its operations are and however many there are
\* of them; nothing is said of a file at which the file system failed.
THEOREM RollbacksHold == Spec => FailedPlanUndoesEdits
<1>1. Inv /\ Typed /\ [Next]_vars =>
         [\A e \in Executions : RolledBack(e) =>
             \A p \in Paths \ undo'.faulty :
                 \/ ws'.work[p] = ws.work[p]
                 \/ \E op \in undo'.operations :
                       /\ op.file_path = p
                       /\ \/ op.action = "delete_file" /\ ws'.work[p] = Absent
                          \/ op.action = "create_file" /\ ws'.work[p] = op.new_content]_vars
    BY RollbackUndoes
<1> QED
    BY <1>1, TypedHolds, InvariantHolds, PTL DEF Spec, FailedPlanUndoesEdits
===============================================================================
