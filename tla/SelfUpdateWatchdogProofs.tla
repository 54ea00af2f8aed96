---------------------- MODULE SelfUpdateWatchdogProofs ----------------------
(***************************************************************************)
(* Proofs about SelfUpdateWatchdog, for every set of tasks, commits and    *)
(* targets, and every number of posts and restarts.                        *)
(***************************************************************************)
EXTENDS SelfUpdateWatchdog, TLAPS

\* The handler of the deploy worker goes on only with the state of a watchdog, and
\* the file is there before the rollout is.  A first post finds no file and no
\* coroutine, and only a restart of the rollback worker takes the one it starts away.
ArmedFirst ==
    \A t \in Tasks :
       /\ deployer[t] \in {"armed", "dispatching"} => snapshot[t] # "absent"
       /\ deployer[t] \in {"armed", "dispatching"} \/ rollout[t] # "none"
          => file[t] # "absent"
       /\ posts[t] = 0 => file[t] = "absent" /\ monitor[t] = "none"
       /\ posts[t] = 1 =>
            /\ t \in requests => file[t] = "absent"
            /\ t \in requests \/ deployer[t] = "posting" => monitor[t] = "none"
            /\ /\ restarts = 0
               /\ deployer[t] \in {"armed", "dispatching"} \/ rollout[t] # "none"
               => monitor[t] # "none"

\* Nothing on the host and in the watchdogs knows the target of the task yet.
Unseen(t) ==
    /\ head # Target[t] /\ rollout[t] = "none"
    /\ \A u \in Tasks : Target[t] \notin {previous[u], restoreTo[u]}

\* As long as a first post has not been answered, or its request may still be
\* handled, its target is unseen.
Untouched ==
    \A t \in Tasks :
       /\ posts[t] = 0 => t \notin requests /\ deployer[t] = "idle" /\ Unseen(t)
       /\ posts[t] = 1 /\ (t \in requests \/ deployer[t] = "posting")
          => deployer[t] \in {"idle", "posting", "lost"} /\ Unseen(t)
       /\ posts[t] = 1 => Target[t] \notin {previous[t], restoreTo[t]}

\* A script restores a commit that was read from the host.
ConcreteRestore ==
    \A t \in Tasks : restore[t] \in Restoring => restoreTo[t] \in Commits

Inv == TypeOK /\ ArmedFirst /\ Untouched /\ ConcreteRestore

-----------------------------------------------------------------------------
(* The initial states *)

\* The initial states satisfy the invariant.
LEMMA InitInv == Init => Inv
<1> SUFFICES ASSUME Init PROVE Inv
    OBVIOUS
<1>1. /\ file = [t \in Tasks |-> "absent"] /\ phase = [t \in Tasks |-> "published"]
      /\ deployer = [t \in Tasks |-> "idle"] /\ snapshot = [t \in Tasks |-> "absent"]
      /\ requests = {} /\ monitor = [t \in Tasks |-> "none"]
      /\ streak = [t \in Tasks |-> FALSE] /\ seen = [t \in Tasks |-> FALSE]
      /\ previous = [t \in Tasks |-> NoCommit] /\ restore = [t \in Tasks |-> "none"]
      /\ restoreTo = [t \in Tasks |-> NoCommit] /\ rollout = [t \in Tasks |-> "none"]
      /\ head = Base /\ live = Base /\ up = TRUE /\ broken \in SUBSET (Commits \ {Base})
      /\ heads = {Base} /\ restarts = 0
    BY Zenon DEF Init
<1>2. attempt = [t \in Tasks |-> 0]
    BY Zenon DEF Init
<1>3. posts = [t \in Tasks |-> 0]
    BY Zenon DEF Init
<1>4. TypeOK
    <2>1. attempt \in [Tasks -> 0..WorkerRetryAttempts]
        BY <1>2, BoundsAssumption
    <2>2. posts \in [Tasks -> 0..MaxPosts]
        BY <1>3, BoundsAssumption
    <2> QED
        BY <1>1, <2>1, <2>2, CommitsAssumption, BoundsAssumption
           DEF TypeOK, Phases, Statuses, Restoring
<1>5. \A t \in Tasks :
         /\ file[t] = "absent" /\ monitor[t] = "none" /\ deployer[t] = "idle"
         /\ t \notin requests /\ rollout[t] = "none"
         /\ previous[t] = NoCommit /\ restoreTo[t] = NoCommit
         /\ Target[t] \notin {head, NoCommit}
    BY <1>1, CommitsAssumption, Zenon
<1>6. 0 # 1
    OBVIOUS
<1>7. ArmedFirst
    BY <1>3, <1>5, <1>6, Zenon DEF ArmedFirst
<1>8. Untouched
    BY <1>3, <1>5, <1>6, Zenon DEF Untouched, Unseen
<1>9. ConcreteRestore
    BY <1>1, Zenon DEF ConcreteRestore, Restoring
<1> QED
    BY <1>4, <1>7, <1>8, <1>9 DEF Inv

-----------------------------------------------------------------------------
(* What a restart of the stack and the calls of the scripts preserve *)

\* Recreating the services keeps the types of the deploy stage.
LEMMA StackRestartsTypes ==
    ASSUME TypeOK, StackRestarts
    PROVE  /\ deployer' = [t \in Tasks |-> "idle"]
           /\ phase' \in [Tasks -> Phases]
           /\ snapshot' = snapshot /\ attempt' = attempt
BY DEF TypeOK, StackRestarts, Phases

\* A step keeps the target of a task unseen unless it is the task's own rollout.
LEMMA UnseenKept ==
    ASSUME Inv, NEW t \in Tasks, Unseen(t),
           rollout'[t] = "none",
           \/ head' = head
           \/ \E u \in Tasks : rollout[u] # "none" /\ head' = Target[u]
           \/ \E u \in Tasks : head' = restoreTo[u],
           \A u \in Tasks : previous'[u] \in {previous[u], head, NoCommit},
           \A u \in Tasks : restoreTo'[u] \in {restoreTo[u], previous[u]}
    PROVE  Unseen(t)'
<1>1. Target[t] # NoCommit
    BY CommitsAssumption
<1>2. head' # Target[t]
    BY TargetAssumption DEF Unseen
<1>3. ASSUME NEW u \in Tasks
      PROVE  Target[t] # previous'[u] /\ Target[t] # restoreTo'[u]
    BY <1>1, <1>3 DEF Unseen
<1> QED
    BY <1>2, <1>3 DEF Unseen

\* What a step must do to keep Untouched: new requests belong to a first post,
\* rollouts start from a handler that was answered.
LEMMA UntouchedKept ==
    ASSUME Inv,
           posts' = posts,
           requests' \subseteq requests,
           \A t \in Tasks : deployer'[t] = "posting" => deployer[t] = "posting",
           \A t \in Tasks : deployer[t] = "idle" => deployer'[t] = "idle",
           \A t \in Tasks : \/ deployer'[t] \in {deployer[t], "idle", "lost"}
                            \/ t \notin requests' \/ deployer[t] = "armed",
           \A t \in Tasks : rollout[t] = "none" =>
                              rollout'[t] = "none" \/ deployer[t] = "armed",
           \/ head' = head
           \/ \E u \in Tasks : rollout[u] # "none" /\ head' = Target[u]
           \/ \E u \in Tasks : head' = restoreTo[u],
           \A u \in Tasks : \/ previous'[u] = previous[u]
                            \/ u \in requests /\ previous'[u] \in {head, NoCommit},
           \A u \in Tasks : restoreTo'[u] \in {restoreTo[u], previous[u]}
    PROVE  Untouched'
<1> SUFFICES ASSUME NEW t \in Tasks
             PROVE  /\ posts'[t] = 0 => /\ t \notin requests' /\ deployer'[t] = "idle"
                                          /\ Unseen(t)'
                    /\ posts'[t] = 1 /\ (t \in requests' \/ deployer'[t] = "posting")
                       => deployer'[t] \in {"idle", "posting", "lost"} /\ Unseen(t)'
                    /\ posts'[t] = 1 => Target[t] \notin {previous'[t], restoreTo'[t]}
    BY DEF Untouched
<1>1. CASE posts[t] = 0
    <2>1. t \notin requests /\ deployer[t] = "idle" /\ Unseen(t)
        BY <1>1 DEF Inv, Untouched
    <2>2. Unseen(t)'
        BY <2>1, UnseenKept DEF Unseen
    <2> QED
        BY <1>1, <2>1, <2>2
<1>2. CASE posts[t] = 1 /\ (t \in requests \/ deployer[t] = "posting")
    <2>1. deployer[t] \in {"idle", "posting", "lost"} /\ Unseen(t)
        BY <1>2 DEF Inv, Untouched
    <2>2. Unseen(t)'
        BY <2>1, UnseenKept DEF Unseen
    <2>3. Target[t] \notin {previous'[t], restoreTo'[t]}
        BY <2>2 DEF Unseen
    <2> QED
        BY <1>2, <2>1, <2>2, <2>3
<1>3. CASE posts[t] # 0 /\ ~(posts[t] = 1 /\ (t \in requests \/ deployer[t] = "posting"))
    BY <1>3 DEF Inv, Untouched
<1> QED
    BY <1>1, <1>2, <1>3

-----------------------------------------------------------------------------
(* One lemma per action *)

\* The deploy worker begins a deploy.
LEMMA BeginDeployKeepsInv ==
    ASSUME Inv, NEW t \in Tasks, BeginDeploy(t) PROVE Inv'
<1>1. TypeOK'
    BY BoundsAssumption DEF Inv, TypeOK, BeginDeploy, Posts, workerVars, hostVars,
       Phases
<1>2. ArmedFirst'
    BY DEF Inv, TypeOK, ArmedFirst, Untouched, BeginDeploy, Posts, workerVars, hostVars
<1>3. Untouched'
    <2>1. \A u \in Tasks : Unseen(u)' <=> Unseen(u)
        BY DEF BeginDeploy, Posts, Unseen, workerVars, hostVars
    <2>2. posts[t] \in Nat
        BY BoundsAssumption DEF Inv, TypeOK
    <2>3. Unseen(t) => Target[t] \notin {previous[t], restoreTo[t]}
        BY DEF Unseen
    <2> QED
        BY <2>1, <2>2, <2>3 DEF Inv, TypeOK, Untouched, BeginDeploy, Posts,
           workerVars, hostVars
<1>4. ConcreteRestore'
    BY DEF Inv, TypeOK, ConcreteRestore, BeginDeploy, Posts, workerVars, hostVars
<1> QED
    BY <1>1, <1>2, <1>3, <1>4 DEF Inv

\* It posts again what was lost.
LEMMA PostAgainKeepsInv ==
    ASSUME Inv, NEW t \in Tasks, PostAgain(t) PROVE Inv'
<1>1. TypeOK'
    BY BoundsAssumption DEF Inv, TypeOK, PostAgain, Posts, workerVars, hostVars
<1>2. ArmedFirst'
    BY DEF Inv, TypeOK, ArmedFirst, Untouched, PostAgain, Posts, workerVars, hostVars
<1>3. Untouched'
    <2>1. \A u \in Tasks : Unseen(u)' <=> Unseen(u)
        BY DEF PostAgain, Posts, Unseen, workerVars, hostVars
    <2>2. posts[t] \in Nat
        BY BoundsAssumption DEF Inv, TypeOK
    <2> QED
        BY <2>1, <2>2 DEF Inv, TypeOK, Untouched, PostAgain, Posts, workerVars, hostVars
<1>4. ConcreteRestore'
    BY DEF Inv, TypeOK, ConcreteRestore, PostAgain, Posts, workerVars, hostVars
<1> QED
    BY <1>1, <1>2, <1>3, <1>4 DEF Inv

\* It gives up.
LEMMA GiveUpKeepsInv ==
    ASSUME Inv, NEW t \in Tasks, GiveUp(t) PROVE Inv'
<1>1. TypeOK'
    BY DEF Inv, TypeOK, Phases, GiveUp, workerVars, hostVars
<1>2. ArmedFirst'
    BY DEF Inv, TypeOK, ArmedFirst, GiveUp, workerVars, hostVars
<1>3. Untouched'
    BY UntouchedKept
       DEF Inv, TypeOK, GiveUp, workerVars, hostVars
<1>4. ConcreteRestore'
    BY DEF Inv, TypeOK, ConcreteRestore, GiveUp, workerVars, hostVars
<1> QED
    BY <1>1, <1>2, <1>3, <1>4 DEF Inv

\* It observes the stack it replaces.
LEMMA ObserveKeepsInv ==
    ASSUME Inv, NEW t \in Tasks, Observe(t) PROVE Inv'
<1>1. TypeOK'
    BY DEF Inv, TypeOK, Phases, Observe, Verdict, workerVars, hostVars
<1>2. ArmedFirst'
    BY DEF Inv, TypeOK, ArmedFirst, Observe, Verdict, workerVars, hostVars
<1>3. Untouched'
    BY UntouchedKept
       DEF Inv, TypeOK, Observe, Verdict, workerVars, hostVars
<1>4. ConcreteRestore'
    BY DEF Inv, TypeOK, ConcreteRestore, Observe, workerVars, hostVars
<1> QED
    BY <1>1, <1>2, <1>3, <1>4 DEF Inv

\* It cannot arm a watchdog.
LEMMA ArmingFailsKeepsInv ==
    ASSUME Inv, NEW t \in Tasks, ArmingFails(t) PROVE Inv'
<1>1. TypeOK'
    BY DEF Inv, TypeOK, Phases, ArmingFails, workerVars, hostVars
<1>2. ArmedFirst'
    BY DEF Inv, TypeOK, ArmedFirst, ArmingFails, workerVars, hostVars
<1>3. Untouched'
    BY UntouchedKept
       DEF Inv, TypeOK, ArmingFails, workerVars, hostVars
<1>4. ConcreteRestore'
    BY DEF Inv, TypeOK, ConcreteRestore, ArmingFails, workerVars, hostVars
<1> QED
    BY <1>1, <1>2, <1>3, <1>4 DEF Inv

\* It dispatches the update to the host.
LEMMA DispatchKeepsInv ==
    ASSUME Inv, NEW t \in Tasks, Dispatch(t) PROVE Inv'
<1>1. TypeOK'
    BY DEF Inv, TypeOK, Dispatch, workerVars
<1>2. ArmedFirst'
    BY DEF Inv, TypeOK, ArmedFirst, Dispatch, workerVars
<1>3. Untouched'
    BY UntouchedKept
       DEF Inv, TypeOK, Dispatch, workerVars
<1>4. ConcreteRestore'
    BY DEF Inv, TypeOK, ConcreteRestore, Dispatch, workerVars
<1> QED
    BY <1>1, <1>2, <1>3, <1>4 DEF Inv

\* The dispatch returns.
LEMMA DispatchReturnsKeepsInv ==
    ASSUME Inv, NEW t \in Tasks, DispatchReturns(t) PROVE Inv'
<1>1. TypeOK'
    BY DEF Inv, TypeOK, Statuses, Phases, DispatchReturns, workerVars, hostVars
<1>2. ArmedFirst'
    BY DEF Inv, TypeOK, ArmedFirst, DispatchReturns, workerVars, hostVars
<1>3. Untouched'
    BY UntouchedKept
       DEF Inv, TypeOK, DispatchReturns, workerVars, hostVars
<1>4. ConcreteRestore'
    BY DEF Inv, TypeOK, ConcreteRestore, DispatchReturns, workerVars, hostVars
<1> QED
    BY <1>1, <1>2, <1>3, <1>4 DEF Inv

\* The dispatch fails.
LEMMA DispatchFailsKeepsInv ==
    ASSUME Inv, NEW t \in Tasks, DispatchFails(t) PROVE Inv'
<1>1. TypeOK'
    BY DEF Inv, TypeOK, Statuses, Phases, DispatchFails, workerVars, hostVars
<1>2. ArmedFirst'
    BY DEF Inv, TypeOK, ArmedFirst, DispatchFails, workerVars, hostVars
<1>3. Untouched'
    BY UntouchedKept
       DEF Inv, TypeOK, DispatchFails, workerVars, hostVars
<1>4. ConcreteRestore'
    BY DEF Inv, TypeOK, ConcreteRestore, DispatchFails, workerVars, hostVars
<1> QED
    BY <1>1, <1>2, <1>3, <1>4 DEF Inv

\* The handler is lost.
LEMMA HandlerIsLostKeepsInv ==
    ASSUME Inv, NEW t \in Tasks, HandlerIsLost(t) PROVE Inv'
<1>1. TypeOK'
    BY DEF Inv, TypeOK, HandlerIsLost, workerVars, hostVars
<1>2. ArmedFirst'
    BY DEF Inv, TypeOK, ArmedFirst, HandlerIsLost, workerVars, hostVars
<1>3. Untouched'
    BY UntouchedKept
       DEF Inv, TypeOK, HandlerIsLost, workerVars, hostVars
<1>4. ConcreteRestore'
    BY DEF Inv, TypeOK, ConcreteRestore, HandlerIsLost, workerVars, hostVars
<1> QED
    BY <1>1, <1>2, <1>3, <1>4 DEF Inv

\* The watchdog starts.
LEMMA StartWatchdogKeepsInv ==
    ASSUME Inv, NEW t \in Tasks, StartWatchdog(t) PROVE Inv'
<1>1. TypeOK'
    BY DEF Inv, TypeOK, Statuses, Kept, StartWatchdog, Reply, workerVars, hostVars
<1>2. ArmedFirst'
    <2>1. /\ t \in requests /\ requests' = requests \ {t}
          /\ posts' = posts /\ restarts' = restarts /\ rollout' = rollout
          /\ file[t] \notin Kept => file'[t] = "armed" /\ monitor'[t] = "starting"
          /\ file[t] \in Kept => file'[t] = file[t] /\ monitor'[t] = monitor[t]
          /\ deployer'[t] # "posting"
          /\ \/ deployer'[t] = deployer[t] /\ snapshot'[t] = snapshot[t]
             \/ deployer[t] = "posting" /\ deployer'[t] = "armed"
                /\ snapshot'[t] \in Kept \cup {"armed"}
        BY DEF Inv, TypeOK, StartWatchdog, Reply, workerVars, hostVars
    <2>2. \A u \in Tasks \ {t} :
             /\ deployer'[u] = deployer[u] /\ snapshot'[u] = snapshot[u]
             /\ file'[u] = file[u] /\ monitor'[u] = monitor[u]
        BY DEF Inv, TypeOK, StartWatchdog, Reply, workerVars
    <2> QED
        BY <2>1, <2>2 DEF Inv, TypeOK, ArmedFirst, Untouched, Kept
<1>3. Untouched'
    BY UntouchedKept
       DEF Inv, TypeOK, StartWatchdog, Reply, workerVars, hostVars
<1>4. ConcreteRestore'
    BY DEF Inv, TypeOK, ConcreteRestore, StartWatchdog, workerVars, hostVars
<1> QED
    BY <1>1, <1>2, <1>3, <1>4 DEF Inv

\* It does not start.
LEMMA StartFailsKeepsInv ==
    ASSUME Inv, NEW t \in Tasks, StartFails(t) PROVE Inv'
<1>1. TypeOK'
    BY DEF Inv, TypeOK, Statuses, StartFails, deployVars, workerVars, hostVars
<1>2. ArmedFirst'
    BY DEF Inv, TypeOK, ArmedFirst, StartFails, deployVars, workerVars, hostVars
<1>3. Untouched'
    BY UntouchedKept
       DEF Inv, TypeOK, StartFails, deployVars, workerVars, hostVars
<1>4. ConcreteRestore'
    BY DEF Inv, TypeOK, ConcreteRestore, StartFails, workerVars, hostVars
<1> QED
    BY <1>1, <1>2, <1>3, <1>4 DEF Inv

\* The watchdog begins to monitor.
LEMMA MonitorStartsKeepsInv ==
    ASSUME Inv, NEW t \in Tasks, MonitorStarts(t) PROVE Inv'
<1>1. TypeOK'
    BY DEF Inv, TypeOK, Statuses, MonitorStarts, deployVars, hostVars
<1>2. ArmedFirst'
    BY DEF Inv, TypeOK, ArmedFirst, MonitorStarts, deployVars, hostVars
<1>3. Untouched'
    BY UntouchedKept
       DEF Inv, TypeOK, MonitorStarts, deployVars, hostVars
<1>4. ConcreteRestore'
    BY DEF Inv, TypeOK, ConcreteRestore, MonitorStarts, hostVars
<1> QED
    BY <1>1, <1>2, <1>3, <1>4 DEF Inv

\* The watchdog reads the checked-out commit.
LEMMA ReadHeadKeepsInv ==
    ASSUME Inv, NEW t \in Tasks, ReadHead(t) PROVE Inv'
<1>1. TypeOK'
    <2>1. PICK saw \in BOOLEAN : seen' = [seen EXCEPT ![t] = saw]
        BY Zenon DEF ReadHead
    <2>2. seen' \in [Tasks -> BOOLEAN]
        BY <2>1, Zenon DEF Inv, TypeOK
    <2> QED
        BY <2>2 DEF Inv, TypeOK, ReadHead, deployVars, hostVars
<1>2. ArmedFirst'
    BY DEF Inv, TypeOK, ArmedFirst, ReadHead, deployVars, hostVars
<1>3. Untouched'
    BY UntouchedKept
       DEF Inv, TypeOK, ReadHead, deployVars, hostVars
<1>4. ConcreteRestore'
    BY DEF Inv, TypeOK, ConcreteRestore, ReadHead, hostVars
<1> QED
    BY <1>1, <1>2, <1>3, <1>4 DEF Inv

\* The watchdog probes the stack.
LEMMA ProbeKeepsInv ==
    ASSUME Inv, NEW t \in Tasks, Probe(t) PROVE Inv'
<1>1. TypeOK'
    BY DEF Inv, TypeOK, Statuses, Probe, deployVars, hostVars
<1>2. ArmedFirst'
    BY DEF Inv, TypeOK, ArmedFirst, Probe, deployVars, hostVars
<1>3. Untouched'
    BY UntouchedKept
       DEF Inv, TypeOK, Probe, deployVars, hostVars
<1>4. ConcreteRestore'
    BY DEF Inv, TypeOK, ConcreteRestore, Probe, hostVars
<1> QED
    BY <1>1, <1>2, <1>3, <1>4 DEF Inv

\* The time of the watchdog is up.
LEMMA TimeOutKeepsInv ==
    ASSUME Inv, NEW t \in Tasks, TimeOut(t) PROVE Inv'
<1>1. TypeOK'
    BY DEF Inv, TypeOK, Statuses, TimeOut, deployVars, hostVars
<1>2. ArmedFirst'
    BY DEF Inv, TypeOK, ArmedFirst, TimeOut, deployVars, hostVars
<1>3. Untouched'
    BY UntouchedKept
       DEF Inv, TypeOK, TimeOut, deployVars, hostVars
<1>4. ConcreteRestore'
    BY DEF Inv, TypeOK, ConcreteRestore, TimeOut, hostVars
<1> QED
    BY <1>1, <1>2, <1>3, <1>4 DEF Inv

\* The watchdog asks for a restore.
LEMMA BeginRestoreKeepsInv ==
    ASSUME Inv, NEW t \in Tasks, BeginRestore(t) PROVE Inv'
<1>1. TypeOK'
    BY DEF Inv, TypeOK, Statuses, Restoring, BeginRestore, deployVars
<1>2. ArmedFirst'
    BY DEF Inv, TypeOK, ArmedFirst, BeginRestore, deployVars
<1>3. Untouched'
    BY UntouchedKept
       DEF Inv, TypeOK, BeginRestore, deployVars
<1>4. ConcreteRestore'
    BY DEF Inv, TypeOK, ConcreteRestore, Restoring, BeginRestore
<1> QED
    BY <1>1, <1>2, <1>3, <1>4 DEF Inv

\* The watchdog has the answer of a restore.
LEMMA EndRestoreKeepsInv ==
    ASSUME Inv, NEW t \in Tasks, EndRestore(t) PROVE Inv'
<1>1. TypeOK'
    BY DEF Inv, TypeOK, Statuses, Restoring, EndRestore, deployVars, hostVars
<1>2. ArmedFirst'
    BY DEF Inv, TypeOK, ArmedFirst, EndRestore, deployVars, hostVars
<1>3. Untouched'
    BY UntouchedKept
       DEF Inv, TypeOK, EndRestore, deployVars, hostVars
<1>4. ConcreteRestore'
    BY DEF Inv, TypeOK, ConcreteRestore, Restoring, EndRestore, hostVars
<1> QED
    BY <1>1, <1>2, <1>3, <1>4 DEF Inv

\* A call of the watchdog times out.
LEMMA CallTimesOutKeepsInv ==
    ASSUME Inv, NEW t \in Tasks, CallTimesOut(t) PROVE Inv'
<1>1. TypeOK'
    BY DEF Inv, TypeOK, CallTimesOut, deployVars, hostVars
<1>2. ArmedFirst'
    BY DEF Inv, TypeOK, ArmedFirst, CallTimesOut, deployVars, hostVars
<1>3. Untouched'
    BY UntouchedKept
       DEF Inv, TypeOK, CallTimesOut, deployVars, hostVars
<1>4. ConcreteRestore'
    BY DEF Inv, TypeOK, ConcreteRestore, CallTimesOut, workerVars, hostVars
<1> QED
    BY <1>1, <1>2, <1>3, <1>4 DEF Inv

\* The host takes the new commit.
LEMMA RolloutMergesKeepsInv ==
    ASSUME Inv, NEW t \in Tasks, RolloutMerges(t) PROVE Inv'
<1>1. TypeOK'
    <2>1. Target[t] \in Commits
        BY CommitsAssumption
    <2> QED
        BY <2>1
           DEF Inv, TypeOK, RolloutMerges, CheckOut, deployVars, workerVars
<1>2. ArmedFirst'
    BY DEF Inv, TypeOK, ArmedFirst, RolloutMerges, CheckOut, deployVars, workerVars
<1>3. Untouched'
    BY UntouchedKept
       DEF Inv, TypeOK, RolloutMerges, CheckOut, deployVars, workerVars
<1>4. ConcreteRestore'
    BY DEF Inv, TypeOK, ConcreteRestore, RolloutMerges, workerVars
<1> QED
    BY <1>1, <1>2, <1>3, <1>4 DEF Inv

\* The host builds it.
LEMMA RolloutBuildsKeepsInv ==
    ASSUME Inv, NEW t \in Tasks, RolloutBuilds(t) PROVE Inv'
<1>1. TypeOK'
    <2>1. Target[t] \in Commits
        BY CommitsAssumption
    <2>2. /\ deployer' \in [Tasks -> {"idle", "posting", "armed", "dispatching", "lost"}]
          /\ phase' \in [Tasks -> Phases] /\ snapshot' = snapshot /\ attempt' = attempt
        BY StackRestartsTypes DEF Inv, RolloutBuilds
    <2> QED
        BY <2>1, <2>2 DEF Inv, TypeOK, RolloutBuilds, workerVars
<1>2. ArmedFirst'
    BY StackRestartsTypes DEF Inv, TypeOK, ArmedFirst, RolloutBuilds, workerVars
<1>3. Untouched'
    BY StackRestartsTypes, UntouchedKept
       DEF Inv, TypeOK, RolloutBuilds, workerVars
<1>4. ConcreteRestore'
    BY DEF Inv, TypeOK, ConcreteRestore, RolloutBuilds, workerVars
<1> QED
    BY <1>1, <1>2, <1>3, <1>4 DEF Inv

\* The host's update fails.
LEMMA RolloutFailsKeepsInv ==
    ASSUME Inv, NEW t \in Tasks, RolloutFails(t) PROVE Inv'
<1>1. TypeOK'
    BY DEF Inv, TypeOK, RolloutFails, deployVars, workerVars
<1>2. ArmedFirst'
    BY DEF Inv, TypeOK, ArmedFirst, RolloutFails, deployVars, workerVars
<1>3. Untouched'
    BY UntouchedKept
       DEF Inv, TypeOK, RolloutFails, deployVars, workerVars
<1>4. ConcreteRestore'
    BY DEF Inv, TypeOK, ConcreteRestore, RolloutFails, workerVars
<1> QED
    BY <1>1, <1>2, <1>3, <1>4 DEF Inv

\* A restore checks out the old commit.
LEMMA RestoreChecksOutKeepsInv ==
    ASSUME Inv, NEW t \in Tasks, RestoreChecksOut(t) PROVE Inv'
<1>1. TypeOK'
    <2>1. restoreTo[t] \in Commits
        BY DEF Inv, ConcreteRestore, Restoring, RestoreChecksOut
    <2> QED
        BY <2>1 DEF Inv, TypeOK, Restoring, RestoreChecksOut, CheckOut, deployVars,
           workerVars
<1>2. ArmedFirst'
    BY DEF Inv, TypeOK, ArmedFirst, RestoreChecksOut, CheckOut, deployVars, workerVars
<1>3. Untouched'
    BY UntouchedKept
       DEF Inv, TypeOK, RestoreChecksOut, CheckOut, deployVars, workerVars
<1>4. ConcreteRestore'
    BY DEF Inv, TypeOK, ConcreteRestore, Restoring, RestoreChecksOut, workerVars
<1> QED
    BY <1>1, <1>2, <1>3, <1>4 DEF Inv

\* A restore builds it.
LEMMA RestoreBuildsKeepsInv ==
    ASSUME Inv, NEW t \in Tasks, RestoreBuilds(t) PROVE Inv'
<1>1. TypeOK'
    <2>1. restoreTo[t] \in Commits
        BY DEF Inv, ConcreteRestore, Restoring, RestoreBuilds
    <2>2. /\ deployer' \in [Tasks -> {"idle", "posting", "armed", "dispatching", "lost"}]
          /\ phase' \in [Tasks -> Phases] /\ snapshot' = snapshot /\ attempt' = attempt
        BY StackRestartsTypes DEF Inv, RestoreBuilds
    <2> QED
        BY <2>1, <2>2 DEF Inv, TypeOK, Restoring, RestoreBuilds, workerVars
<1>2. ArmedFirst'
    BY StackRestartsTypes DEF Inv, TypeOK, ArmedFirst, RestoreBuilds, workerVars
<1>3. Untouched'
    BY StackRestartsTypes, UntouchedKept
       DEF Inv, TypeOK, RestoreBuilds, workerVars
<1>4. ConcreteRestore'
    BY DEF Inv, TypeOK, ConcreteRestore, Restoring, RestoreBuilds, workerVars
<1> QED
    BY <1>1, <1>2, <1>3, <1>4 DEF Inv

\* A restore reads the commit that is checked out.
LEMMA RestoreSeesCommitKeepsInv ==
    ASSUME Inv, NEW t \in Tasks, RestoreSeesCommit(t) PROVE Inv'
<1>1. TypeOK'
    BY DEF Inv, TypeOK, Restoring, RestoreSeesCommit, deployVars, workerVars
<1>2. ArmedFirst'
    BY DEF Inv, TypeOK, ArmedFirst, RestoreSeesCommit, deployVars, workerVars
<1>3. Untouched'
    BY UntouchedKept
       DEF Inv, TypeOK, RestoreSeesCommit, deployVars, workerVars
<1>4. ConcreteRestore'
    BY DEF Inv, TypeOK, ConcreteRestore, Restoring, RestoreSeesCommit, workerVars
<1> QED
    BY <1>1, <1>2, <1>3, <1>4 DEF Inv

\* A restore verifies the stack.
LEMMA RestoreVerifiesKeepsInv ==
    ASSUME Inv, NEW t \in Tasks, RestoreVerifies(t) PROVE Inv'
<1>1. TypeOK'
    BY DEF Inv, TypeOK, Restoring, RestoreVerifies, deployVars, workerVars
<1>2. ArmedFirst'
    BY DEF Inv, TypeOK, ArmedFirst, RestoreVerifies, deployVars, workerVars
<1>3. Untouched'
    BY UntouchedKept
       DEF Inv, TypeOK, RestoreVerifies, deployVars, workerVars
<1>4. ConcreteRestore'
    BY DEF Inv, TypeOK, ConcreteRestore, Restoring, RestoreVerifies, workerVars
<1> QED
    BY <1>1, <1>2, <1>3, <1>4 DEF Inv

\* A restore fails.
LEMMA RestoreFailsKeepsInv ==
    ASSUME Inv, NEW t \in Tasks, RestoreFails(t) PROVE Inv'
<1>1. TypeOK'
    BY DEF Inv, TypeOK, Restoring, RestoreFails, deployVars, workerVars
<1>2. ArmedFirst'
    BY DEF Inv, TypeOK, ArmedFirst, RestoreFails, deployVars, workerVars
<1>3. Untouched'
    BY UntouchedKept
       DEF Inv, TypeOK, RestoreFails, deployVars, workerVars
<1>4. ConcreteRestore'
    BY DEF Inv, TypeOK, ConcreteRestore, Restoring, RestoreFails, workerVars
<1> QED
    BY <1>1, <1>2, <1>3, <1>4 DEF Inv

\* The rollback worker is restarted, and its restore is gone.
LEMMA RollbackWorkerRestartsKeepsInv ==
    ASSUME Inv, RollbackWorkerRestarts PROVE Inv'
<1>1. TypeOK'
    BY BoundsAssumption
       DEF Inv, TypeOK, RollbackWorkerRestarts, deployVars
<1>2. ArmedFirst'
    BY BoundsAssumption DEF Inv, TypeOK, ArmedFirst, RollbackWorkerRestarts, deployVars
<1>3. Untouched'
    BY UntouchedKept DEF Inv, RollbackWorkerRestarts, deployVars
<1>4. ConcreteRestore'
    BY DEF Inv, TypeOK, ConcreteRestore, Restoring, RollbackWorkerRestarts
<1> QED
    BY <1>1, <1>2, <1>3, <1>4 DEF Inv

\* The watchdogs start again after a restart of their container.
LEMMA BootKeepsInv ==
    ASSUME Inv, Boot PROVE Inv'
<1>1. TypeOK'
    BY DEF Inv, TypeOK, Boot, deployVars, workerVars
<1>2. ArmedFirst'
    BY DEF Inv, ArmedFirst, Boot, deployVars, workerVars
<1>3. Untouched'
    BY UntouchedKept DEF Inv, Boot, deployVars, workerVars
<1>4. ConcreteRestore'
    BY DEF Inv, TypeOK, ConcreteRestore, Boot, workerVars
<1> QED
    BY <1>1, <1>2, <1>3, <1>4 DEF Inv

\* A step that changes nothing keeps the invariant.
LEMMA StutterKeepsInv ==
    ASSUME Inv, UNCHANGED vars PROVE Inv'
<1>1. TypeOK'
    BY DEF Inv, TypeOK, vars, deployVars, workerVars, hostVars
<1>2. ArmedFirst'
    BY DEF Inv, ArmedFirst, vars, deployVars, workerVars, hostVars
<1>3. Untouched'
    BY UntouchedKept DEF Inv, vars, deployVars, workerVars, hostVars
<1>4. ConcreteRestore'
    BY DEF Inv, TypeOK, ConcreteRestore, vars, workerVars, hostVars
<1> QED
    BY <1>1, <1>2, <1>3, <1>4 DEF Inv

-----------------------------------------------------------------------------
(* Theorems *)

\* The inductive invariant holds in every reachable state.
THEOREM InvariantHolds == Spec => []Inv
<1>1. Inv /\ [Next]_vars => Inv'
    <2> SUFFICES ASSUME Inv, [Next]_vars PROVE Inv'
        OBVIOUS
    <2>1. ASSUME NEW t \in Tasks, Orchestrator(t) PROVE Inv'
        BY <2>1, BeginDeployKeepsInv, PostAgainKeepsInv, GiveUpKeepsInv,
           ObserveKeepsInv DEF Orchestrator
    <2>2. ASSUME NEW t \in Tasks, DeployWorker(t) PROVE Inv'
        BY <2>2, ArmingFailsKeepsInv, DispatchKeepsInv, DispatchReturnsKeepsInv,
           DispatchFailsKeepsInv, HandlerIsLostKeepsInv DEF DeployWorker
    <2>3. ASSUME NEW t \in Tasks,
                 StartWatchdog(t) \/ StartFails(t) \/ Watchdog(t) \/ TimeOut(t)
          PROVE  Inv'
        BY <2>3, StartWatchdogKeepsInv, StartFailsKeepsInv, CallTimesOutKeepsInv,
           MonitorStartsKeepsInv, ReadHeadKeepsInv, ProbeKeepsInv,
           BeginRestoreKeepsInv, EndRestoreKeepsInv, TimeOutKeepsInv DEF Watchdog
    <2>4. ASSUME NEW t \in Tasks, Host(t) PROVE Inv'
        BY <2>4, RolloutMergesKeepsInv, RolloutBuildsKeepsInv, RolloutFailsKeepsInv,
           RestoreChecksOutKeepsInv, RestoreBuildsKeepsInv, RestoreSeesCommitKeepsInv,
           RestoreVerifiesKeepsInv, RestoreFailsKeepsInv DEF Host
    <2>5. CASE RollbackWorkerRestarts
        BY <2>5, RollbackWorkerRestartsKeepsInv
    <2>6. CASE Boot
        BY <2>6, BootKeepsInv
    <2>7. CASE UNCHANGED vars
        BY <2>7, StutterKeepsInv
    <2> QED
        BY <2>1, <2>2, <2>3, <2>4, <2>5, <2>6, <2>7 DEF Next
<1> QED
    BY <1>1, InitInv, PTL DEF Spec

\* Types are correct for every value of the constants.
THEOREM TypesHold == Spec => []TypeOK
<1>1. Inv => TypeOK
    BY DEF Inv
<1> QED
    BY <1>1, InvariantHolds, PTL

\* No task rolls out before it has a state file, and a task posted once not before
\* its own watchdog was started, whatever fails; only a restart of the rollback worker
\* takes that one away.
THEOREM ArmingHolds == Spec => []RolloutIsArmed
<1>1. Inv => RolloutIsArmed
    BY DEF Inv, ArmedFirst, RolloutIsArmed
<1> QED
    BY <1>1, InvariantHolds, PTL

\* A task posted once is never rolled back to its own commit.
THEOREM LeavingHolds == Spec => []RollbackLeavesTarget
<1>1. Inv => RollbackLeavesTarget
    BY DEF Inv, Untouched, RollbackLeavesTarget
<1> QED
    BY <1>1, InvariantHolds, PTL

-----------------------------------------------------------------------------
(* What a watchdog calls healthy *)

\* The target of a task whose commit a poll saw, or which a file or the deploy
\* worker's copy of one calls healthy, has been on the host.
Sighted ==
    /\ head \in heads
    /\ \A t \in Tasks :
          seen[t] \/ file[t] = "healthy" \/ snapshot[t] = "healthy"
          => Target[t] \in heads

\* Nothing a step learns goes beyond what was known or what the host shows.
LEMMA SightedKept ==
    ASSUME Sighted, heads \subseteq heads', head' \in heads',
           \A u \in Tasks : seen'[u] => seen[u] \/ head = Target[u],
           \A u \in Tasks : file'[u] = "healthy"
                            => file[u] = "healthy" \/ snapshot[u] = "healthy" \/ seen[u],
           \A u \in Tasks : snapshot'[u] = "healthy"
                            => snapshot[u] = "healthy" \/ file[u] = "healthy"
    PROVE  Sighted'
BY DEF Sighted

\* The orchestrator and the deploy worker see nothing of the host themselves.
LEMMA DeployKeepsSighted ==
    ASSUME Inv, Sighted, NEW t \in Tasks, Orchestrator(t) \/ DeployWorker(t)
    PROVE  Sighted'
<1>1. /\ heads' = heads /\ head' = head /\ seen' = seen /\ snapshot' = snapshot
      BY DEF Orchestrator, DeployWorker, BeginDeploy, PostAgain, GiveUp, Posts,
         Observe, ArmingFails, Dispatch, DispatchReturns, DispatchFails,
         HandlerIsLost, workerVars, hostVars
<1>2. \A u \in Tasks : file'[u] = "healthy"
                       => file[u] = "healthy" \/ snapshot[u] = "healthy"
    BY DEF Inv, TypeOK, Orchestrator, DeployWorker, BeginDeploy, PostAgain, GiveUp,
       Posts, Observe, ArmingFails, Dispatch, DispatchReturns, DispatchFails,
       HandlerIsLost
<1>3. head' \in heads' /\ heads \subseteq heads'
    BY <1>1 DEF Sighted
<1> QED
    BY <1>1, <1>2, <1>3, SightedKept

\* A poll sees the target only on the host, and the file is healthy only after it.
LEMMA WatchdogKeepsSighted ==
    ASSUME Inv, Sighted, NEW t \in Tasks,
           StartWatchdog(t) \/ StartFails(t) \/ Watchdog(t) \/ TimeOut(t)
    PROVE  Sighted'
<1>1. heads' = heads /\ head' = head
    BY DEF StartWatchdog, StartFails, Watchdog, TimeOut, MonitorStarts, ReadHead, Probe,
           BeginRestore, EndRestore, CallTimesOut, hostVars
<1>2. \A u \in Tasks : seen'[u] => seen[u] \/ head = Target[u]
    <2>1. CASE ReadHead(t)
        <3>1. PICK saw \in {FALSE, head = Target[t]} : seen' = [seen EXCEPT ![t] = saw]
            BY <2>1, Zenon DEF ReadHead
        <3>2. saw => head = Target[t]
            BY <3>1, Zenon
        <3>3. seen \in [Tasks -> BOOLEAN]
            BY DEF Inv, TypeOK
        <3>4. seen'[t] = saw /\ \A u \in Tasks \ {t} : seen'[u] = seen[u]
            BY <3>1, <3>3, Zenon
        <3> QED
            BY <3>2, <3>4, Zenon
    <2>2. CASE ~ReadHead(t)
        <3>1. seen' = seen
            BY <2>2 DEF StartWatchdog, StartFails, Watchdog, TimeOut, MonitorStarts,
               Probe, BeginRestore, EndRestore, CallTimesOut, workerVars
        <3> QED
            BY <3>1
    <2> QED
        BY <2>1, <2>2
<1>3. \A u \in Tasks : file'[u] = "healthy" => file[u] = "healthy" \/ seen[u]
    <2>1. CASE Probe(t)
        <3>1. PICK answered \in BOOLEAN :
                 file' = [file EXCEPT ![t] = IF answered /\ seen[t] /\ streak[t]
                                             THEN "healthy" ELSE "monitoring"]
            BY <2>1 DEF Probe, Inv, TypeOK
        <3> QED
            BY <3>1 DEF Inv, TypeOK
    <2>2. CASE ~Probe(t)
        BY <2>2 DEF Inv, TypeOK, StartWatchdog, StartFails, Watchdog, TimeOut,
           MonitorStarts, ReadHead, BeginRestore, EndRestore, CallTimesOut
    <2> QED
        BY <2>1, <2>2
<1>4. \A u \in Tasks : snapshot'[u] = "healthy"
                       => snapshot[u] = "healthy" \/ file[u] = "healthy"
    BY DEF Inv, TypeOK, StartWatchdog, StartFails, Reply, Watchdog, TimeOut,
       MonitorStarts, ReadHead, Probe, BeginRestore, EndRestore, CallTimesOut,
       deployVars
<1>5. head' \in heads' /\ heads \subseteq heads'
    BY <1>1 DEF Sighted
<1> QED
    BY <1>2, <1>3, <1>4, <1>5, SightedKept

\* What the host checks out is among the heads it had.
LEMMA HostKeepsSighted ==
    ASSUME Inv, Sighted, NEW t \in Tasks, Host(t)
    PROVE  Sighted'
<1>1. file' = file /\ seen' = seen /\ snapshot' = snapshot
    BY DEF Host, RolloutMerges, RolloutBuilds, RolloutFails, RestoreChecksOut,
           RestoreBuilds, RestoreSeesCommit, RestoreVerifies, RestoreFails,
           StackRestarts, deployVars, workerVars
<1>2. head' \in heads' /\ heads \subseteq heads'
    BY DEF Host, RolloutMerges, RolloutBuilds, RolloutFails, RestoreChecksOut,
           RestoreBuilds, RestoreSeesCommit, RestoreVerifies, RestoreFails, CheckOut,
           Sighted
<1> QED
    BY <1>1, <1>2, SightedKept

\* A task is only called healthy if its own commit has been on the host.
THEOREM HealthySightings == Spec => []HealthySawOwnCommit
<1>1. Init => Sighted
    BY DEF Init, Sighted
<1>2. Inv /\ Sighted /\ [Next]_vars => Sighted'
    <2> SUFFICES ASSUME Inv, Sighted, [Next]_vars PROVE Sighted'
        OBVIOUS
    <2>1. CASE RollbackWorkerRestarts \/ Boot \/ UNCHANGED vars
        <3>1. /\ file' = file /\ seen' = seen /\ snapshot' = snapshot
              /\ head' = head /\ heads' = heads
            BY <2>1 DEF RollbackWorkerRestarts, Boot, vars, deployVars, workerVars,
                        hostVars
        <3> QED
            BY <3>1 DEF Sighted
    <2> QED
        BY <2>1, DeployKeepsSighted, WatchdogKeepsSighted, HostKeepsSighted DEF Next
<1>3. Sighted => HealthySawOwnCommit
    BY DEF Sighted, HealthySawOwnCommit
<1> QED
    BY <1>1, <1>2, <1>3, InvariantHolds, PTL DEF Spec

-----------------------------------------------------------------------------
(* What the file says while the host is moved back *)

\* A task posted once, if the deadline lies behind the dispatch: the deploy worker is
\* through with the file when the rollback begins.
FirstRun(t) ==
    /\ deployer[t] \in {"armed", "dispatching"}
       => snapshot[t] = "armed" /\ monitor[t] \notin {"capturing", "restoring"}
    /\ monitor[t] = "restoring" => file[t] = "rollback_running"

Announced == \A t \in Tasks : posts[t] = 1 => FirstRun(t)

\* A step of one task leaves the others alone.
LEMMA OthersStayAnnounced ==
    ASSUME Announced, NEW t \in Tasks,
           \A u \in Tasks \ {t} :
              /\ posts'[u] = posts[u] /\ monitor'[u] = monitor[u]
              /\ file'[u] = file[u] /\ deployer'[u] = deployer[u]
              /\ snapshot'[u] = snapshot[u],
           posts'[t] = 1 => FirstRun(t)'
    PROVE  Announced'
<1> SUFFICES ASSUME NEW u \in Tasks, posts'[u] = 1
             PROVE  FirstRun(u)'
    BY DEF Announced
<1>1. CASE u = t
    BY <1>1
<1>2. CASE u # t
    BY <1>2 DEF Announced, FirstRun
<1> QED
    BY <1>1, <1>2

\* A post counts: only the first one, of a task that has no watchdog, leads to one.
LEMMA PostCounts ==
    ASSUME Inv, NEW t \in Tasks, BeginDeploy(t) \/ PostAgain(t), posts'[t] = 1
    PROVE  posts[t] = 0 /\ monitor[t] = "none" /\ file[t] = "absent"
<1>1. posts[t] \in Nat /\ posts'[t] = posts[t] + 1
    BY BoundsAssumption DEF Inv, TypeOK, BeginDeploy, PostAgain, Posts
<1>2. posts[t] = 0
    BY <1>1
<1> QED
    BY <1>2 DEF Inv, ArmedFirst

\* A first post finds no watchdog and no file.
LEMMA DeployKeepsAnnounced ==
    ASSUME Inv, Announced, NEW t \in Tasks, Orchestrator(t) \/ DeployWorker(t)
    PROVE  Announced'
<1>1. /\ monitor' = monitor /\ snapshot' = snapshot
      /\ \A u \in Tasks \ {t} :
            /\ posts'[u] = posts[u] /\ monitor'[u] = monitor[u]
            /\ file'[u] = file[u] /\ deployer'[u] = deployer[u]
            /\ snapshot'[u] = snapshot[u]
    BY DEF Inv, TypeOK, Orchestrator, DeployWorker, BeginDeploy, PostAgain, GiveUp,
       Posts, Observe, ArmingFails, Dispatch, DispatchReturns, DispatchFails,
       HandlerIsLost,
           workerVars, hostVars
<1>2. CASE BeginDeploy(t) \/ PostAgain(t)
    <2>1. file' = file /\ deployer'[t] = "posting"
        BY <1>2 DEF BeginDeploy, PostAgain, Posts, Inv, TypeOK
    <2>2. posts'[t] = 1 => FirstRun(t)'
        BY <1>1, <1>2, <2>1, PostCounts DEF FirstRun
    <2> QED
        BY <1>1, <2>2, OthersStayAnnounced
<1>3. CASE GiveUp(t) \/ Observe(t) \/ ArmingFails(t) \/ Dispatch(t) \/ HandlerIsLost(t)
    <2>1. /\ file' = file /\ posts' = posts
          /\ \/ deployer'[t] \in {deployer[t], "idle", "lost"}
             \/ deployer[t] = "armed" /\ deployer'[t] = "dispatching"
        BY <1>3 DEF Inv, TypeOK, GiveUp, Observe, ArmingFails, Dispatch, HandlerIsLost
    <2> QED
        BY <1>1, <2>1, OthersStayAnnounced DEF Announced, FirstRun
<1>4. CASE DispatchReturns(t) \/ DispatchFails(t)
    <2>1. /\ deployer[t] \in {"armed", "dispatching"} /\ deployer'[t] = "idle"
          /\ posts' = posts
        BY <1>4 DEF Inv, TypeOK, DispatchReturns, DispatchFails
    <2> QED
        BY <1>1, <2>1, OthersStayAnnounced DEF Announced, FirstRun
<1> QED
    BY <1>2, <1>3, <1>4 DEF Orchestrator, DeployWorker

\* A first request starts its watchdog, or fails, on no file.
LEMMA StartKeepsAnnounced ==
    ASSUME Inv, Announced, NEW t \in Tasks, StartWatchdog(t) \/ StartFails(t)
    PROVE  Announced'
<1>1. /\ \A u \in Tasks \ {t} :
            /\ posts'[u] = posts[u] /\ monitor'[u] = monitor[u]
            /\ file'[u] = file[u] /\ deployer'[u] = deployer[u]
            /\ snapshot'[u] = snapshot[u]
      /\ posts' = posts
    BY DEF Inv, TypeOK, StartWatchdog, StartFails, Reply, deployVars, workerVars
<1>2. ASSUME posts[t] = 1
      PROVE  /\ file[t] = "absent" /\ monitor[t] = "none"
             /\ deployer[t] \in {"idle", "posting", "lost"}
    BY <1>2 DEF StartWatchdog, StartFails, Inv, ArmedFirst, Untouched
<1>3. CASE StartWatchdog(t)
    <2>1. ASSUME posts[t] = 1
          PROVE  /\ monitor'[t] = "starting"
                 /\ deployer'[t] = "armed" => snapshot'[t] = "armed"
                 /\ deployer'[t] # "dispatching"
        BY <1>2, <1>3, <2>1 DEF StartWatchdog, Reply, Kept, Inv, TypeOK
    <2> QED
        BY <1>1, <2>1, OthersStayAnnounced DEF FirstRun
<1>4. CASE StartFails(t)
    <2>1. monitor' = monitor /\ deployer' = deployer
        BY <1>4 DEF StartFails, deployVars, workerVars
    <2> QED
        BY <1>1, <1>2, <2>1, OthersStayAnnounced DEF FirstRun
<1> QED
    BY <1>3, <1>4

\* A watchdog writes the rollback into its file before it asks for it.
LEMMA WatchdogKeepsAnnounced ==
    ASSUME Inv, Announced, DefaultTiming, NEW t \in Tasks, Watchdog(t) \/ TimeOut(t)
    PROVE  Announced'
<1>1. /\ \A u \in Tasks \ {t} :
            /\ posts'[u] = posts[u] /\ monitor'[u] = monitor[u]
            /\ file'[u] = file[u] /\ deployer'[u] = deployer[u]
            /\ snapshot'[u] = snapshot[u]
      /\ posts' = posts
      /\ deployer' = deployer /\ snapshot' = snapshot
    BY DEF Inv, TypeOK, Watchdog, TimeOut, MonitorStarts, ReadHead, Probe, BeginRestore,
           EndRestore, CallTimesOut, deployVars
<1>2. ASSUME posts[t] = 1 PROVE FirstRun(t)'
    <2>1. FirstRun(t)
        BY <1>2 DEF Announced
    <2>2. CASE MonitorStarts(t) \/ ReadHead(t) \/ EndRestore(t) \/ CallTimesOut(t)
        <3>1. monitor'[t] \in {"polling", "probing", "done", "dead"}
            BY <2>2 DEF Inv, TypeOK, MonitorStarts, ReadHead, EndRestore, CallTimesOut
        <3> QED
            BY <1>1, <2>1, <3>1 DEF FirstRun
    <2>3. CASE Probe(t)
        <3>1. monitor'[t] \in {"polling", "done"}
            BY <2>3 DEF Inv, TypeOK, Probe
        <3> QED
            BY <1>1, <2>1, <3>1 DEF FirstRun
    <2>4. CASE TimeOut(t)
        <3>1. /\ monitor'[t] = "capturing"
              /\ snapshot[t] = "armed" => deployer[t] \notin {"armed", "dispatching"}
            BY <2>4 DEF Inv, TypeOK, TimeOut
        <3> QED
            BY <1>1, <2>1, <3>1 DEF FirstRun
    <2>5. CASE BeginRestore(t)
        <3>1. /\ monitor[t] = "capturing"
              /\ \/ monitor'[t] = "done"
                 \/ monitor'[t] = "restoring" /\ file'[t] = "rollback_running"
            BY <2>5 DEF Inv, TypeOK, BeginRestore
        <3> QED
            BY <1>1, <2>1, <3>1 DEF FirstRun
    <2> QED
        BY <2>2, <2>3, <2>4, <2>5 DEF Watchdog
<1> QED
    BY <1>1, <1>2, OthersStayAnnounced

\* Steps of the host, and a restart of the rollback worker, that only end handlers
\* and coroutines.
LEMMA EndingsKeepAnnounced ==
    ASSUME Announced, posts' = posts, file' = file, snapshot' = snapshot,
           \A u \in Tasks : deployer'[u] \in {deployer[u], "idle"},
           \A u \in Tasks : monitor'[u] \in {monitor[u], "none"}
    PROVE  Announced'
BY DEF Announced, FirstRun

\* The host writes no file, and starts no restore.
LEMMA HostKeepsAnnounced ==
    ASSUME Inv, Announced, NEW t \in Tasks, Host(t)
    PROVE  Announced'
<1>1. /\ posts' = posts /\ file' = file /\ snapshot' = snapshot
      /\ monitor' = monitor
    BY DEF Host, RolloutMerges, RolloutBuilds, RolloutFails, RestoreChecksOut,
           RestoreBuilds, RestoreSeesCommit, RestoreVerifies, RestoreFails,
           StackRestarts, deployVars, workerVars
<1>2. \A u \in Tasks : deployer'[u] \in {deployer[u], "idle"}
    BY DEF Host, RolloutMerges, RolloutBuilds, RolloutFails, RestoreChecksOut,
           RestoreBuilds, RestoreSeesCommit, RestoreVerifies, RestoreFails,
           StackRestarts, deployVars
<1> QED
    BY <1>1, <1>2, EndingsKeepAnnounced

\* At first nothing is posted.
LEMMA InitAnnounced == Init => Announced
<1> SUFFICES ASSUME Init, NEW t \in Tasks PROVE FirstRun(t)
    BY DEF Announced
<1>1. deployer[t] = "idle" /\ monitor[t] = "none"
    BY Zenon DEF Init
<1> QED
    BY <1>1 DEF FirstRun

\* If the deadline lies behind the dispatch, first posts run as announced.
LEMMA AnnouncedHolds == DefaultTiming /\ Spec => []Announced
<1> SUFFICES ASSUME DefaultTiming PROVE Spec => []Announced
    OBVIOUS
<1>1. Init => Announced
    BY InitAnnounced
<1>2. Inv /\ Announced /\ [Next]_vars => Announced'
    <2> SUFFICES ASSUME Inv, Announced, [Next]_vars PROVE Announced'
        OBVIOUS
    <2>1. CASE RollbackWorkerRestarts
        <3>1. /\ posts' = posts /\ file' = file /\ snapshot' = snapshot
              /\ deployer' = deployer
              /\ \A u \in Tasks : monitor'[u] \in {monitor[u], "none"}
            BY <2>1 DEF RollbackWorkerRestarts, deployVars
        <3> QED
            BY <3>1, EndingsKeepAnnounced
    <2>2. CASE Boot \/ UNCHANGED vars
        <3>1. /\ posts' = posts /\ file' = file /\ snapshot' = snapshot
              /\ deployer' = deployer /\ monitor' = monitor
            BY <2>2 DEF Boot, vars, deployVars, workerVars
        <3> QED
            BY <3>1, EndingsKeepAnnounced
    <2> QED
        BY <2>1, <2>2, DeployKeepsAnnounced, StartKeepsAnnounced,
           WatchdogKeepsAnnounced, HostKeepsAnnounced DEF Next
<1> QED
    BY <1>1, <1>2, InvariantHolds, PTL DEF Spec

\* If the deadline lies behind the dispatch, the file of a task posted once shows
\* its rollback for as long as a watchdog has the host moved back.
THEOREM RestoresShow == DefaultTiming /\ Spec => []RestoreShowsInFile
<1>1. Announced => RestoreShowsInFile
    BY DEF Announced, FirstRun, RestoreShowsInFile
<1> QED
    BY <1>1, AnnouncedHolds, PTL

-----------------------------------------------------------------------------
(* How the file of a task goes on *)

\* What the watchdog makes of a file; a failed dispatch is overwritten by its next
\* poll, and healthy, rolled back and a failed rollback are final.
Follows(status, next) ==
    \/ status = "absent" /\ next = "armed"
    \/ status \in {"armed", "dispatch_failed"}
       /\ next \in {"monitoring", "healthy", "timed_out"}
    \/ status = "monitoring" /\ next \in {"healthy", "timed_out"}
    \/ status = "timed_out" /\ next \in {"rollback_running", "rollback_failed"}
    \/ status = "rollback_running" /\ next \in {"rolled_back", "rollback_failed"}

\* What the deploy worker writes over it when its dispatch ends, before any timeout.
Overwrites(status, next) ==
    status \in {"armed", "monitoring", "healthy"} /\ next \in {"armed", "dispatch_failed"}

Moves(t) ==
    \/ file'[t] = file[t]
    \/ Follows(file[t], file'[t])
    \/ phase[t] = "deploying" /\ Overwrites(file[t], file'[t])

\* After a first post the coroutine, and the handler, find the file where they
\* left it.
Along(t) ==
    /\ monitor[t] = "starting" => file[t] \in {"armed", "dispatch_failed"}
    /\ monitor[t] \in {"polling", "probing"}
       => file[t] \in {"armed", "monitoring", "dispatch_failed"}
    /\ monitor[t] = "capturing" => file[t] = "timed_out"
    /\ deployer[t] \in {"armed", "dispatching"}
       => file[t] \in {"armed", "monitoring", "healthy"}

FileAlong ==
    \A t \in Tasks :
       /\ deployer[t] # "idle" => phase[t] = "deploying"
       /\ posts[t] = 1 => Along(t)

FileMoves == \A t \in Tasks : posts'[t] = 1 => Moves(t)

\* A step of one task leaves the files of the others alone.
LEMMA OthersStayAlong ==
    ASSUME FileAlong, NEW t \in Tasks,
           \A u \in Tasks \ {t} :
              /\ posts'[u] = posts[u] /\ monitor'[u] = monitor[u]
              /\ file'[u] = file[u] /\ deployer'[u] = deployer[u]
              /\ phase'[u] = phase[u],
           deployer'[t] # "idle" => phase'[t] = "deploying",
           posts'[t] = 1 => Along(t)' /\ Moves(t)
    PROVE  FileAlong' /\ FileMoves
<1> SUFFICES ASSUME NEW u \in Tasks
             PROVE  /\ deployer'[u] # "idle" => phase'[u] = "deploying"
                    /\ posts'[u] = 1 => Along(u)' /\ Moves(u)
    BY DEF FileAlong, FileMoves
<1>1. CASE u = t
    BY <1>1
<1>2. CASE u # t
    BY <1>2 DEF FileAlong, Along, Moves
<1> QED
    BY <1>1, <1>2

\* The handler writes before the rollback begins, and while the stage is deploying.
LEMMA DeployMoves ==
    ASSUME Inv, Announced, FileAlong, NEW t \in Tasks, Orchestrator(t) \/ DeployWorker(t)
    PROVE  FileAlong' /\ FileMoves
<1>1. /\ monitor' = monitor
      /\ \A u \in Tasks \ {t} :
            /\ posts'[u] = posts[u] /\ monitor'[u] = monitor[u]
            /\ file'[u] = file[u] /\ deployer'[u] = deployer[u]
            /\ phase'[u] = phase[u]
    BY DEF Inv, TypeOK, Orchestrator, DeployWorker, BeginDeploy, PostAgain, GiveUp,
       Posts, Observe, ArmingFails, Dispatch, DispatchReturns, DispatchFails,
       HandlerIsLost,
           workerVars, hostVars
<1>2. CASE BeginDeploy(t) \/ PostAgain(t)
    <2>1. file' = file /\ deployer'[t] = "posting" /\ phase'[t] = "deploying"
        BY <1>2 DEF BeginDeploy, PostAgain, Posts, Inv, TypeOK, FileAlong
    <2>2. posts'[t] = 1 => Along(t)' /\ Moves(t)
        BY <1>1, <1>2, <2>1, PostCounts DEF Along, Moves
    <2> QED
        BY <1>1, <2>1, <2>2, OthersStayAlong
<1>3. CASE GiveUp(t) \/ Observe(t) \/ ArmingFails(t) \/ Dispatch(t) \/ HandlerIsLost(t)
    <2>1. /\ file' = file /\ posts' = posts
          /\ \/ deployer'[t] = "idle"
             \/ deployer'[t] = deployer[t] /\ phase[t] = "self_updating"
             \/ deployer[t] # "idle" /\ deployer'[t] = "lost" /\ phase'[t] = phase[t]
             \/ deployer[t] = "armed" /\ deployer'[t] = "dispatching"
                /\ phase'[t] = phase[t]
        BY <1>3 DEF Inv, TypeOK, GiveUp, Observe, ArmingFails, Dispatch, HandlerIsLost
    <2> QED
        BY <1>1, <2>1, OthersStayAlong DEF FileAlong, Along, Moves
<1>4. CASE DispatchReturns(t) \/ DispatchFails(t)
    <2>1. /\ deployer[t] \in {"armed", "dispatching"} /\ deployer'[t] = "idle"
          /\ posts' = posts /\ file'[t] \in {snapshot[t], "dispatch_failed"}
        BY <1>4 DEF Inv, TypeOK, DispatchReturns, DispatchFails
    <2>2. phase[t] = "deploying"
        BY <2>1 DEF FileAlong
    <2>3. ASSUME posts[t] = 1 PROVE Along(t)' /\ Moves(t)
        <3>1. /\ snapshot[t] = "armed"
              /\ monitor[t] \notin {"capturing", "restoring"}
              /\ file[t] \in {"armed", "monitoring", "healthy"}
            BY <2>1, <2>3 DEF Announced, FirstRun, FileAlong, Along
        <3> QED
            BY <1>1, <2>1, <2>2, <3>1 DEF Along, Moves, Overwrites
    <2> QED
        BY <1>1, <2>1, <2>3, OthersStayAlong
<1> QED
    BY <1>2, <1>3, <1>4 DEF Orchestrator, DeployWorker

\* A first request starts its watchdog, or fails, on no file.
LEMMA StartMoves ==
    ASSUME Inv, FileAlong, NEW t \in Tasks, StartWatchdog(t) \/ StartFails(t)
    PROVE  FileAlong' /\ FileMoves
<1>1. /\ \A u \in Tasks \ {t} :
            /\ posts'[u] = posts[u] /\ monitor'[u] = monitor[u]
            /\ file'[u] = file[u] /\ deployer'[u] = deployer[u]
            /\ phase'[u] = phase[u]
      /\ posts' = posts /\ phase' = phase
    BY DEF Inv, TypeOK, StartWatchdog, StartFails, Reply, deployVars, workerVars
<1>2. deployer'[t] # "idle" => deployer[t] # "idle"
    BY DEF Inv, TypeOK, StartWatchdog, StartFails, Reply, deployVars
<1>3. ASSUME posts[t] = 1 PROVE Along(t)' /\ Moves(t)
    <2>1. file[t] = "absent" /\ monitor[t] = "none"
        BY <1>3 DEF StartWatchdog, StartFails, Inv, ArmedFirst
    <2>2. CASE StartWatchdog(t)
        <3>1. monitor'[t] = "starting" /\ file'[t] = "armed"
            BY <2>1, <2>2 DEF StartWatchdog, Kept, Inv, TypeOK
        <3> QED
            BY <2>1, <3>1 DEF Along, Moves, Follows
    <2>3. CASE StartFails(t)
        BY <1>3, <2>1, <2>3
           DEF StartFails, deployVars, workerVars, FileAlong, Along, Moves
    <2> QED
        BY <2>2, <2>3
<1> QED
    BY <1>1, <1>2, <1>3, OthersStayAlong DEF FileAlong

\* The watchdog goes on from what it wrote.
LEMMA WatchdogMoves ==
    ASSUME Inv, Announced, FileAlong, DefaultTiming, NEW t \in Tasks,
           Watchdog(t) \/ TimeOut(t)
    PROVE  FileAlong' /\ FileMoves
<1>1. /\ \A u \in Tasks \ {t} :
            /\ posts'[u] = posts[u] /\ monitor'[u] = monitor[u]
            /\ file'[u] = file[u] /\ deployer'[u] = deployer[u]
            /\ phase'[u] = phase[u]
      /\ posts' = posts /\ deployer' = deployer /\ phase' = phase
    BY DEF Inv, TypeOK, Watchdog, TimeOut, MonitorStarts, ReadHead, Probe, BeginRestore,
           EndRestore, CallTimesOut, deployVars
<1>2. ASSUME posts[t] = 1 PROVE Along(t)' /\ Moves(t)
    <2>1. FirstRun(t) /\ Along(t)
        BY <1>2 DEF Announced, FileAlong
    <2>2. CASE MonitorStarts(t)
        <3>1. /\ monitor[t] = "starting" /\ monitor'[t] = "polling"
              /\ file'[t] = "monitoring"
            BY <2>2 DEF Inv, TypeOK, MonitorStarts
        <3> QED
            BY <1>1, <2>1, <3>1 DEF Along, Moves, Follows
    <2>3. CASE ReadHead(t)
        <3>1. monitor[t] = "polling" /\ monitor'[t] = "probing" /\ file' = file
            BY <2>3 DEF Inv, TypeOK, ReadHead
        <3> QED
            BY <1>1, <2>1, <3>1 DEF Along, Moves
    <2>4. CASE Probe(t)
        <3>1. /\ monitor[t] = "probing"
              /\ \/ monitor'[t] = "done" /\ file'[t] = "healthy"
                 \/ monitor'[t] = "polling" /\ file'[t] = "monitoring"
            BY <2>4 DEF Inv, TypeOK, Probe
        <3> QED
            BY <1>1, <2>1, <3>1 DEF Along, Moves, Follows
    <2>5. CASE TimeOut(t)
        <3>1. /\ monitor[t] = "polling" /\ monitor'[t] = "capturing"
              /\ file'[t] = "timed_out"
              /\ snapshot[t] = "armed" => deployer[t] \notin {"armed", "dispatching"}
            BY <2>5 DEF Inv, TypeOK, TimeOut
        <3> QED
            BY <1>1, <2>1, <3>1 DEF FirstRun, Along, Moves, Follows
    <2>6. CASE BeginRestore(t)
        <3>1. /\ monitor[t] = "capturing" /\ monitor'[t] \in {"done", "restoring"}
              /\ file'[t] \in {"rollback_failed", "rollback_running"}
            BY <2>6 DEF Inv, TypeOK, BeginRestore
        <3> QED
            BY <1>1, <2>1, <3>1 DEF FirstRun, Along, Moves, Follows
    <2>7. CASE CallTimesOut(t)
        <3>1. monitor'[t] = "dead" /\ file' = file
            BY <2>7 DEF Inv, TypeOK, CallTimesOut
        <3> QED
            BY <1>1, <2>1, <3>1 DEF Along, Moves
    <2>8. CASE EndRestore(t)
        <3>1. /\ monitor[t] = "restoring" /\ monitor'[t] = "done"
              /\ file'[t] \in {"rolled_back", "rollback_failed"}
            BY <2>8 DEF Inv, TypeOK, EndRestore
        <3> QED
            BY <1>1, <2>1, <3>1 DEF FirstRun, Along, Moves, Follows
    <2> QED
        BY <2>2, <2>3, <2>4, <2>5, <2>6, <2>7, <2>8 DEF Watchdog
<1> QED
    BY <1>1, <1>2, OthersStayAlong DEF FileAlong

\* Steps of the host, and restarts, write no file.
LEMMA EndingsMove ==
    ASSUME FileAlong, posts' = posts, file' = file,
           \A u \in Tasks : \/ deployer'[u] = "idle"
                            \/ deployer'[u] = deployer[u] /\ phase'[u] = phase[u],
           \A u \in Tasks : monitor'[u] \in {monitor[u], "none"}
    PROVE  FileAlong' /\ FileMoves
BY DEF FileAlong, Along, FileMoves, Moves

\* At first no handler is under way.
LEMMA InitAlong == Init => FileAlong
<1> SUFFICES ASSUME Init PROVE FileAlong
    OBVIOUS
<1>1. ASSUME NEW t \in Tasks
      PROVE  (deployer[t] # "idle" => phase[t] = "deploying") /\ Along(t)
    <2>1. deployer[t] = "idle" /\ monitor[t] = "none"
        BY Zenon DEF Init
    <2> QED
        BY <2>1 DEF Along
<1> QED
    BY <1>1, Zenon DEF FileAlong

\* If the deadline lies behind the dispatch, the file of a task posted once goes
\* through the watchdog's states in order, and a rollback is never undone or
\* overwritten; only while the deploy stage runs can its handler turn the file back.
\* Once the stage has answered, what the orchestrator follows is the watchdog that
\* SelfImprovement has as one action.
THEOREM FilesMoveOn == DefaultTiming /\ Spec => [][FileMoves]_vars
<1> SUFFICES ASSUME DefaultTiming PROVE Spec => [][FileMoves]_vars
    OBVIOUS
<1>1. Init => FileAlong
    BY InitAlong
<1>2. Inv /\ Announced /\ FileAlong /\ [Next]_vars => FileAlong' /\ [FileMoves]_vars
    <2> SUFFICES ASSUME Inv, Announced, FileAlong, [Next]_vars
                 PROVE  FileAlong' /\ FileMoves
        OBVIOUS
    <2>1. ASSUME NEW t \in Tasks, Host(t) PROVE FileAlong' /\ FileMoves
        <3>1. posts' = posts /\ file' = file /\ monitor' = monitor
            BY <2>1 DEF Host, RolloutMerges, RolloutBuilds, RolloutFails,
               RestoreChecksOut, RestoreBuilds, RestoreSeesCommit, RestoreVerifies,
               RestoreFails, StackRestarts, deployVars, workerVars
        <3>2. \A u \in Tasks : \/ deployer'[u] = "idle"
                               \/ deployer'[u] = deployer[u] /\ phase'[u] = phase[u]
            BY <2>1 DEF Host, RolloutMerges, RolloutBuilds, RolloutFails,
               RestoreChecksOut, RestoreBuilds, RestoreSeesCommit, RestoreVerifies,
               RestoreFails, StackRestarts, deployVars
        <3> QED
            BY <3>1, <3>2, EndingsMove
    <2>2. CASE RollbackWorkerRestarts \/ Boot \/ UNCHANGED vars
        <3>1. /\ posts' = posts /\ file' = file
              /\ deployer' = deployer /\ phase' = phase
              /\ \A u \in Tasks : monitor'[u] \in {monitor[u], "none"}
            BY <2>2 DEF Inv, TypeOK, RollbackWorkerRestarts, Boot, vars, deployVars,
                        workerVars
        <3> QED
            BY <3>1, EndingsMove
    <2> QED
        BY <2>1, <2>2, DeployMoves, StartMoves, WatchdogMoves DEF Next
<1> QED
    BY <1>1, <1>2, AnnouncedHolds, InvariantHolds, PTL DEF Spec

-----------------------------------------------------------------------------
(* What a rollback that is reported leaves on the host *)

\* The commit the host starts with answers, and so does a stack that is up.
StackWorks == Base \notin broken /\ (up => live \notin broken)

\* A task without a deploy stage has no script and no watchdog.  A request is only
\* pending while the deploy worker waits for its answer or has given it up.
Dormant ==
    \A t \in Tasks :
       /\ posts[t] = 0 => rollout[t] = "none" /\ restore[t] = "none" /\ monitor[t] = "none"
       /\ t \in requests => deployer[t] \in {"idle", "posting", "lost"}

\* The file says that the task was rolled back, or the deploy worker will write so.
Reported(t) ==
    \/ file[t] = "rolled_back"
    \/ deployer[t] \in {"armed", "dispatching"} /\ snapshot[t] = "rolled_back"

\* With one task deployed the host only ever has two commits, so that while a script
\* restores the broken one, the target, no other script takes the host away from it.
Sole(t) ==
    /\ head \in {Base, Target[t]} /\ live \in {Base, Target[t]}
    /\ {previous[t], restoreTo[t]} \subseteq {Base, Target[t], NoCommit}
    /\ Reported(t) => monitor[t] = "done" /\ restoreTo[t] \notin broken
    /\ restore[t] = "succeeded" => restoreTo[t] \notin broken
    /\ restoreTo[t] \in broken /\ restore[t] \in {"checkedOut", "built", "seen"}
       => head = restoreTo[t]
    /\ restoreTo[t] \in broken /\ restore[t] \in {"built", "seen"}
       => live = restoreTo[t]

Trusted == StackWorks /\ Dormant /\ \A t \in Tasks : Alone(t) => Sole(t)

\* A stack that is replaced is down until it boots, and only a working one boots.
LEMMA StepKeepsStackWorks ==
    ASSUME StackWorks, [Next]_vars
    PROVE  StackWorks' /\ broken' = broken
<1>1. ASSUME NEW t \in Tasks, Host(t)
      PROVE  StackWorks' /\ broken' = broken
    <2>1. CASE RolloutBuilds(t) \/ RestoreBuilds(t)
        <3>1. up' = FALSE /\ broken' = broken
            BY <2>1 DEF RolloutBuilds, RestoreBuilds
        <3> QED
            BY <3>1, Zenon DEF StackWorks
    <2>2. CASE ~RolloutBuilds(t) /\ ~RestoreBuilds(t)
        <3>1. broken' = broken /\ up' = up /\ live' = live
            BY <1>1, <2>2 DEF Host, RolloutMerges, RolloutFails, RestoreChecksOut,
               RestoreSeesCommit, RestoreVerifies, RestoreFails
        <3> QED
            BY <3>1, Zenon DEF StackWorks
    <2> QED
        BY <2>1, <2>2
<1>2. ASSUME NEW t \in Tasks,
             Orchestrator(t) \/ DeployWorker(t) \/ StartWatchdog(t) \/ StartFails(t)
             \/ Watchdog(t) \/ TimeOut(t)
      PROVE  StackWorks' /\ broken' = broken
    <2>1. broken' = broken /\ up' = up /\ live' = live
        BY <1>2 DEF Orchestrator, DeployWorker, BeginDeploy, PostAgain, GiveUp, Posts,
           Observe, ArmingFails, Dispatch, DispatchReturns, DispatchFails,
           HandlerIsLost, StartWatchdog, StartFails, Watchdog, TimeOut, MonitorStarts,
           ReadHead, Probe, BeginRestore, EndRestore, CallTimesOut, hostVars
    <2> QED
        BY <2>1, Zenon DEF StackWorks
<1>3. CASE RollbackWorkerRestarts \/ UNCHANGED vars
    BY <1>3 DEF RollbackWorkerRestarts, vars, hostVars, StackWorks
<1>4. CASE Boot
    BY <1>4 DEF Boot, StackWorks
<1> QED
    BY <1>1, <1>2, <1>3, <1>4 DEF Next

\* A task gets scripts and a watchdog from its own deploy stage.
LEMMA StepKeepsDormant ==
    ASSUME Inv, Dormant, [Next]_vars
    PROVE  Dormant'
<1>1. \A t \in Tasks : posts[t] = 0 => t \notin requests /\ deployer[t] = "idle"
    BY DEF Inv, Untouched
<1>2. \A t \in Tasks : posts[t] \in Nat
    BY BoundsAssumption DEF Inv, TypeOK
<1>3. ASSUME NEW t \in Tasks, Orchestrator(t) \/ DeployWorker(t)
      PROVE  Dormant'
    BY <1>1, <1>2, <1>3 DEF Inv, TypeOK, Dormant, Orchestrator, DeployWorker,
       BeginDeploy, PostAgain, GiveUp, Posts, Observe, ArmingFails, Dispatch,
       DispatchReturns, DispatchFails, HandlerIsLost, workerVars, hostVars
<1>4. ASSUME NEW t \in Tasks, StartWatchdog(t) \/ StartFails(t)
      PROVE  Dormant'
    BY <1>1, <1>4 DEF Inv, TypeOK, Dormant, StartWatchdog, StartFails, Reply,
       deployVars, workerVars,
           hostVars
<1>5. ASSUME NEW t \in Tasks, Watchdog(t) \/ TimeOut(t)
      PROVE  Dormant'
    <2>1. /\ requests' = requests /\ deployer' = deployer /\ posts' = posts
          /\ rollout' = rollout /\ posts[t] # 0
          /\ \A u \in Tasks \ {t} : restore'[u] = restore[u] /\ monitor'[u] = monitor[u]
        BY <1>5 DEF Inv, TypeOK, Dormant, Watchdog, TimeOut, MonitorStarts, ReadHead,
           Probe, BeginRestore, EndRestore, CallTimesOut, deployVars, hostVars
    <2> QED
        BY <2>1 DEF Dormant
<1>6. ASSUME NEW t \in Tasks, Host(t)
      PROVE  Dormant'
    <2>1. /\ requests' = requests /\ posts' = posts /\ monitor' = monitor
          /\ posts[t] # 0
          /\ \A u \in Tasks \ {t} : restore'[u] = restore[u] /\ rollout'[u] = rollout[u]
          /\ \A u \in Tasks : deployer'[u] \in {deployer[u], "idle"}
        BY <1>6 DEF Inv, TypeOK, Dormant, Restoring, Host, RolloutMerges, RolloutBuilds,
           RolloutFails, RestoreChecksOut, RestoreBuilds, RestoreSeesCommit,
           RestoreVerifies, RestoreFails, StackRestarts, deployVars, workerVars
    <2> QED
        BY <2>1 DEF Dormant
<1>7. CASE RollbackWorkerRestarts
    BY <1>7 DEF Inv, TypeOK, Dormant, RollbackWorkerRestarts, deployVars
<1>8. CASE Boot \/ UNCHANGED vars
    BY <1>8 DEF Dormant, Boot, vars, deployVars, workerVars, hostVars
<1> QED
    BY <1>3, <1>4, <1>5, <1>6, <1>7, <1>8 DEF Next

\* Who is alone after a step was alone before it.
LEMMA AloneBefore ==
    ASSUME Inv, [Next]_vars, NEW t \in Tasks, Alone(t)'
    PROVE  /\ Alone(t)
           /\ \A u \in Tasks \ {t} : ~BeginDeploy(u)
<1>1. \A u \in Tasks : posts[u] \in Nat
    BY BoundsAssumption DEF Inv, TypeOK
<1>2. \A u \in Tasks : \/ posts'[u] = posts[u]
                       \/ posts'[u] = posts[u] + 1
    BY DEF Next, Orchestrator, DeployWorker, BeginDeploy, PostAgain, GiveUp, Posts,
       Observe, ArmingFails, Dispatch, DispatchReturns, DispatchFails, HandlerIsLost,
       StartWatchdog, StartFails, Watchdog, TimeOut, MonitorStarts, ReadHead, Probe,
       BeginRestore, EndRestore, CallTimesOut, Host, RolloutMerges, RolloutBuilds,
       RolloutFails, RestoreChecksOut, RestoreBuilds, RestoreSeesCommit,
       RestoreVerifies, RestoreFails, RollbackWorkerRestarts, Boot, vars, Inv, TypeOK
<1>3. \A u \in Tasks \ {t} : BeginDeploy(u) => posts'[u] = posts[u] + 1
    BY DEF BeginDeploy, Posts, Inv, TypeOK
<1> QED
    BY <1>1, <1>2, <1>3 DEF Alone

\* What Sole says depends on the host and on what the task itself is doing.
LEMMA SoleStays ==
    ASSUME NEW t \in Tasks, Sole(t),
           head' = head, live' = live, broken' = broken,
           previous'[t] = previous[t], restoreTo'[t] = restoreTo[t],
           restore'[t] \in {restore[t], "none", "failed"}, monitor'[t] = monitor[t],
           Reported(t)' => Reported(t)
    PROVE  Sole(t)'
BY DEF Sole

\* The other tasks, which have no deploy stage, do nothing.
LEMMA OthersKeepSole ==
    ASSUME Inv, Dormant, NEW t \in Tasks, Sole(t), Alone(t), NEW u \in Tasks \ {t},
           \/ PostAgain(u) \/ GiveUp(u) \/ Observe(u) \/ DeployWorker(u)
           \/ StartWatchdog(u) \/ StartFails(u) \/ Watchdog(u) \/ TimeOut(u) \/ Host(u)
    PROVE  Sole(t)'
<1>1. /\ posts[u] = 0 /\ u \notin requests /\ deployer[u] = "idle"
      /\ rollout[u] = "none" /\ restore[u] = "none" /\ monitor[u] = "none"
    BY DEF Alone, Dormant, Inv, Untouched
<1>2. Observe(u)
    BY <1>1 DEF PostAgain, GiveUp, DeployWorker, ArmingFails, Dispatch,
       DispatchReturns, DispatchFails, HandlerIsLost, StartWatchdog, StartFails,
       Watchdog, TimeOut, MonitorStarts, ReadHead, Probe, BeginRestore, EndRestore,
       CallTimesOut, Host, RolloutMerges, RolloutBuilds, RolloutFails,
       RestoreChecksOut, RestoreBuilds, RestoreSeesCommit, RestoreVerifies,
       RestoreFails, Restoring
<1>3. Reported(t)' => Reported(t)
    BY <1>2 DEF Observe, Reported
<1> QED
    BY <1>2, <1>3, SoleStays DEF Observe, workerVars, hostVars

\* The deploy worker writes what the file said when the watchdog was armed.
LEMMA DeployKeepsSole ==
    ASSUME Inv, NEW t \in Tasks, Sole(t), Orchestrator(t) \/ DeployWorker(t)
    PROVE  Sole(t)'
<1>1. Reported(t)' => Reported(t)
    BY DEF Inv, TypeOK, Reported, Orchestrator, DeployWorker, BeginDeploy, PostAgain,
       GiveUp, Posts, Observe, ArmingFails, Dispatch, DispatchReturns, DispatchFails,
       HandlerIsLost
<1>2. /\ head' = head /\ live' = live /\ broken' = broken /\ previous' = previous
      /\ restoreTo' = restoreTo /\ restore' = restore /\ monitor' = monitor
    BY DEF Orchestrator, DeployWorker, BeginDeploy, PostAgain, GiveUp, Posts, Observe,
       ArmingFails, Dispatch, DispatchReturns, DispatchFails, HandlerIsLost,
       workerVars, hostVars
<1> QED
    BY <1>1, <1>2, SoleStays

\* A request is answered with a rollback only if that rollback is over.
LEMMA StartKeepsSole ==
    ASSUME Inv, Dormant, NEW t \in Tasks, Sole(t), StartWatchdog(t) \/ StartFails(t)
    PROVE  Sole(t)'
<1>1. deployer[t] \in {"idle", "posting", "lost"}
    BY DEF StartWatchdog, StartFails, Dormant
<1>2. CASE StartWatchdog(t) /\ file[t] \in Kept
    <2>1. Reported(t)' => Reported(t)
        BY <1>1, <1>2 DEF StartWatchdog, Reply, Reported, Inv, TypeOK
    <2> QED
        BY <1>2, <2>1, SoleStays DEF StartWatchdog, workerVars, hostVars
<1>3. CASE StartWatchdog(t) /\ file[t] \notin Kept
    <2>1. ~Reported(t)'
        BY <1>1, <1>3 DEF StartWatchdog, Reply, Reported, Inv, TypeOK
    <2>2. previous'[t] \in {head, NoCommit} /\ UNCHANGED hostVars
        BY <1>3 DEF StartWatchdog, Inv, TypeOK
    <2> QED
        BY <2>1, <2>2 DEF Sole, hostVars
<1>4. CASE StartFails(t)
    <2>1. Reported(t)' => Reported(t)
        BY <1>4 DEF StartFails, Reported, Inv, TypeOK, deployVars
    <2> QED
        BY <1>4, <2>1, SoleStays DEF StartFails, workerVars, hostVars
<1> QED
    BY <1>2, <1>3, <1>4

\* The watchdog reports a rollback whose script has succeeded.
LEMMA WatchdogKeepsSole ==
    ASSUME Inv, NEW t \in Tasks, Sole(t), Watchdog(t) \/ TimeOut(t)
    PROVE  Sole(t)'
<1>1. /\ monitor[t] # "done" /\ ~Reported(t)
      /\ head' = head /\ live' = live /\ broken' = broken
      /\ previous' = previous /\ deployer' = deployer /\ snapshot' = snapshot
    BY DEF Watchdog, TimeOut, MonitorStarts, ReadHead, Probe, BeginRestore,
       EndRestore, CallTimesOut, Sole, hostVars, deployVars
<1>2. CASE EndRestore(t)
    BY <1>1, <1>2 DEF EndRestore, Inv, TypeOK, Sole, Reported, hostVars
<1>3. CASE BeginRestore(t)
    <2>1. ~Reported(t)'
        BY <1>1, <1>3 DEF BeginRestore, Inv, TypeOK, Reported
    <2>2. \/ restore'[t] = "starting" /\ restoreTo'[t] = previous[t]
          \/ restore' = restore /\ restoreTo' = restoreTo
        BY <1>3 DEF BeginRestore, Inv, TypeOK
    <2> QED
        BY <1>1, <2>1, <2>2 DEF Sole
<1>4. CASE ~EndRestore(t) /\ ~BeginRestore(t)
    <2>1. file'[t] # "rolled_back" /\ restore' = restore /\ restoreTo' = restoreTo
        BY <1>1, <1>4 DEF Watchdog, TimeOut, MonitorStarts, ReadHead, Probe,
           CallTimesOut, Inv, TypeOK, Reported, hostVars
    <2>2. ~Reported(t)'
        BY <1>1, <2>1 DEF Reported
    <2> QED
        BY <1>1, <2>1, <2>2 DEF Sole
<1> QED
    BY <1>2, <1>3, <1>4

\* The scripts of the one task: a restore of the target finds the checkout at the
\* target and leaves it there, so what it builds, sees and verifies is the target.
LEMMA HostKeepsSole ==
    ASSUME Inv, StackWorks, NEW t \in Tasks, Sole(t), Host(t)
    PROVE  Sole(t)'
<1>1. NoCommit \notin broken /\ Base \notin broken
    BY CommitsAssumption DEF StackWorks, Inv, TypeOK
<1>2. /\ broken' = broken /\ previous' = previous /\ restoreTo' = restoreTo
      /\ monitor' = monitor /\ (Reported(t)' => Reported(t))
    BY DEF Host, RolloutMerges, RolloutBuilds, RolloutFails, RestoreChecksOut,
       RestoreBuilds, RestoreSeesCommit, RestoreVerifies, RestoreFails, StackRestarts,
       Reported, deployVars, workerVars
<1>3. restore[t] \in Restoring => restoreTo[t] \in Commits
    BY DEF Inv, ConcreteRestore
<1>4. CASE RolloutMerges(t)
    BY <1>1, <1>2, <1>4 DEF RolloutMerges, CheckOut, Sole
<1>5. CASE RolloutBuilds(t)
    BY <1>1, <1>2, <1>5 DEF RolloutBuilds, Sole
<1>6. CASE RestoreChecksOut(t)
    BY <1>1, <1>2, <1>3, <1>6, CommitsAssumption
       DEF RestoreChecksOut, CheckOut, Sole, Restoring, Inv, TypeOK
<1>7. CASE RestoreBuilds(t)
    BY <1>1, <1>2, <1>3, <1>7, CommitsAssumption
       DEF RestoreBuilds, Sole, Restoring, Inv, TypeOK
<1>8. CASE RestoreSeesCommit(t)
    BY <1>2, <1>8 DEF RestoreSeesCommit, Sole, Inv, TypeOK
<1>9. CASE RestoreVerifies(t)
    BY <1>2, <1>9 DEF RestoreVerifies, Sole, StackWorks, Inv, TypeOK
<1>10. CASE RolloutFails(t) \/ RestoreFails(t)
    <2>1. /\ head' = head /\ live' = live /\ restore'[t] \in {restore[t], "failed"}
        BY <1>10 DEF RolloutFails, RestoreFails, Inv, TypeOK
    <2> QED
        BY <1>2, <2>1, SoleStays
<1> QED
    BY <1>4, <1>5, <1>6, <1>7, <1>8, <1>9, <1>10 DEF Host

\* As long as no other task is deployed, a rollback that is reported has restored a
\* commit whose stack answers.
THEOREM RollbacksWork == Spec => []RolledBackCommitWorks
<1>1. Init => Trusted
    BY CommitsAssumption DEF Init, Trusted, StackWorks, Dormant, Sole, Reported
<1>2. Inv /\ Trusted /\ [Next]_vars => Trusted'
    <2> SUFFICES ASSUME Inv, Trusted, [Next]_vars PROVE Trusted'
        OBVIOUS
    <2>1. StackWorks' /\ Dormant'
        BY StepKeepsStackWorks, StepKeepsDormant DEF Trusted
    <2>2. ASSUME NEW t \in Tasks, Alone(t)' PROVE Sole(t)'
        <3>1. Alone(t) /\ Sole(t) /\ Dormant /\ StackWorks
            BY <2>2, AloneBefore DEF Trusted
        <3>2. ASSUME NEW u \in Tasks \ {t},
                     \/ Orchestrator(u) \/ DeployWorker(u) \/ StartWatchdog(u) \/ StartFails(u)
                     \/ Watchdog(u) \/ TimeOut(u) \/ Host(u)
              PROVE  Sole(t)'
            BY <2>2, <3>1, <3>2, AloneBefore, OthersKeepSole DEF Orchestrator
        <3>3. CASE \/ Orchestrator(t) \/ DeployWorker(t) \/ StartWatchdog(t) \/ StartFails(t)
                   \/ Watchdog(t) \/ TimeOut(t) \/ Host(t)
            BY <3>1, <3>3, DeployKeepsSole, StartKeepsSole, WatchdogKeepsSole,
               HostKeepsSole
        <3>4. CASE RollbackWorkerRestarts
            <4>1. /\ head' = head /\ live' = live /\ broken' = broken /\ previous' = previous
                  /\ restoreTo' = restoreTo /\ restore'[t] \in {restore[t], "none"}
                  /\ (Reported(t)' => Reported(t))
                  /\ (monitor[t] = "done" => monitor'[t] = "done")
                BY <3>4 DEF RollbackWorkerRestarts, deployVars, Reported
            <4> QED
                BY <3>1, <4>1 DEF Sole
        <3>5. CASE Boot \/ UNCHANGED vars
            <4>1. /\ head' = head /\ live' = live /\ broken' = broken /\ previous' = previous
                  /\ restoreTo' = restoreTo /\ restore' = restore /\ monitor' = monitor
                  /\ (Reported(t)' => Reported(t))
                BY <3>5 DEF Boot, vars, hostVars, workerVars, deployVars, Reported
            <4> QED
                BY <3>1, <4>1, SoleStays
        <3> QED
            BY <3>2, <3>3, <3>4, <3>5 DEF Next
    <2> QED
        BY <2>1, <2>2 DEF Trusted
<1>3. Trusted => RolledBackCommitWorks
    BY DEF Trusted, Sole, Reported, RolledBackCommitWorks
<1> QED
    BY <1>1, <1>2, <1>3, InvariantHolds, PTL DEF Spec
===============================================================================
