---------------------------- MODULE TaskLifecycle ----------------------------
(***************************************************************************)
(* What the orchestrator promises an operator about a task, without the    *)
(* pipeline: when anybody works on it, who may change the repository, and  *)
(* what opens a gate.  TaskWorkflow implements this specification.         *)
(*                                                                         *)
(*   resting --Start--> active --Pause--> leaving --Release--> resting     *)
(*                                                                         *)
(*   - an archived task rests; nothing happens to it before it is restored *)
(*   - a gate is opened by the run that pauses at it and is cleared by a   *)
(*     decision or, while the task rests, by a restart                     *)
(*   - a run works only while no gate is open, and writes to the workspace *)
(*     only with a permission, which only a decision can add               *)
(***************************************************************************)
CONSTANT Tasks

VARIABLES
    mode,       \* whether somebody works on a task
    gated,      \* tasks with an open approval gate
    archived,
    permitted,  \* tasks whose repository may be modified
    modified    \* tasks whose workspace holds edits

vars == <<mode, gated, archived, permitted, modified>>

Init ==
    /\ mode = [t \in Tasks |-> "absent"]
    /\ gated = {}
    /\ archived = {}
    /\ permitted \in SUBSET Tasks
    /\ modified = {}

Create(t) ==
    /\ mode[t] = "absent"
    /\ mode' = [mode EXCEPT ![t] = "resting"]
    /\ permitted' \in {permitted \cup {t}, permitted \ {t}}
    /\ UNCHANGED <<gated, archived, modified>>

Start(t) ==
    /\ mode[t] = "resting" /\ t \notin archived
    /\ mode' = [mode EXCEPT ![t] = "active"]
    /\ UNCHANGED <<gated, archived, permitted, modified>>

\* The run edits the workspace and goes on.
Work(t) ==
    /\ mode[t] = "active" /\ t \notin gated /\ t \in permitted
    /\ modified' = modified \cup {t}
    /\ UNCHANGED <<mode, gated, archived, permitted>>

\* The run comes to its end, at a gate or for any other reason; its last stage
\* may have been the one that edits.
Pause(t) ==
    /\ mode[t] = "active"
    /\ mode' = [mode EXCEPT ![t] = "leaving"]
    /\ gated' \in {gated, gated \cup {t}}
    /\ \/ modified' = modified
       \/ t \in permitted /\ t \notin gated' /\ modified' = modified \cup {t}
    /\ UNCHANGED <<archived, permitted>>

Release(t) ==
    /\ mode[t] = "leaving"
    /\ mode' = [mode EXCEPT ![t] = "resting"]
    /\ UNCHANGED <<gated, archived, permitted, modified>>

\* An approval clears the gate and starts a task that rests; a rejection
\* changes nothing here (it fails the task).
Approve(t) ==
    /\ mode[t] # "absent" /\ t \notin archived
    /\ mode' = [mode EXCEPT ![t] = IF @ = "resting" THEN "active" ELSE @]
    /\ gated' = gated \ {t}
    /\ permitted' \in {permitted, permitted \cup {t}}
    /\ UNCHANGED <<archived, modified>>

\* A restart clears the gate; the task may start at once or later.
Restart(t) ==
    /\ mode[t] = "resting" /\ t \notin archived
    /\ mode' \in {mode, [mode EXCEPT ![t] = "active"]}
    /\ gated' = gated \ {t}
    /\ UNCHANGED <<archived, permitted, modified>>

Archive(t) ==
    /\ mode[t] = "resting" /\ t \notin gated
    /\ archived' = archived \cup {t}
    /\ UNCHANGED <<mode, gated, permitted, modified>>

Restore(t) ==
    /\ archived' = archived \ {t}
    /\ UNCHANGED <<mode, gated, permitted, modified>>

\* The process dies: whatever was at work rests.
Crash ==
    /\ mode' = [t \in Tasks |->
                  IF mode[t] \in {"active", "leaving"} THEN "resting" ELSE mode[t]]
    /\ UNCHANGED <<gated, archived, permitted, modified>>

Next ==
    \/ \E t \in Tasks :
         \/ Create(t) \/ Start(t) \/ Work(t) \/ Pause(t) \/ Release(t)
         \/ Approve(t) \/ Restart(t) \/ Archive(t) \/ Restore(t)
    \/ Crash

Spec == Init /\ [][Next]_vars
==============================================================================
