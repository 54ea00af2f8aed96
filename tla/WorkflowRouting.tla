--------------------------- MODULE WorkflowRouting ---------------------------
(***************************************************************************)
(* The routing tables of services/orchestrator/workflow.py and the stage   *)
(* tables of services/shared/agentic_lab/schemas.py, as constant operators *)
(* over a task record v (TaskStore.TaskRecord).  The graph routes on the   *)
(* state its node returned, which is a copy of the database row, so every  *)
(* router takes a record.                                                  *)
(*                                                                         *)
(* Stages are named by their graph node.  The worker of node "review" is   *)
(* "reviewer", the one of "testing" is "tester"; every other node has the  *)
(* name of its worker, so results are indexed by node here.                *)
(***************************************************************************)
EXTENDS Naturals

\* Absence of a resume target, of an open gate and of a restart request (None).
None == "none"

\* WORKFLOW_WORKER_ORDER, as the position of each stage in it.
StageIndex ==
    [ requirements |-> 1,  cost |-> 2,          human_resources |-> 3,
      research |-> 4,      architecture |-> 5,  data |-> 6,
      ux |-> 7,            coding |-> 8,        rollback |-> 9,
      review |-> 10,       testing |-> 11,      security |-> 12,
      validation |-> 13,   documentation |-> 14, github |-> 15,
      deploy |-> 16,       qa |-> 17,           memory |-> 18 ]

Nodes == DOMAIN StageIndex

Statuses ==
    { "NEW", "REQUIREMENTS", "RESOURCE_PLANNING", "RESEARCHING",
      "ARCHITECTING", "CODING", "ROLLING_BACK", "REVIEWING", "TESTING",
      "SECURITY_REVIEW", "VALIDATING", "DOCUMENTING", "PR_CREATED",
      "STAGING_DEPLOYED", "SELF_UPDATING", "QA_PENDING", "MEMORY_UPDATING",
      "APPROVAL_REQUIRED", "DONE", "FAILED" }

\* The status a node writes when its stage starts.
StageStatus ==
    [ requirements |-> "REQUIREMENTS", cost |-> "RESOURCE_PLANNING",
      human_resources |-> "RESOURCE_PLANNING", research |-> "RESEARCHING",
      architecture |-> "ARCHITECTING", data |-> "ARCHITECTING",
      ux |-> "ARCHITECTING", coding |-> "CODING", rollback |-> "ROLLING_BACK",
      review |-> "REVIEWING", testing |-> "TESTING",
      security |-> "SECURITY_REVIEW", validation |-> "VALIDATING",
      documentation |-> "DOCUMENTING", github |-> "DOCUMENTING",
      deploy |-> "PR_CREATED", qa |-> "QA_PENDING",
      memory |-> "MEMORY_UPDATING" ]

\* The status a restart from a stage writes: like StageStatus, except that
\* github and deploy get the status their stage would end with.
RestartStatus ==
    [ StageStatus EXCEPT !.github = "PR_CREATED", !.deploy = "STAGING_DEPLOYED" ]

\* The entry mapping from a persisted status to the node a run resumes at.
\* Statuses it does not list (NEW among them) resume at requirements.
EntryNode ==
    [ s \in Statuses |->
        CASE s = "RESOURCE_PLANNING" -> "cost"
          [] s = "RESEARCHING"       -> "research"
          [] s = "ARCHITECTING"      -> "architecture"
          [] s = "CODING"            -> "coding"
          [] s = "ROLLING_BACK"      -> "rollback"
          [] s = "REVIEWING"         -> "review"
          [] s = "TESTING"           -> "testing"
          [] s = "SECURITY_REVIEW"   -> "security"
          [] s = "VALIDATING"        -> "validation"
          [] s = "DOCUMENTING"       -> "documentation"
          [] s \in {"STAGING_DEPLOYED", "QA_PENDING"} -> "qa"
          [] s = "MEMORY_UPDATING"   -> "memory"
          [] OTHER                   -> "requirements" ]

(***************************************************************************)
(* Task profiles (task_profiles.py).  "compact" stands for the three tiny  *)
(* deterministic profiles, which carry the same route overrides;           *)
(* "skip_research" is a profile a client may store in the metadata itself, *)
(* with skip_research set and skip_architecture unset.                     *)
(***************************************************************************)
Profiles == {"none", "compact", "skip_research"}

SkipsResearch(v) == v.req.profile \in {"compact", "skip_research"}
SkipsArchitecture(v) == v.req.profile = "compact"
UsesCompactFastPath(v) == v.req.profile = "compact"

ShouldStop_NotAtGates(v) == v.status \in {"DONE", "FAILED"}


ShouldStop(v) == v.status \in {"APPROVAL_REQUIRED", "DONE", "FAILED"}

RouteEntry_IgnoresGate(v) ==
    IF v.status \in {"DONE", "FAILED"} THEN "stop"
    ELSE IF v.resumeTarget # None THEN v.resumeTarget ELSE EntryNode[v.status]

RouteEntry_ReopensDone(v) ==
    IF v.status = "FAILED" \/ v.approvalRequired THEN "stop"
    ELSE IF v.resumeTarget # None THEN v.resumeTarget ELSE EntryNode[v.status]

RouteEntry_SkipsInterruptedTests(v) ==
    IF v.status \in {"DONE", "FAILED"} \/ v.approvalRequired THEN "stop"
    ELSE IF v.status = "TESTING" THEN "security"
    ELSE IF v.resumeTarget # None THEN v.resumeTarget ELSE EntryNode[v.status]


RouteEntry(v) ==
    IF v.status \in {"DONE", "FAILED"} \/ v.approvalRequired THEN "stop"
    ELSE IF v.resumeTarget # None THEN v.resumeTarget
    ELSE IF v.req.rollback THEN "rollback"
    ELSE IF v.status = "SELF_UPDATING" THEN "stop"
    ELSE IF v.status = "PR_CREATED"
         THEN IF v.req.autoDeploy THEN "deploy" ELSE "memory"
    ELSE EntryNode[v.status]

AfterHumanResources(v) ==
    IF SkipsResearch(v)
    THEN IF SkipsArchitecture(v) THEN "coding" ELSE "architecture"
    ELSE "research"

AfterArchitecture(v) ==
    IF "data" \in v.specialists THEN "data"
    ELSE IF "ux" \in v.specialists THEN "ux" ELSE "coding"

AfterGithub(v) ==
    IF v.req.forceDeploy THEN "deploy"
    ELSE IF UsesCompactFastPath(v) THEN "memory"
    ELSE IF v.req.autoDeploy THEN "deploy" ELSE "memory"

\* The successor of node n for a state that does not stop.
Successor(n, v) ==
    CASE n = "requirements"    -> "cost"
      [] n = "cost"            -> "human_resources"
      [] n = "human_resources" -> AfterHumanResources(v)
      [] n = "research"        -> IF SkipsArchitecture(v) THEN "coding" ELSE "architecture"
      [] n = "architecture"    -> AfterArchitecture(v)
      [] n = "data"            -> IF "ux" \in v.specialists THEN "ux" ELSE "coding"
      [] n = "ux"              -> "coding"
      [] n = "coding"          -> IF UsesCompactFastPath(v) THEN "validation" ELSE "review"
      [] n = "review"          -> "testing"
      [] n = "testing"         -> "security"
      [] n = "security"        -> "validation"
      [] n = "validation"      -> IF UsesCompactFastPath(v) THEN "github" ELSE "documentation"
      [] n = "documentation"   -> "github"
      [] n = "github"          -> AfterGithub(v)
      [] n = "deploy"          -> IF v.req.target = "self" THEN "stop" ELSE "qa"
      [] n = "qa"              -> "memory"
      [] OTHER                 -> "stop"

RouteAfter(n, v) == IF ShouldStop(v) THEN "stop" ELSE Successor(n, v)

RouteMap_NoFastPath(n) ==
    IF n = "human_resources" THEN {"research", "stop"} ELSE Nodes

\* The exits the compiled graph knows for each node (add_conditional_edges and
\* the *_route_map methods).  A route outside this map makes LangGraph raise.
RouteMap(n) ==
    CASE n = "requirements"    -> {"cost", "stop"}
      [] n = "cost"            -> {"human_resources", "stop"}
      [] n = "human_resources" -> {"research", "coding", "stop"}
      [] n = "research"        -> {"architecture", "coding", "stop"}
      [] n = "architecture"    -> {"data", "ux", "coding", "stop"}
      [] n = "data"            -> {"ux", "coding", "stop"}
      [] n = "ux"              -> {"coding", "stop"}
      [] n = "coding"          -> {"review", "validation", "stop"}
      [] n = "review"          -> {"testing", "stop"}
      [] n = "testing"         -> {"security", "stop"}
      [] n = "security"        -> {"validation", "stop"}
      [] n = "validation"      -> {"documentation", "github", "stop"}
      [] n = "documentation"   -> {"github", "stop"}
      [] n = "github"          -> {"deploy", "memory", "stop"}
      [] n = "deploy"          -> {"qa", "stop"}
      [] n = "qa"              -> {"memory", "stop"}
      [] OTHER                 -> {"stop"}
==============================================================================
