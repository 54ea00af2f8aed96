---------------------------- MODULE MCTaskWorkflow ----------------------------
(* Instances of TaskWorkflow for TLC: the requests and bounds of each run. *)
EXTENDS TaskWorkflow, TLC

Plain ==
    [ profile |-> "none", autoDeploy |-> TRUE, forceDeploy |-> FALSE,
      forcePublishApproval |-> FALSE, target |-> "staging", rollback |-> FALSE,
      allowModifications |-> TRUE ]

Unpermitted == [Plain EXCEPT !.allowModifications = FALSE]
SelfUpdate == [Plain EXCEPT !.target = "self", !.forcePublishApproval = TRUE]
NoDeploy == [Plain EXCEPT !.autoDeploy = FALSE]
Compact == [Unpermitted EXCEPT !.profile = "compact"]
RiskyCompact == [Plain EXCEPT !.profile = "compact", !.forcePublishApproval = TRUE]
Rollback == [Plain EXCEPT !.rollback = TRUE]
ForcedDeploy == [NoDeploy EXCEPT !.forceDeploy = TRUE]

CoreRequests == {Unpermitted, SelfUpdate, NoDeploy, Compact, Rollback}
CoreBudget == [restarts |-> 1, decisions |-> 2, crashes |-> 1]

GateRequests == {Unpermitted, Compact}
SettledRequests == {Unpermitted, SelfUpdate, ForcedDeploy, Compact, Rollback}
UncrashedBudget == [CoreBudget EXCEPT !.crashes = 0]

\* A risky request on the compact path, with nothing else going on.
OnlyRiskyCompact == {RiskyCompact}
NoInterference == [restarts |-> 0, decisions |-> 0, crashes |-> 0]

RunSymmetry == Permutations(Runs)
===============================================================================
