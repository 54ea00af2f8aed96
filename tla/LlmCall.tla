---- MODULE LlmCall ----
(* One stage of a planning or checking worker, from the orchestrator's call down
   to the model providers: the routes, the fallback to another provider, the
   repair of an answer that is not the JSON asked for, the heuristic answer when
   no provider helps, and the timeouts of each level, which run independently.
     services/shared/agentic_lab/{llm,model_routing,worker_client}.py,
     services/{requirements,research,architecture,reviewer,security,validation,
     documentation,cost}_worker/app.py, services/orchestrator/workflow.py        *)
EXTENDS Integers, Sequences, FiniteSetsExt

CONSTANTS Workers,        \* the workers whose stage is considered
          Overrides,      \* routes the routing file may name: records [primary, fallback]
          Deadline,       \* request_timeout_seconds of each worker's route
          ReadTimeout,    \* settings.llm_read_timeout_seconds
          StageTimeout,   \* settings.worker_stage_timeout_seconds
          RetryAttempts   \* settings.worker_retry_attempts

VARIABLES config, \* the providers that are configured, the default one, the routing file,
                 \* the worker and the profile of its task
          order,  \* of the providers a call of the worker tries, as its routing makes it
          stage,  \* of the task: its status, time, the call it waits for, what went wrong
          exec    \* the executions of the worker, by the post that started them
given == <<config, order>>
vars == <<config, order, stage, exec>>

Providers == {"mistral", "qwen"}
None == "none"
Profiles == {None, "smiley", "top_block", "stage_timeout"}   \* task_profile.name of the task
NoOverride == [primary |-> None, fallback |-> None]
Posts == 1..RetryAttempts

ASSUME WorkersAreKnown == Workers \subseteq {"requirements", "cost", "human_resources", "research",
    "architecture", "data", "ux", "reviewer", "security", "validation", "documentation"}
ASSUME TimesAreNatural == /\ ReadTimeout \in Nat \ {0} /\ StageTimeout \in Nat \ {0}
                          /\ Deadline \in [Workers -> Nat \ {0}] /\ RetryAttempts \in Nat \ {0}

\* --- model_routing.py --------------------------------------------------------

Sorted == <<"mistral", "qwen">>

(* _preferred_provider: the first candidate that may be used, else the first
   provider in alphabetical order that may.                                    *)
Preferred(names, candidates, exclude) ==
    LET all == candidates \o Sorted
        free == names \ exclude
        usable == {i \in 1..Len(all) : all[i] \in free}
    IN  IF usable = {} THEN None ELSE all[Min(usable)]

SafeDefault(names, default) ==
    Preferred(names, <<IF default = "qwen" THEN None ELSE default, "mistral", default, "qwen">>, {})

\* _default_worker_routes: every worker considered has the same pair.
DefaultRoute(names, default) ==
    LET safe == SafeDefault(names, default)
    IN  [primary |-> Preferred(names, <<"mistral", safe, "qwen">>, {}),
         fallback |-> Preferred(names, <<"qwen", safe, "mistral">>, {})]

\* load_model_routing: the routing file has the last word.
Route == IF config.override = NoOverride THEN DefaultRoute(config.providers, config.default)
         ELSE config.override

\* resolve_worker_route and resolve_fallback_provider.
Primary == Preferred(config.providers, <<Route.primary, Route.fallback, config.default, "mistral", "qwen">>, {})
Fallback == IF Route.fallback = None THEN None
            ELSE Preferred(config.providers, <<Route.fallback>>, {Primary})

\* LLMClient._provider_candidates
Candidates == IF Fallback \in {None, Primary} THEN <<Primary>> ELSE <<Primary, Fallback>>

\* --- what each worker asks of the model, and does with the answer ------------

(* asks:      text or JSON of the model, only what the routes are, or nothing
   fastPaths: profiles of a task for which the worker answers without the model
   catches:   run() ends in `except Exception`; all catch LLMError where they ask
   unread:    what it may find in place of the checkout or the difference it reads first
   trusts:    takes the lists of the answer for lists
   blank:     empty or generic values are taken, replaced, or asked for once more  *)
Worker(asks, fastPaths) == [asks |-> asks, fastPaths |-> fastPaths, catches |-> FALSE,
                            unread |-> {}, trusts |-> FALSE, blank |-> "taken"]

Requirements == [Worker("json", {"smiley", "top_block", "stage_timeout"}) EXCEPT !.catches = TRUE]
Cost == Worker("routes", {})
HumanResources == Worker("nothing", {})
Research == [Worker("text", {"smiley", "top_block"}) EXCEPT !.catches = TRUE,
                !.unread = {"unreadable"}, !.blank = "replaced"]
Architecture == [Worker("json", {"smiley", "top_block"}) EXCEPT !.blank = "retried"]
Data == Worker("nothing", {})
Ux == Worker("nothing", {})
Reviewer == [Worker("json", {}) EXCEPT !.unread = {"unreadable", "empty"}, !.trusts = TRUE]
Security == [Worker("json", {}) EXCEPT !.unread = {"unreadable"}, !.trusts = TRUE]
Validation == Worker("json", {"smiley", "top_block", "stage_timeout"})
Documentation == Worker("text", {})

Traits == [requirements |-> Requirements, cost |-> Cost, human_resources |-> HumanResources,
           research |-> Research, architecture |-> Architecture, data |-> Data, ux |-> Ux,
           reviewer |-> Reviewer, security |-> Security, validation |-> Validation,
           documentation |-> Documentation]
Of == Traits[config.worker]

Fresh(pc, round, asked, result) ==
    [pc |-> pc, at |-> 1, repair |-> FALSE, round |-> round, spent |-> 0, asked |-> asked, result |-> result]
Idle == Fresh("idle", 1, {}, None)

Configs == [providers : SUBSET Providers, default : Providers,
            override : Overrides \union {NoOverride}, worker : Workers, profile : Profiles]
Stages == [status : {"running", "done", "failed"}, elapsed : 0..StageTimeout,
           call : {0} \union Posts, posts : 0..RetryAttempts, broken : SUBSET Posts]
\* The read timeout of the HTTP client and the deadline of the route, whichever comes first.
CallLimit == Min({ReadTimeout, Deadline[config.worker]})
Answered == {"model", "replaced", "heuristic", "plain"}
\* Without an answer: the routing knows no provider, the checkout cannot be read, there is
\* no change to review, the report cannot be written, a value has another type, an LLMError.
Mishaps == {"unrouted", "unreadable", "empty", "unwritten", "mistyped", "raised"}
\* Of these the worker reports; any other is an HTTP 500.
Refusals == IF Of.catches THEN Mishaps ELSE {"empty"}
Results == {None} \union Answered \union Mishaps
Executions == [pc : {"idle", "asks", "answered"}, at : 1..2, repair : BOOLEAN, round : 1..2,
               spent : Nat, asked : SUBSET Providers, result : Results]

Init == /\ config \in Configs
        /\ config.profile \in Of.fastPaths \union {None}
        /\ order = Candidates
        /\ stage = [status |-> "running", elapsed |-> 0, call |-> 0, posts |-> 0, broken |-> {}]
        /\ exec = [p \in Posts |-> Idle]

AnsweredAtOnce(result) == Fresh("answered", 1, {}, result)
\* An answer is written as a report, which the file system may refuse.
Reported(result) == {result, "unwritten"}

(* How an execution may begin: without the checkout it reads, on a fast path
   without the model, or with the model. Without a provider the text calls raise
   LLMError and the workers answer on their own; everything else meets the
   ValueError of the routing.                                                   *)
Beginnings ==
    {AnsweredAtOnce(r) : r \in Of.unread} \union
    IF \/ config.profile # None
       \/ Of.asks = "nothing"
       \/ Of.asks = "routes" /\ config.providers # {} THEN {AnsweredAtOnce(r) : r \in Reported("plain")}
    ELSE IF config.providers # {} THEN {Fresh("asks", 1, {order[1]}, None)}
    ELSE IF Of.asks = "text" THEN {AnsweredAtOnce(r) : r \in Reported("heuristic")}
    ELSE {AnsweredAtOnce("unrouted")}

\* --- call_worker and the stage ------------------------------------------------

StageFails_KeepsCall(s) == [s EXCEPT !.status = "failed"]
StageFails(s) == [s EXCEPT !.status = "failed", !.call = 0]
Retried(s) == IF s.posts < RetryAttempts THEN [s EXCEPT !.call = 0] ELSE StageFails(s)

(* The stage s after the answer of execution p: an HTTP 500 is posted again, an
   answer that reports no success fails the stage, any other completes it; what
   nobody waits for is lost.                                                     *)
After(s, p, result) ==
    CASE s.call # p -> s
      [] s.call = p /\ result \in Answered -> [s EXCEPT !.status = "done", !.call = 0]
      [] s.call = p /\ result \in Refusals -> StageFails(s)
      [] OTHER -> Retried(s)

Post == /\ stage.status = "running" /\ stage.call = 0
        /\ LET p == stage.posts + 1
               s == [stage EXCEPT !.call = p, !.posts = p]
           IN  \E x \in Beginnings :
                   /\ exec' = [exec EXCEPT ![p] = x]
                   /\ stage' = IF x.pc = "answered" THEN After(s, p, x.result) ELSE s
        /\ UNCHANGED given

\* The connection breaks before the answer; the worker does not notice.
ConnectionBreaks == /\ stage.call # 0
                    /\ stage' = Retried([stage EXCEPT !.broken = @ \union {stage.call}])
                    /\ UNCHANGED <<given, exec>>

StageTimesOut == /\ stage.status = "running" /\ stage.elapsed = StageTimeout
                 /\ stage' = StageFails(stage)
                 /\ UNCHANGED <<given, exec>>

\* --- an execution and the provider it asks -------------------------------------

Ends(p, result) == /\ exec' = [exec EXCEPT ![p].pc = "answered", ![p].spent = 0, ![p].result = result]
                   /\ stage' = After(stage, p, result)
                   /\ UNCHANGED given
Reports(p, answer) == \E result \in Reported(answer) : Ends(p, result)

Asks(p, x) == /\ exec' = [exec EXCEPT ![p] = [x EXCEPT !.spent = 0, !.asked = @ \union {order[x.at]}]]
              /\ UNCHANGED <<given, stage>>

NextProvider_GivesUp(p) == Reports(p, "heuristic")
NextProvider_Raises(p) ==
    IF exec[p].at < Len(order) THEN Asks(p, [exec[p] EXCEPT !.at = @ + 1, !.repair = FALSE])
    ELSE Ends(p, "raised")
\* The next candidate; after the last one LLMError, and the worker's own answer.
NextProvider(p) ==
    IF exec[p].at < Len(order) THEN Asks(p, [exec[p] EXCEPT !.at = @ + 1, !.repair = FALSE])
    ELSE Reports(p, "heuristic")

\* The provider answers with an error, or with nothing but reasoning.
ProviderFails(p) == exec[p].pc = "asks" /\ NextProvider(p)

CallTimesOut_Waits(p) == /\ exec[p].pc = "asks" /\ exec[p].spent = CallLimit
                         /\ Asks(p, exec[p])
CallTimesOut(p) == exec[p].pc = "asks" /\ exec[p].spent = CallLimit /\ NextProvider(p)

(* Text that is not the JSON object asked for, or lacks a key: once the same
   provider is asked to repair it, then it is the turn of the next.             *)
AnswersUnusable(p) ==
    /\ exec[p].pc = "asks" /\ Of.asks = "json"
    /\ IF exec[p].repair THEN NextProvider(p) ELSE Asks(p, [exec[p] EXCEPT !.repair = TRUE])

(* A usable answer: its values are sound, or blank, or of other types than asked,
   which nothing but the worker could notice.                                    *)
Answers(p, content) ==
    /\ exec[p].pc = "asks"
    /\ CASE content = "mistyped" /\ Of.trusts -> Ends(p, "mistyped")
         [] content = "blank" /\ Of.blank = "replaced" -> Reports(p, "replaced")
         [] content = "blank" /\ Of.blank = "retried" /\ exec[p].round = 1 ->
                Asks(p, Fresh("asks", 2, {}, None))
         [] content = "blank" /\ Of.blank = "retried" /\ exec[p].round = 2 -> Reports(p, "replaced")
         [] OTHER -> Reports(p, "model")

Busy == {p \in Posts : exec[p].pc = "asks"}

\* Time passes, but no timer is overrun.
Tick == /\ stage.status = "running" \/ Busy # {}
        /\ stage.status = "running" => stage.elapsed < StageTimeout
        /\ \A p \in Busy : exec[p].spent < CallLimit
        /\ stage' = IF stage.status = "running" THEN [stage EXCEPT !.elapsed = @ + 1] ELSE stage
        /\ exec' = [p \in Posts |-> IF p \in Busy THEN [exec[p] EXCEPT !.spent = @ + 1] ELSE exec[p]]
        /\ UNCHANGED given

Execution(p) == \/ ProviderFails(p)
                \/ CallTimesOut(p)
                \/ AnswersUnusable(p)
                \/ \E content \in {"sound", "blank", "mistyped"} : Answers(p, content)

Next == \/ Post
        \/ ConnectionBreaks
        \/ StageTimesOut
        \/ \E p \in Posts : Execution(p)
        \/ Tick

(* Time passes and the event loops run their timers; that a provider answers or a
   connection holds is never assumed.                                           *)
Fairness == /\ WF_vars(Tick)
            /\ WF_vars(StageTimesOut)
            /\ \A p \in Posts : WF_vars(CallTimesOut(p))
Spec == Init /\ [][Next]_vars /\ Fairness

\* --- properties -----------------------------------------------------------------

TypeOK == /\ config \in Configs /\ order = Candidates /\ stage \in Stages /\ exec \in [Posts -> Executions]
          /\ \A p \in Posts : exec[p].spent <= CallLimit
          /\ stage.call # 0 => stage.status = "running" /\ exec[stage.call].pc = "asks"

(* The heuristic is the last resort: an answer made without the model is given
   only after each provider that is configured has been asked and failed, unless
   the routing file leaves the route without a fallback (llm.py, the loops of
   complete_with_trace and complete_json_with_trace).                            *)
HeuristicIsLastResort ==
    \A p \in Posts : exec[p].result = "heuristic" =>
        exec[p].asked = IF config.override # NoOverride /\ config.override.fallback = None
                        THEN {order[1]} \ {None} ELSE config.providers

\* A result that is not for a model that failed: the checkout, the report, the
\* routing without a provider, or values of the types that were not asked for.
Excused(result) == \/ result \in Of.unread
                   \/ result = "unwritten"
                   \/ result = "unrouted" /\ config.providers = {} /\ config.profile = None
                   \/ result = "mistyped" /\ Of.trusts

(* A model that does not answer, or not with what it was asked for, does not fail
   the stage (`except LLMError` in each worker's run). It fails when its time is
   up; when the worker of its last post reports such an excuse; or when every post
   it has is lost, to a broken connection or to a worker that crashed with one
   (workflow.py _run_stage, worker_client.py call_worker). Values of other types
   are an excuse of the reviewer and the security worker alone.                   *)
FailureHasACause ==
    stage.status = "failed" =>
        \/ stage.elapsed = StageTimeout
        \/ exec[stage.posts].result \in Refusals /\ Excused(exec[stage.posts].result)
        \/ /\ stage.posts = RetryAttempts
           /\ \A p \in Posts : p \in stage.broken \/ Excused(exec[p].result)

(* Every stage ends, and so does every execution, those included that nobody waits
   for any more because the connection broke or the stage timed out: only the
   timers are needed for it (workflow.py _run_worker, llm.py _complete_with_provider). *)
EverythingEnds == <>[](stage.status # "running" /\ Busy = {})

(* llm.py says: "The backend is optional, errors are explicit, and callers must
   treat generated content as advisory until validated." Then no stage fails whose
   time was not up, whose connections held, and whose worker got at its files.    *)
ModelIsAdvisory == stage.status = "failed" => \/ stage.elapsed = StageTimeout \/ stage.broken # {}
                                              \/ exec[stage.posts].result \in Of.unread \union {"unwritten"}
====
