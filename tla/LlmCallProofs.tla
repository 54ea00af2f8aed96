----------------------------- MODULE LlmCallProofs -----------------------------
(***************************************************************************)
(* Proofs about LlmCall, for every routing file, every timeout and every   *)
(* number of retries: the heuristic answer is the last resort, and a stage *)
(* that fails has a cause other than a model that does not answer.         *)
(*                                                                         *)
(* The argument has two parts.  What the routing makes of the configured   *)
(* providers, the file and the defaults is an order that begins with a     *)
(* configured provider and, with a fallback, covers them all.  While an    *)
(* execution asks, it has asked the providers of the order up to where it  *)
(* is, so at its end it has asked all of them.                             *)
(***************************************************************************)
EXTENDS LlmCall, WellFoundedInduction, TLAPS

-------------------------------------------------------------------------------
(* The routing *)

\* Every set of numbers that has a member has a least one.
LEMMA Least ==
    ASSUME NEW S, S \subseteq Nat, S # {}
    PROVE  \E x \in S : \A y \in S : x <= y
<1>1. PICK R : IsWellFoundedOn(R, Nat) /\ \A x, y \in Nat : <<y, x>> \in R <=> y < x
    <2>1. IsWellFoundedOn(OpToRel(<, Nat), Nat)
        BY NatLessThanWellFounded
    <2>2. \A x, y \in Nat : <<y, x>> \in OpToRel(<, Nat) <=> y < x
        BY DEF OpToRel
    <2> QED
        BY <2>1, <2>2
<1>2. PICK x \in S : \A y \in S : ~(<<y, x>> \in R)
    BY <1>1, WFMin
<1>3. ASSUME NEW y \in S
      PROVE  x <= y
    <2>1. x \in Nat /\ y \in Nat
        OBVIOUS
    <2>2. ~(y < x)
        BY <1>1, <1>2, <2>1
    <2> QED
        BY <2>1, <2>2
<1> QED
    BY <1>3

\* The provider that is preferred is one that may be used; there is none only if
\* no provider may be used.
LEMMA PreferredIs ==
    ASSUME NEW names \in SUBSET Providers, NEW S, NEW candidates \in Seq(S), NEW exclude
    PROVE  /\ names \ exclude = {} => Preferred(names, candidates, exclude) = None
           /\ names \ exclude # {} => Preferred(names, candidates, exclude) \in names \ exclude
<1> DEFINE all == candidates \o Sorted
           free == names \ exclude
           usable == {i \in 1..Len(all) : all[i] \in free}
<1>1. Preferred(names, candidates, exclude) = IF usable = {} THEN None ELSE all[Min(usable)]
    BY DEF Preferred
<1>2. /\ Len(candidates) \in Nat /\ Len(all) = Len(candidates) + 2
      /\ all[Len(candidates) + 1] = "mistral" /\ all[Len(candidates) + 2] = "qwen"
    BY DEF Sorted
<1>3. CASE free = {}
    <2>1. usable = {}
        BY <1>3
    <2> QED
        BY <1>1, <1>3, <2>1
<1>4. CASE free # {}
    <2>1. "mistral" \in free \/ "qwen" \in free
        BY <1>4 DEF Providers
    <2> HIDE DEF all, free
    <2>2. usable # {} /\ usable \subseteq Nat
        BY <1>2, <2>1
    <2>3. PICK i \in usable : \A j \in usable : i <= j
        BY <2>2, Least
    <2>4. Min(usable) \in usable
        <3> HIDE DEF usable
        <3> QED
            BY <2>3 DEF Min
    <2>5. all[Min(usable)] \in free
        BY <2>4
    <2>6. Preferred(names, candidates, exclude) = all[Min(usable)]
        BY <1>1, <2>2 DEF all, free
    <2> QED
        BY <1>4, <2>5, <2>6 DEF free
<1> QED
    BY <1>3, <1>4

\* The order is the primary provider and, if there is another and the route has a
\* fallback, that one.
LEMMA OrderIs ==
    ASSUME config \in Configs
    PROVE  /\ config.providers = {} => Candidates = <<None>>
           /\ config.providers # {} =>
                \/ /\ Candidates = <<Primary>> /\ Primary \in config.providers
                   /\ \/ config.providers = {Primary}
                      \/ config.override # NoOverride /\ config.override.fallback = None
                \/ /\ Candidates = <<Primary, Fallback>>
                   /\ Primary \in config.providers /\ Fallback \in config.providers
                   /\ Fallback # Primary
                   /\ config.providers = {Primary, Fallback}
                   /\ ~(config.override # NoOverride /\ config.override.fallback = None)
<1> DEFINE names == config.providers
<1>1. names \in SUBSET Providers /\ None \notin Providers
    BY DEF Configs, Providers, None
<1> HIDE DEF names
<1>2. /\ names = {} => Primary = None
      /\ names # {} => Primary \in names
    <2> DEFINE list == <<Route.primary, Route.fallback, config.default, "mistral", "qwen">>
           T == {Route.primary, Route.fallback, config.default, "mistral", "qwen"}
    <2>1. list \in Seq(T)
        OBVIOUS
    <2>2. Primary = Preferred(names, list, {})
        BY DEF Primary, names
    <2> HIDE DEF list, T
    <2>3. /\ names \ {} = {} => Preferred(names, list, {}) = None
          /\ names \ {} # {} => Preferred(names, list, {}) \in names \ {}
        BY <1>1, <2>1, PreferredIs
    <2>4. names \ {} = names
        OBVIOUS
    <2> QED
        BY <2>2, <2>3, <2>4
<1>3. Route.fallback # None =>
         /\ names \ {Primary} = {} => Fallback = None
         /\ names \ {Primary} # {} => Fallback \in names \ {Primary}
    <2> DEFINE list == <<Route.fallback>>
           T == {Route.fallback}
    <2>1. list \in Seq(T)
        OBVIOUS
    <2>2. Route.fallback # None => Fallback = Preferred(names, list, {Primary})
        BY DEF Fallback, names
    <2> HIDE DEF list, T
    <2>3. /\ names \ {Primary} = {} => Preferred(names, list, {Primary}) = None
          /\ names \ {Primary} # {} => Preferred(names, list, {Primary}) \in names \ {Primary}
        BY <1>1, <2>1, PreferredIs
    <2> QED
        BY <2>2, <2>3
<1>4. Route.fallback = None => Fallback = None
    BY DEF Fallback
<1>5. names # {} => (Route.fallback = None <=>
                       config.override # NoOverride /\ config.override.fallback = None)
    <2>1. CASE config.override # NoOverride
        BY <2>1 DEF Route
    <2>2. CASE config.override = NoOverride
        <3> DEFINE safe == SafeDefault(names, config.default)
                   list == <<"qwen", safe, "mistral">>
                   T == {"qwen", safe, "mistral"}
        <3>1. list \in Seq(T)
            OBVIOUS
        <3>2. Route.fallback = Preferred(names, list, {})
            BY <2>2 DEF Route, DefaultRoute, names
        <3> HIDE DEF list, T
        <3>3. names \ {} # {} => Preferred(names, list, {}) \in names \ {}
            BY <1>1, <3>1, PreferredIs
        <3>4. names # {} => Route.fallback \in names
            <4>1. names \ {} = names
                OBVIOUS
            <4> QED
                BY <3>2, <3>3, <4>1
        <3> QED
            BY <1>1, <2>2, <3>4
    <2> QED
        BY <2>1, <2>2
<1>6. CASE names = {}
    <2>1. Fallback = None
        BY <1>3, <1>4, <1>6
    <2> QED
        BY <1>2, <1>6, <2>1 DEF Candidates, names
<1>7. CASE names # {} /\ Fallback = None
    <2>1. Candidates = <<Primary>> /\ Primary \in names
        BY <1>2, <1>7 DEF Candidates
    <2>2. Route.fallback = None \/ names \ {Primary} = {}
        BY <1>1, <1>3, <1>7
    <2>3. names = {Primary} \/ (config.override # NoOverride /\ config.override.fallback = None)
        BY <1>5, <1>7, <2>1, <2>2
    <2> QED
        BY <1>7, <2>1, <2>3 DEF names
<1>8. CASE names # {} /\ Fallback # None
    <2>1. Route.fallback # None /\ Fallback \in names \ {Primary} /\ Primary \in names
        BY <1>2, <1>3, <1>4, <1>8
    <2>2. Candidates = <<Primary, Fallback>>
        BY <1>8, <2>1 DEF Candidates
    <2>3. names = {Primary, Fallback}
        BY <1>1, <2>1 DEF Providers
    <2> QED
        BY <1>5, <1>8, <2>1, <2>2, <2>3 DEF names
<1> QED
    BY <1>6, <1>7, <1>8

-------------------------------------------------------------------------------
(* The inductive invariant *)

\* Who has been asked when the heuristic answers.
LastResort == IF config.override # NoOverride /\ config.override.fallback = None
              THEN {order[1]} \ {None} ELSE config.providers

\* An execution that asks has asked the providers of the order up to where it is;
\* one that ended with the heuristic has asked them all.
ExecutionHolds(x) ==
    /\ x.pc = "asks" => /\ config.providers # {} /\ config.profile = None
                        /\ x.at <= Len(order) /\ x.result = None
                        /\ x.asked = {order[i] : i \in 1..x.at}
    /\ x.result = "heuristic" => x.asked = LastResort
ExecutionsHold == \A p \in Posts : ExecutionHolds(exec[p])

\* A post that brought the stage nothing, for a reason that is not the model.
Lost(q) == q \in stage.broken \/ Excused(exec[q].result)

\* A stage waits for its last post, or has one left; all before were lost.
StageHolds ==
    /\ stage.status = "running" /\ stage.call = 0 => stage.posts < RetryAttempts
    /\ stage.call # 0 => stage.call = stage.posts
    /\ stage.status = "failed" => stage.elapsed = StageTimeout \/ stage.posts \in Posts
    /\ stage.status = "running" => \A q \in Posts : q <= stage.posts => q = stage.call \/ Lost(q)

IInv == TypeOK /\ ExecutionsHold /\ StageHolds /\ FailureHasACause

\* The time limit of a call is positive.
LEMMA CallLimitIsPositive ==
    ASSUME config \in Configs
    PROVE  CallLimit \in Nat \ {0}
<1>1. config.worker \in Workers
    BY DEF Configs
<1>2. ReadTimeout \in Nat \ {0} /\ Deadline[config.worker] \in Nat \ {0}
    BY <1>1, TimesAreNatural
<1>3. \E m \in {ReadTimeout, Deadline[config.worker]} :
         \A n \in {ReadTimeout, Deadline[config.worker]} : m <= n
    BY <1>2
<1>4. CallLimit \in {ReadTimeout, Deadline[config.worker]}
    BY <1>3 DEF CallLimit, Min
<1> QED
    BY <1>2, <1>4

\* The order has one or two members, which are configured if any provider is; and
\* who has asked them all has asked whom the last resort wants asked.
LEMMA OrderHolds ==
    ASSUME config \in Configs, order = Candidates
    PROVE  /\ Len(order) \in 1..2
           /\ config.providers = {} => LastResort = {}
           /\ config.providers # {} => /\ \A i \in 1..Len(order) : order[i] \in config.providers
                                       /\ {order[i] : i \in 1..Len(order)} = LastResort
<1>1. None \notin config.providers
    BY DEF Configs, Providers, None
<1>2. CASE config.providers = {}
    <2>1. order = <<None>>
        BY <1>2, OrderIs
    <2>2. Len(order) = 1 /\ order[1] = None
        BY <2>1
    <2> QED
        BY <1>2, <2>2 DEF LastResort
<1>3. CASE /\ config.providers # {}
           /\ Candidates = <<Primary>> /\ Primary \in config.providers
           /\ \/ config.providers = {Primary}
              \/ config.override # NoOverride /\ config.override.fallback = None
    <2>1. Len(order) = 1 /\ order[1] = Primary
        BY <1>3
    <2>2. {order[i] : i \in 1..Len(order)} = {Primary}
        BY <2>1
    <2>3. LastResort = {Primary}
        BY <1>1, <1>3, <2>1 DEF LastResort
    <2> QED
        BY <1>3, <2>1, <2>2, <2>3
<1>4. CASE /\ config.providers # {}
           /\ Candidates = <<Primary, Fallback>>
           /\ Primary \in config.providers /\ Fallback \in config.providers
           /\ config.providers = {Primary, Fallback}
           /\ ~(config.override # NoOverride /\ config.override.fallback = None)
    <2>1. Len(order) = 2 /\ order[1] = Primary /\ order[2] = Fallback
        BY <1>4
    <2>2. {order[i] : i \in 1..Len(order)} = {Primary, Fallback}
        BY <2>1
    <2>3. LastResort = config.providers
        BY <1>4 DEF LastResort
    <2> QED
        BY <1>4, <2>1, <2>2, <2>3
<1> QED
    BY <1>2, <1>3, <1>4, OrderIs

\* The initial states satisfy the invariant.
LEMMA InitHolds == Init => IInv
<1> SUFFICES ASSUME Init PROVE IInv
    OBVIOUS
<1>1. config \in Configs /\ order = Candidates
    BY DEF Init
<1>2. CallLimit \in Nat \ {0}
    BY <1>1, CallLimitIsPositive
<1>3. Idle \in Executions /\ Idle.pc = "idle" /\ Idle.spent = 0 /\ Idle.result = None
    BY DEF Idle, Fresh, Executions, Results, None, Providers
<1>4. exec \in [Posts -> Executions] /\ \A p \in Posts : exec[p] = Idle
    BY <1>3 DEF Init
<1>5. stage \in Stages /\ stage.status = "running" /\ stage.call = 0 /\ stage.posts = 0
    BY TimesAreNatural DEF Init, Stages, Posts
<1>6. TypeOK
    BY <1>1, <1>2, <1>3, <1>4, <1>5 DEF TypeOK
<1>7. ExecutionsHold
    BY <1>3, <1>4 DEF ExecutionsHold, ExecutionHolds, None
<1>8. StageHolds /\ FailureHasACause
    BY <1>5, TimesAreNatural DEF StageHolds, FailureHasACause, Posts
<1> QED
    BY <1>6, <1>7, <1>8 DEF IInv

-------------------------------------------------------------------------------
(* What the steps are made of *)

\* The configuration stays, and what is made of it.
LEMMA GivenStays ==
    ASSUME UNCHANGED given
    PROVE  /\ config' = config /\ order' = order /\ (Candidates' = Candidates)
           /\ CallLimit' = CallLimit /\ LastResort' = LastResort /\ Of' = Of
           /\ Refusals' = Refusals
           /\ \A x : ExecutionHolds(x)' <=> ExecutionHolds(x)
           /\ \A x : Excused(x)' <=> Excused(x)
<1>1. config' = config /\ order' = order
    BY DEF given
<1>2. Of' = Of
    BY <1>1 DEF Of
<1>3. Refusals' = Refusals /\ \A x : Excused(x)' <=> Excused(x)
    BY <1>1, <1>2 DEF Refusals, Excused
<1> QED
    BY <1>1, <1>2, <1>3 DEF Candidates, Primary, Fallback, Route, CallLimit, LastResort, ExecutionHolds

\* What a worker may find in place of what it reads.
LEMMA UnreadIs ==
    ASSUME config \in Configs
    PROVE  /\ Of.unread \subseteq {"unreadable", "empty"}
           /\ ~Excused(None) /\ None \notin Refusals
<1>1. config.worker \in {"requirements", "cost", "human_resources", "research", "architecture",
        "data", "ux", "reviewer", "security", "validation", "documentation"}
    BY WorkersAreKnown DEF Configs
<1>2. \A w \in {Requirements, Cost, HumanResources, Research, Architecture, Data, Ux, Reviewer,
                Security, Validation, Documentation} : w.unread \subseteq {"unreadable", "empty"}
    <2>1. \A a, f : /\ DOMAIN Worker(a, f) = {"asks", "fastPaths", "catches", "unread", "trusts", "blank"}
                    /\ Worker(a, f).unread = {}
        BY DEF Worker
    <2>2. \A a, f : [Worker(a, f) EXCEPT !.catches = TRUE].unread = {}
        BY <2>1
    <2>3. \A a, f : [Worker(a, f) EXCEPT !.blank = "retried"].unread = {}
        BY <2>1
    <2>4. \A a, f, u : [Worker(a, f) EXCEPT !.unread = u, !.trusts = TRUE].unread = u
        BY DEF Worker
    <2>5. \A a, f, u : [Worker(a, f) EXCEPT !.catches = TRUE, !.unread = u, !.blank = "replaced"].unread = u
        BY DEF Worker
    <2>6. Requirements.unread = {}
        BY <2>2 DEF Requirements
    <2>7. /\ Cost.unread = {} /\ HumanResources.unread = {} /\ Data.unread = {} /\ Ux.unread = {}
          /\ Validation.unread = {} /\ Documentation.unread = {}
        BY <2>1 DEF Cost, HumanResources, Data, Ux, Validation, Documentation
    <2>8. Architecture.unread = {}
        BY <2>3 DEF Architecture
    <2>9. Reviewer.unread = {"unreadable", "empty"} /\ Security.unread = {"unreadable"}
        BY <2>4 DEF Reviewer, Security
    <2>10. Research.unread = {"unreadable"}
        BY <2>5 DEF Research
    <2> QED
        BY <2>6, <2>7, <2>8, <2>9, <2>10
<1>3. Of \in {Requirements, Cost, HumanResources, Research, Architecture, Data, Ux, Reviewer,
              Security, Validation, Documentation}
    BY <1>1 DEF Of, Traits
<1>4. Of.unread \subseteq {"unreadable", "empty"}
    BY <1>2, <1>3
<1>5. None \notin Refusals
    BY DEF Refusals, Mishaps, None
<1>6. ~Excused(None)
    BY <1>4 DEF Excused, None
<1> QED
    BY <1>4, <1>5, <1>6

\* A call that crashed is retried while a post is left, and else fails the stage.
LEMMA RetriedIs ==
    ASSUME NEW s \in Stages, s.status = "running"
    PROVE  /\ Retried(s) \in Stages /\ Retried(s).call = 0
           /\ Retried(s).posts = s.posts /\ Retried(s).broken = s.broken
           /\ Retried(s).elapsed = s.elapsed
           /\ \/ Retried(s).status = "running" /\ s.posts < RetryAttempts
              \/ Retried(s).status = "failed" /\ s.posts = RetryAttempts
<1>1. s.posts \in 0..RetryAttempts
    BY DEF Stages
<1>2. CASE s.posts < RetryAttempts
    <2>1. Retried(s) = [s EXCEPT !.call = 0]
        BY <1>2 DEF Retried
    <2>2. [s EXCEPT !.call = 0] \in Stages
        BY DEF Stages
    <2> QED
        BY <1>2, <2>1, <2>2 DEF Stages
<1>3. CASE ~(s.posts < RetryAttempts)
    <2>1. Retried(s) = [s EXCEPT !.status = "failed", !.call = 0]
        BY <1>3 DEF Retried, StageFails
    <2>2. [s EXCEPT !.status = "failed", !.call = 0] \in Stages
        BY DEF Stages
    <2>3. s.posts = RetryAttempts
        BY <1>1, <1>3, TimesAreNatural
    <2> QED
        BY <2>1, <2>2, <2>3 DEF Stages
<1> QED
    BY <1>2, <1>3

\* A stage ends by an answer, or fails by a refusal; any other result of the post it
\* waits for is retried.
LEMMA AfterIs ==
    ASSUME NEW s \in Stages, NEW p \in Posts, NEW result \in Results,
           s.call # 0 => s.status = "running"
    PROVE  /\ s.call # p => After(s, p, result) = s
           /\ s.call = p =>
                /\ After(s, p, result) \in Stages /\ After(s, p, result).call = 0
                /\ After(s, p, result).posts = s.posts /\ After(s, p, result).broken = s.broken
                /\ After(s, p, result).elapsed = s.elapsed
                /\ \/ After(s, p, result).status = "done" /\ result \in Answered
                   \/ After(s, p, result).status = "failed" /\ result \in Refusals
                   \/ After(s, p, result).status = "failed" /\ s.posts = RetryAttempts
                      /\ result \notin Answered
                   \/ After(s, p, result).status = "running" /\ s.posts < RetryAttempts
                      /\ result \notin Answered
<1>1. CASE s.call # p
    BY <1>1 DEF After
<1>2. CASE s.call = p /\ result \in Answered
    <2>1. result \notin Refusals
        BY <1>2 DEF Answered, Refusals, Mishaps
    <2>2. After(s, p, result) = [s EXCEPT !.status = "done", !.call = 0]
        BY <1>2, <2>1 DEF After
    <2>3. [s EXCEPT !.status = "done", !.call = 0] \in Stages
        BY DEF Stages
    <2> QED
        BY <1>2, <2>2, <2>3 DEF Stages
<1>3. CASE s.call = p /\ result \notin Answered /\ result \in Refusals
    <2>1. After(s, p, result) = [s EXCEPT !.status = "failed", !.call = 0]
        BY <1>3 DEF After, StageFails
    <2>2. [s EXCEPT !.status = "failed", !.call = 0] \in Stages
        BY DEF Stages
    <2> QED
        BY <1>3, <2>1, <2>2 DEF Stages
<1>4. CASE s.call = p /\ result \notin Answered /\ result \notin Refusals
    <2>1. After(s, p, result) = Retried(s)
        BY <1>4 DEF After
    <2>2. s.status = "running"
        BY <1>4 DEF Posts
    <2> QED
        BY <1>4, <2>1, <2>2, RetriedIs
<1> QED
    BY <1>1, <1>2, <1>3, <1>4

\* What is known of the stage stays while its status and its posts do, and no result
\* is overwritten.
LEMMA StageStays ==
    ASSUME IInv, UNCHANGED given,
           stage'.status = stage.status, stage'.call = stage.call, stage'.posts = stage.posts,
           stage'.broken = stage.broken,
           stage.status # "running" => stage'.elapsed = stage.elapsed,
           \A q \in Posts : exec'[q].result = exec[q].result \/ exec[q].result = None
    PROVE  StageHolds' /\ FailureHasACause'
<1>1. config \in Configs
    BY DEF IInv, TypeOK
<1>2. /\ ~Excused(None) /\ None \notin Refusals /\ Refusals' = Refusals
      /\ \A x : Excused(x)' <=> Excused(x)
    BY <1>1, UnreadIs, GivenStays
<1>3. \A q \in Posts : /\ Excused(exec[q].result) => Excused(exec'[q].result)
                       /\ exec[q].result \in Refusals => exec'[q].result \in Refusals
    BY <1>2
<1>4. \A q \in Posts : Excused(exec[q].result) => Excused(exec[q].result)'
    BY <1>2, <1>3 DEF Excused
<1>5. \A q \in Posts : Lost(q) => Lost(q)'
    BY <1>4 DEF Lost
<1>6. StageHolds'
    BY <1>5 DEF IInv, StageHolds, Posts
<1>7. ASSUME stage'.status = "failed"
      PROVE  \/ stage'.elapsed = StageTimeout
             \/ /\ exec'[stage'.posts].result \in Refusals'
                /\ Excused(exec[stage.posts].result)'
             \/ /\ stage'.posts = RetryAttempts
                /\ \A q \in Posts : q \in stage'.broken \/ Excused(exec[q].result)'
    <2>1. CASE stage.elapsed = StageTimeout
        BY <1>7, <2>1
    <2>2. CASE stage.elapsed # StageTimeout
        <3>1. stage.posts \in Posts
            BY <1>7, <2>2 DEF IInv, StageHolds
        <3>2. \/ exec[stage.posts].result \in Refusals /\ Excused(exec[stage.posts].result)
              \/ /\ stage.posts = RetryAttempts
                 /\ \A q \in Posts : q \in stage.broken \/ Excused(exec[q].result)
            BY <1>7, <2>2 DEF IInv, FailureHasACause
        <3>3. CASE exec[stage.posts].result \in Refusals /\ Excused(exec[stage.posts].result)
            BY <1>2, <1>3, <1>4, <3>1, <3>3
        <3>4. CASE /\ stage.posts = RetryAttempts
                   /\ \A q \in Posts : q \in stage.broken \/ Excused(exec[q].result)
            BY <1>4, <3>4
        <3> QED
            BY <3>2, <3>3, <3>4
    <2> QED
        BY <2>1, <2>2
<1>8. FailureHasACause'
    BY <1>7 DEF FailureHasACause, Posts
<1> QED
    BY <1>6, <1>8

\* A stage whose last post is over: it is done, or that post was refused, or that post
\* was lost like those before and is retried unless it was the last.
LEMMA PostIsOver ==
    ASSUME UNCHANGED given, stage'.call = 0, stage'.posts \in Posts,
           \/ stage'.status = "done"
           \/ /\ stage'.status = "failed"
              /\ exec'[stage'.posts].result \in Refusals /\ Excused(exec'[stage'.posts].result)
           \/ /\ \A q \in Posts : q <= stage'.posts => q \in stage'.broken \/ Excused(exec'[q].result)
              /\ \/ stage'.status = "failed" /\ stage'.posts = RetryAttempts
                 \/ stage'.status = "running" /\ stage'.posts < RetryAttempts
    PROVE  StageHolds' /\ FailureHasACause'
<1>1. Refusals' = Refusals /\ \A x : Excused(x)' <=> Excused(x)
    BY GivenStays
<1>2. \A q : Excused(exec'[q].result) => Excused(exec[q].result)'
    BY <1>1 DEF Excused
<1>3. CASE stage'.status = "done"
    BY <1>3 DEF StageHolds, FailureHasACause
<1>4. CASE /\ stage'.status = "failed"
           /\ exec'[stage'.posts].result \in Refusals /\ Excused(exec'[stage'.posts].result)
    <2>1. exec'[stage'.posts].result \in Refusals' /\ Excused(exec[stage.posts].result)'
        BY <1>1, <1>4 DEF Excused
    <2>2. FailureHasACause'
        BY <2>1 DEF FailureHasACause
    <2>3. StageHolds'
        BY <1>4 DEF StageHolds, Posts
    <2> QED
        BY <2>2, <2>3
<1>5. CASE /\ \A q \in Posts : q <= stage'.posts => q \in stage'.broken \/ Excused(exec'[q].result)
           /\ \/ stage'.status = "failed" /\ stage'.posts = RetryAttempts
              \/ stage'.status = "running" /\ stage'.posts < RetryAttempts
    <2>1. \A q \in Posts : q <= stage'.posts => Lost(q)'
        BY <1>2, <1>5 DEF Lost
    <2>2. StageHolds'
        BY <1>5, <2>1 DEF StageHolds, Posts
    <2>3. CASE stage'.status = "failed" /\ stage'.posts = RetryAttempts
        <3>1. \A q \in Posts : q <= RetryAttempts
            BY TimesAreNatural DEF Posts
        <3>2. \A q \in Posts : q \in stage'.broken \/ Excused(exec[q].result)'
            BY <2>1, <2>3, <3>1 DEF Lost
        <3>3. FailureHasACause'
            BY <2>3, <3>2 DEF FailureHasACause, Posts
        <3> QED
            BY <2>2, <3>3
    <2>4. CASE stage'.status = "running"
        BY <2>2, <2>4 DEF FailureHasACause
    <2> QED
        BY <1>5, <2>3, <2>4
<1> QED
    BY <1>3, <1>4, <1>5

\* The execution that ends has asked whom the last resort wants asked, if it
\* answers with the heuristic, and has an excuse, if it does not answer.
LEMMA EndsKeeps ==
    ASSUME IInv, NEW p \in Posts, NEW result \in Results, exec[p].pc = "asks",
           result = "heuristic" => exec[p].asked = LastResort,
           result \in Answered \/ Excused(result),
           Ends(p, result)
    PROVE  IInv'
<1> DEFINE x == [exec[p] EXCEPT !.pc = "answered", !.spent = 0, !.result = result]
<1>1. /\ config \in Configs /\ order = Candidates /\ stage \in Stages
      /\ exec \in [Posts -> Executions] /\ \A q \in Posts : exec[q].spent <= CallLimit
      /\ stage.call # 0 => stage.status = "running" /\ exec[stage.call].pc = "asks"
    BY DEF IInv, TypeOK
<1>2. CallLimit \in Nat \ {0}
    BY <1>1, CallLimitIsPositive
<1>3. exec' = [exec EXCEPT ![p] = x] /\ stage' = After(stage, p, result) /\ UNCHANGED given
    BY DEF Ends
<1>4. x \in Executions /\ x.spent = 0 /\ x.pc = "answered" /\ x.asked = exec[p].asked /\ x.result = result
    BY <1>1 DEF Executions
<1> HIDE DEF x
<1>5. exec' \in [Posts -> Executions] /\ exec'[p] = x /\ \A q \in Posts \ {p} : exec'[q] = exec[q]
    BY <1>1, <1>3, <1>4
<1>6. \/ stage.call # p /\ stage' = stage
      \/ /\ stage.call = p /\ stage' \in Stages /\ stage'.call = 0
         /\ stage'.posts = stage.posts /\ stage'.broken = stage.broken
         /\ \/ stage'.status = "done" /\ result \in Answered
            \/ stage'.status = "failed" /\ result \in Refusals
            \/ stage'.status = "failed" /\ stage.posts = RetryAttempts /\ result \notin Answered
            \/ stage'.status = "running" /\ stage.posts < RetryAttempts /\ result \notin Answered
    <2>1. CASE stage.call # p
        BY <1>1, <1>3, <2>1, AfterIs
    <2>2. CASE stage.call = p
        BY <1>1, <1>3, <2>2, AfterIs
    <2> QED
        BY <2>1, <2>2
<1>7. TypeOK'
    <2>1. config' \in Configs /\ order' = Candidates' /\ CallLimit' = CallLimit
        BY <1>1, <1>3, GivenStays DEF Configs
    <2>2. \A q \in Posts : exec'[q].spent <= CallLimit
        BY <1>1, <1>2, <1>4, <1>5
    <2>3. stage' \in Stages /\ (stage'.call # 0 => stage'.status = "running" /\ exec'[stage'.call].pc = "asks")
        BY <1>1, <1>5, <1>6 DEF Stages
    <2> QED
        BY <1>5, <2>1, <2>2, <2>3 DEF TypeOK, Posts, Stages, Executions, Results
<1>8. ExecutionsHold'
    <2>1. ExecutionHolds(x)
        BY <1>4 DEF ExecutionHolds
    <2>2. \A q \in Posts : ExecutionHolds(exec'[q])
        BY <1>5, <2>1 DEF IInv, ExecutionsHold
    <2>3. \A q \in Posts : ExecutionHolds(exec[q])'
        BY <1>3, <2>2, GivenStays DEF ExecutionHolds
    <2> QED
        BY <2>3 DEF ExecutionsHold, Posts
<1>9. StageHolds' /\ FailureHasACause'
    <2>1. CASE stage.call # p /\ stage' = stage
        <3>1. \A q \in Posts : exec'[q].result = exec[q].result \/ exec[q].result = None
            BY <1>5 DEF IInv, ExecutionsHold, ExecutionHolds
        <3> QED
            BY <1>3, <2>1, <3>1, StageStays
    <2>2. CASE stage.call = p /\ stage'.call = 0
               /\ stage'.posts = stage.posts /\ stage'.broken = stage.broken
        <3>1. stage.posts = p /\ stage.status = "running" /\ exec'[p].result = result
            BY <1>1, <1>4, <1>5, <2>2 DEF IInv, StageHolds, Posts
        <3>2. ASSUME Excused(result)
              PROVE  \A q \in Posts : q <= stage'.posts => q \in stage'.broken \/ Excused(exec'[q].result)
            <4>1. \A q \in Posts \ {p} : q <= stage.posts => q \in stage.broken \/ Excused(exec[q].result)
                BY <2>2, <3>1 DEF IInv, StageHolds, Lost
            <4> QED
                BY <1>5, <2>2, <3>1, <3>2, <4>1
        <3>3. \A r : r \in Refusals => r \notin Answered
            BY DEF Refusals, Answered, Mishaps
        <3> QED
            BY <1>3, <1>6, <2>2, <3>1, <3>2, <3>3, PostIsOver
    <2> QED
        BY <1>6, <2>1, <2>2
<1> QED
    BY <1>7, <1>8, <1>9 DEF IInv

\* The worker reports its answer, or cannot write the report.
LEMMA ReportsKeeps ==
    ASSUME IInv, NEW p \in Posts, NEW answer \in Answered, exec[p].pc = "asks",
           answer = "heuristic" => exec[p].asked = LastResort,
           Reports(p, answer)
    PROVE  IInv'
<1>1. PICK result \in {answer, "unwritten"} : Ends(p, result)
    BY DEF Reports, Reported
<1>2. CASE result = answer
    BY <1>1, <1>2, EndsKeeps DEF Results
<1>3. CASE result = "unwritten"
    <2>1. result \in Results /\ Excused(result) /\ result # "heuristic"
        BY <1>3 DEF Results, Mishaps, Excused
    <2> QED
        BY <1>1, <2>1, EndsKeeps
<1> QED
    BY <1>2, <1>3

\* An execution that asks has asked the providers up to the one it asks now.
LEMMA AsksKeeps ==
    ASSUME IInv, NEW p \in Posts, exec[p].pc = "asks", NEW x \in Executions,
           x.pc = "asks", x.result = None, x.at <= Len(order),
           x.asked \union {order[x.at]} = {order[i] : i \in 1..x.at},
           Asks(p, x)
    PROVE  IInv'
<1> DEFINE y == [x EXCEPT !.spent = 0, !.asked = @ \union {order[x.at]}]
<1>1. /\ config \in Configs /\ order = Candidates /\ stage \in Stages
      /\ exec \in [Posts -> Executions] /\ \A q \in Posts : exec[q].spent <= CallLimit
      /\ stage.call # 0 => stage.status = "running" /\ exec[stage.call].pc = "asks"
      /\ config.providers # {} /\ config.profile = None
    BY DEF IInv, TypeOK, ExecutionsHold, ExecutionHolds
<1>2. CallLimit \in Nat \ {0}
    BY <1>1, CallLimitIsPositive
<1>3. exec' = [exec EXCEPT ![p] = y] /\ stage' = stage /\ UNCHANGED given
    BY DEF Asks
<1>4. x.at \in 1..2 /\ order[x.at] \in Providers
    <2>1. x.at \in 1..2 /\ x.at \in 1..Len(order)
        BY <1>1, OrderHolds DEF Executions
    <2> QED
        BY <1>1, <2>1, OrderHolds DEF Configs
<1>5. /\ y \in Executions /\ y.spent = 0 /\ y.pc = "asks" /\ y.result = None /\ y.at = x.at
      /\ y.asked = {order[i] : i \in 1..x.at}
    <2>1. x.asked \union {order[x.at]} \in SUBSET Providers
        BY <1>4 DEF Executions
    <2> QED
        BY <2>1 DEF Executions
<1> HIDE DEF y
<1>6. exec' \in [Posts -> Executions] /\ exec'[p] = y /\ \A q \in Posts \ {p} : exec'[q] = exec[q]
    BY <1>1, <1>3, <1>5
<1>7. TypeOK'
    <2>1. config' \in Configs /\ order' = Candidates' /\ CallLimit' = CallLimit
        BY <1>1, <1>3, GivenStays DEF Configs
    <2>2. \A q \in Posts : exec'[q].spent <= CallLimit
        BY <1>1, <1>2, <1>5, <1>6
    <2>3. stage'.call # 0 => stage'.status = "running" /\ exec'[stage'.call].pc = "asks"
        BY <1>1, <1>3, <1>5, <1>6 DEF Stages
    <2> QED
        BY <1>1, <1>3, <1>6, <2>1, <2>2, <2>3 DEF TypeOK, Posts, Stages, Executions, Results
<1>8. ExecutionsHold'
    <2>1. ExecutionHolds(y)
        BY <1>1, <1>5 DEF ExecutionHolds, None
    <2>2. \A q \in Posts : ExecutionHolds(exec'[q])
        BY <1>6, <2>1 DEF IInv, ExecutionsHold
    <2>3. \A q \in Posts : ExecutionHolds(exec[q])'
        BY <1>3, <2>2, GivenStays DEF ExecutionHolds
    <2> QED
        BY <2>3 DEF ExecutionsHold, Posts
<1>9. StageHolds' /\ FailureHasACause'
    <2>1. \A q \in Posts : exec'[q].result = exec[q].result \/ exec[q].result = None
        BY <1>6 DEF IInv, ExecutionsHold, ExecutionHolds
    <2> QED
        BY <1>3, <2>1, StageStays
<1> QED
    BY <1>7, <1>8, <1>9 DEF IInv

\* What is known of an execution that asks.
LEMMA Asked ==
    ASSUME IInv, NEW p \in Posts, exec[p].pc = "asks"
    PROVE  /\ exec[p] \in Executions /\ exec[p].result = None
           /\ exec[p].at \in 1..Len(order) /\ Len(order) \in 1..2
           /\ exec[p].asked = {order[i] : i \in 1..exec[p].at}
           /\ {order[i] : i \in 1..Len(order)} = LastResort
<1>1. config \in Configs /\ order = Candidates /\ exec[p] \in Executions
    BY DEF IInv, TypeOK
<1>2. ExecutionHolds(exec[p])
    BY DEF IInv, ExecutionsHold
<1>3. exec[p].at \in 1..2
    BY <1>1 DEF Executions
<1> QED
    BY <1>1, <1>2, <1>3, OrderHolds DEF ExecutionHolds

\* The turn of the next provider, and after the last one the heuristic.
LEMMA NextProviderKeeps ==
    ASSUME IInv, NEW p \in Posts, exec[p].pc = "asks", NextProvider(p)
    PROVE  IInv'
<1>1. CASE exec[p].at < Len(order)
    <2> DEFINE x == [exec[p] EXCEPT !.at = @ + 1, !.repair = FALSE]
    <2> HIDE DEF x
    <2>1. exec[p].at = 1 /\ Len(order) = 2
        <3>1. exec[p].at \in 1..Len(order) /\ Len(order) \in 1..2
            BY Asked
        <3>2. \A a, l \in Int : l \in 1..2 /\ a \in 1..l /\ a < l => a = 1 /\ l = 2
            OBVIOUS
        <3>3. exec[p].at \in Int /\ Len(order) \in Int
            BY <3>1
        <3> QED
            BY <1>1, <3>1, <3>2, <3>3
    <2>2. /\ x \in Executions /\ x.pc = "asks" /\ x.result = None /\ x.at = 2
          /\ x.asked = exec[p].asked
        <3>1. exec[p] \in Executions /\ exec[p].result = None
            BY Asked
        <3>2. exec[p].at + 1 = 2
            BY <2>1
        <3> DEFINE y == [exec[p] EXCEPT !.at = @ + 1]
        <3>3. y \in Executions /\ y.result = None /\ y.at = 2
              /\ y.asked = exec[p].asked /\ y.pc = "asks"
            BY <3>1, <3>2 DEF Executions
        <3>4. x = [y EXCEPT !.repair = FALSE]
            BY DEF x
        <3> HIDE DEF y
        <3> QED
            BY <3>3, <3>4 DEF Executions
    <2>3. Asks(p, x)
        BY <1>1 DEF NextProvider, x
    <2>4. x.asked = {order[1]}
        BY <2>1, <2>2, Asked
    <2>5. x.asked \union {order[x.at]} = {order[i] : i \in 1..x.at}
        BY <2>2, <2>4
    <2> QED
        BY <2>1, <2>2, <2>3, <2>5, AsksKeeps
<1>2. CASE ~(exec[p].at < Len(order))
    <2>1. exec[p].at = Len(order)
        BY <1>2, Asked
    <2>2. exec[p].asked = LastResort
        BY <2>1, Asked
    <2>3. Reports(p, "heuristic")
        BY <1>2 DEF NextProvider
    <2> QED
        BY <2>2, <2>3, ReportsKeeps DEF Answered
<1> QED
    BY <1>1, <1>2

-------------------------------------------------------------------------------
(* The actions *)

\* An answer that is no JSON: its repair is asked for once, then the next route.
LEMMA AnswersUnusableKeeps ==
    ASSUME IInv, NEW p \in Posts, AnswersUnusable(p)
    PROVE  IInv'
<1>1. exec[p].pc = "asks"
    BY DEF AnswersUnusable
<1>2. CASE exec[p].repair
    <2>1. NextProvider(p)
        BY <1>2 DEF AnswersUnusable
    <2> QED
        BY <1>1, <2>1, NextProviderKeeps
<1>3. CASE ~exec[p].repair
    <2> DEFINE x == [exec[p] EXCEPT !.repair = TRUE]
    <2>1. /\ x \in Executions /\ x.pc = "asks" /\ x.result = None /\ x.at = exec[p].at
          /\ x.asked = exec[p].asked
        BY <1>1, Asked DEF Executions
    <2>2. Asks(p, x)
        BY <1>3 DEF AnswersUnusable
    <2> HIDE DEF x
    <2>3. x.at \in 1..Len(order) /\ x.asked = {order[i] : i \in 1..x.at}
        BY <1>1, <2>1, Asked
    <2>4. x.asked \union {order[x.at]} = {order[i] : i \in 1..x.at}
        BY <1>1, <2>3, Asked
    <2> QED
        BY <1>1, <2>1, <2>2, <2>3, <2>4, Asked, AsksKeeps
<1> QED
    BY <1>2, <1>3

\* An answer that can be read ends the call, or is asked for again if it is blank.
LEMMA AnswersKeeps ==
    ASSUME IInv, NEW p \in Posts, NEW content \in {"sound", "blank", "mistyped"}, Answers(p, content)
    PROVE  IInv'
<1>1. exec[p].pc = "asks"
    BY DEF Answers
<1>2. \/ Ends(p, "mistyped") /\ Of.trusts
      \/ Reports(p, "replaced")
      \/ Reports(p, "model")
      \/ Asks(p, Fresh("asks", 2, {}, None))
    BY DEF Answers
<1>3. CASE Ends(p, "mistyped") /\ Of.trusts
    <2>1. Excused("mistyped") /\ "mistyped" \in Results
        BY <1>3 DEF Excused, Results, Mishaps
    <2> QED
        BY <1>1, <1>3, <2>1, EndsKeeps
<1>4. CASE Reports(p, "replaced")
    BY <1>1, <1>4, ReportsKeeps DEF Answered
<1>5. CASE Reports(p, "model")
    BY <1>1, <1>5, ReportsKeeps DEF Answered
<1>6. CASE Asks(p, Fresh("asks", 2, {}, None))
    <2> DEFINE x == Fresh("asks", 2, {}, None)
    <2>1. x \in Executions /\ x.pc = "asks" /\ x.result = None /\ x.at = 1 /\ x.asked = {}
        BY DEF Fresh, Executions, Results, Providers
    <2>2. Asks(p, x)
        BY <1>6
    <2> HIDE DEF x
    <2>3. x.asked \union {order[x.at]} = {order[i] : i \in 1..x.at}
        BY <2>1
    <2>4. x.at <= Len(order)
        BY <1>1, <2>1, Asked
    <2> QED
        BY <1>1, <2>1, <2>2, <2>3, <2>4, AsksKeeps
<1> QED
    BY <1>2, <1>3, <1>4, <1>5, <1>6

\* An execution begins by asking, or is over with an answer or an excuse.
Begins(x) == \/ x.pc = "asks"
             \/ x.pc = "answered" /\ (x.result \in Answered \/ Excused(x.result))

\* Every beginning is one.
LEMMA BeginningsHold ==
    ASSUME config \in Configs, order = Candidates, NEW x \in Beginnings
    PROVE  x \in Executions /\ x.spent = 0 /\ ExecutionHolds(x) /\ Begins(x)
<1>1. ASSUME NEW result \in Results, x = AnsweredAtOnce(result),
             result \in Answered \/ Excused(result),
             result = "heuristic" => LastResort = {}
      PROVE  x \in Executions /\ x.spent = 0 /\ ExecutionHolds(x) /\ Begins(x)
    <2>1. x \in Executions /\ x.spent = 0 /\ x.pc = "answered" /\ x.result = result /\ x.asked = {}
        BY <1>1 DEF AnsweredAtOnce, Fresh, Executions, Providers
    <2>2. ExecutionHolds(x)
        BY <1>1, <2>1 DEF ExecutionHolds
    <2> QED
        BY <1>1, <2>1, <2>2 DEF Begins
<1>2. CASE \E r \in Of.unread : x = AnsweredAtOnce(r)
    <2>1. PICK r \in Of.unread : x = AnsweredAtOnce(r)
        BY <1>2
    <2>2. r \in Results /\ Excused(r) /\ r # "heuristic"
        BY <2>1, UnreadIs DEF Results, Mishaps, Excused
    <2> QED
        BY <1>1, <2>1, <2>2
<1>3. CASE \E r \in Reported("plain") : x = AnsweredAtOnce(r)
    <2>1. PICK r \in {"plain", "unwritten"} : x = AnsweredAtOnce(r)
        BY <1>3 DEF Reported
    <2>2. r \in Results /\ (r \in Answered \/ Excused(r)) /\ r # "heuristic"
        BY DEF Results, Answered, Mishaps, Excused
    <2> QED
        BY <1>1, <2>1, <2>2
<1>4. CASE /\ config.providers # {} /\ config.profile = None
           /\ x = Fresh("asks", 1, {order[1]}, None)
    <2>1. Len(order) \in 1..2 /\ order[1] \in Providers
        BY <1>4, OrderHolds DEF Configs
    <2>2. x \in Executions /\ x.spent = 0 /\ x.pc = "asks"
        BY <1>4, <2>1 DEF Fresh, Executions, Results, Providers
    <2>3. x.asked = {order[1]} /\ x.at = 1 /\ x.result = None
        BY <1>4 DEF Fresh
    <2>4. x.asked = {order[i] : i \in 1..x.at}
        BY <2>3
    <2>5. x.at <= Len(order)
        BY <2>1, <2>3
    <2> QED
        BY <1>4, <2>2, <2>3, <2>4, <2>5 DEF ExecutionHolds, Begins, None
<1>5. CASE config.providers = {} /\ \E r \in Reported("heuristic") : x = AnsweredAtOnce(r)
    <2>1. PICK r \in {"heuristic", "unwritten"} : x = AnsweredAtOnce(r)
        BY <1>5 DEF Reported
    <2>2. r \in Results /\ (r \in Answered \/ Excused(r))
        BY DEF Results, Answered, Mishaps, Excused
    <2>3. LastResort = {}
        BY <1>5, OrderHolds
    <2> QED
        BY <1>1, <2>1, <2>2, <2>3
<1>6. CASE config.providers = {} /\ config.profile = None /\ x = AnsweredAtOnce("unrouted")
    <2>1. "unrouted" \in Results /\ Excused("unrouted")
        BY <1>6 DEF Results, Mishaps, Excused
    <2> QED
        BY <1>1, <1>6, <2>1
<1> QED
    BY <1>2, <1>3, <1>4, <1>5, <1>6 DEF Beginnings

\* The stage posts its call to the worker, within its retries.
LEMMA PostKeeps == ASSUME IInv, Post PROVE IInv'
<1> DEFINE p == stage.posts + 1
           s == [stage EXCEPT !.call = p, !.posts = p]
<1>1. /\ config \in Configs /\ order = Candidates /\ stage \in Stages
      /\ exec \in [Posts -> Executions] /\ \A q \in Posts : exec[q].spent <= CallLimit
    BY DEF IInv, TypeOK
<1>2. CallLimit \in Nat \ {0}
    BY <1>1, CallLimitIsPositive
<1>3. stage.status = "running" /\ stage.call = 0 /\ stage.posts < RetryAttempts
    BY DEF Post, IInv, StageHolds
<1>4. p \in Posts /\ p # 0
    BY <1>1, <1>3, TimesAreNatural DEF Stages, Posts
<1>5. PICK x \in Beginnings :
        /\ exec' = [exec EXCEPT ![p] = x] /\ UNCHANGED given
        /\ stage' = IF x.pc = "answered" THEN After(s, p, x.result) ELSE s
    BY DEF Post
<1>6. /\ s \in Stages /\ s.call = p /\ s.status = "running" /\ s.posts = p
      /\ s.broken = stage.broken /\ s.elapsed = stage.elapsed
    <2>1. p \in {0} \union Posts /\ p \in 0..RetryAttempts
        BY <1>4, TimesAreNatural DEF Posts
    <2> QED
        BY <1>1, <1>3, <2>1 DEF Stages
<1> HIDE DEF p, s
<1>7. x \in Executions /\ x.spent = 0 /\ ExecutionHolds(x) /\ Begins(x)
    BY <1>1, BeginningsHold
<1>8. exec' \in [Posts -> Executions] /\ exec'[p] = x /\ \A q \in Posts \ {p} : exec'[q] = exec[q]
    BY <1>1, <1>4, <1>5, <1>7
<1>9. /\ stage' \in Stages /\ stage'.posts = p /\ stage'.broken = stage.broken
      /\ \/ x.pc = "asks" /\ stage'.status = "running" /\ stage'.call = p
         \/ /\ x.pc = "answered" /\ stage'.call = 0
            /\ \/ stage'.status = "done" /\ x.result \in Answered
               \/ stage'.status = "failed" /\ x.result \in Refusals
               \/ stage'.status = "failed" /\ p = RetryAttempts /\ x.result \notin Answered
               \/ stage'.status = "running" /\ p < RetryAttempts /\ x.result \notin Answered
    <2>1. CASE x.pc = "asks"
        BY <1>5, <1>6, <2>1
    <2>2. CASE x.pc = "answered"
        <3>1. x.result \in Results
            BY <1>7 DEF Executions
        <3>2. stage' = After(s, p, x.result)
            BY <1>5, <2>2
        <3> QED
            BY <1>4, <1>6, <2>2, <3>1, <3>2, AfterIs
    <2> QED
        BY <1>7, <2>1, <2>2 DEF Begins
<1>10. TypeOK'
    <2>1. config' \in Configs /\ order' = Candidates' /\ CallLimit' = CallLimit
        BY <1>1, <1>5, GivenStays DEF Configs
    <2>2. \A q \in Posts : exec'[q].spent <= CallLimit
        BY <1>1, <1>2, <1>7, <1>8
    <2>3. stage'.call # 0 => stage'.status = "running" /\ exec'[stage'.call].pc = "asks"
        BY <1>8, <1>9
    <2> QED
        BY <1>8, <1>9, <2>1, <2>2, <2>3 DEF TypeOK, Posts, Stages, Executions, Results
<1>11. ExecutionsHold'
    <2>1. \A q \in Posts : ExecutionHolds(exec'[q])
        BY <1>7, <1>8 DEF IInv, ExecutionsHold
    <2>2. \A q \in Posts : ExecutionHolds(exec[q])'
        BY <1>5, <2>1, GivenStays DEF ExecutionHolds
    <2> QED
        BY <2>2 DEF ExecutionsHold, Posts
<1>12. StageHolds' /\ FailureHasACause'
    <2>1. \A q \in Posts \ {p} : q <= p => q \in stage'.broken \/ Excused(exec'[q].result)
        <3>1. \A q \in Posts \ {p} : q <= p => q <= stage.posts
            BY <1>1 DEF p, Posts, Stages
        <3>2. \A q \in Posts : q # stage.call
            BY <1>3 DEF Posts
        <3>3. \A q \in Posts : q <= stage.posts => q \in stage.broken \/ Excused(exec[q].result)
            BY <1>3, <3>2 DEF IInv, StageHolds, Lost
        <3> QED
            BY <1>8, <1>9, <3>1, <3>3
    <2>2. CASE x.pc = "asks"
        <3>1. \A q \in Posts \ {p} : Excused(exec'[q].result) => Excused(exec[q].result)'
            BY <1>5, GivenStays DEF Excused
        <3>2. \A q \in Posts \ {p} : q <= p => Lost(q)'
            BY <2>1, <3>1 DEF Lost
        <3>3. stage'.status = "running" /\ stage'.call = p /\ stage'.posts = p
            BY <1>9, <2>2
        <3> HIDE DEF p
        <3>4. StageHolds'
            BY <1>4, <3>2, <3>3 DEF StageHolds, Posts
        <3> QED
            BY <3>3, <3>4 DEF FailureHasACause
    <2>3. CASE x.pc = "answered" /\ x.result \in Answered
        <3>1. x.result \notin Refusals
            BY <2>3 DEF Refusals, Answered, Mishaps
        <3> QED
            BY <1>4, <1>5, <1>9, <2>3, <3>1, PostIsOver
    <2>4. CASE x.pc = "answered" /\ x.result \notin Answered
        <3>1. Excused(x.result)
            BY <1>7, <2>4 DEF Begins
        <3>2. exec'[stage'.posts].result = x.result /\ stage'.posts \in Posts
            BY <1>4, <1>8, <1>9
        <3>3. \A q \in Posts : q <= stage'.posts => q \in stage'.broken \/ Excused(exec'[q].result)
            BY <1>8, <1>9, <2>1, <3>1
        <3> QED
            BY <1>5, <1>9, <2>4, <3>1, <3>2, <3>3, PostIsOver
    <2> QED
        BY <1>7, <2>2, <2>3, <2>4 DEF Begins
<1> QED
    BY <1>10, <1>11, <1>12 DEF IInv

\* A step that leaves the executions alone: only the stage has to be looked at.
LEMMA StageStepKeeps ==
    ASSUME IInv, UNCHANGED <<given, exec>>, stage' \in Stages, stage'.call = 0,
           StageHolds', FailureHasACause'
    PROVE  IInv'
<1>1. UNCHANGED given /\ exec' = exec
    OBVIOUS
<1>2. TypeOK'
    <2>1. config' \in Configs /\ order' = Candidates' /\ CallLimit' = CallLimit
        BY <1>1, GivenStays DEF IInv, TypeOK, Configs
    <2>2. exec' \in [Posts -> Executions] /\ \A q \in Posts : exec'[q].spent <= CallLimit
        BY <1>1 DEF IInv, TypeOK
    <2> QED
        BY <2>1, <2>2 DEF TypeOK, Posts, Stages, Executions, Results
<1>3. ExecutionsHold'
    BY <1>1, GivenStays DEF IInv, ExecutionsHold, ExecutionHolds, Posts
<1> QED
    BY <1>2, <1>3 DEF IInv

\* The connection to the worker breaks: the call is posted again, or the stage fails.
LEMMA ConnectionBreaksKeeps == ASSUME IInv, ConnectionBreaks PROVE IInv'
<1> DEFINE s == [stage EXCEPT !.broken = @ \union {stage.call}]
<1>1. stage \in Stages /\ stage.status = "running" /\ stage.call \in Posts /\ stage.posts = stage.call
    BY DEF IInv, TypeOK, StageHolds, ConnectionBreaks, Stages
<1>2. /\ s \in Stages /\ s.status = "running" /\ s.posts = stage.posts
      /\ s.broken = stage.broken \union {stage.call}
    BY <1>1 DEF Stages
<1>3. stage' = Retried(s) /\ exec' = exec /\ UNCHANGED given
    BY DEF ConnectionBreaks
<1> HIDE DEF s
<1>4. /\ stage' \in Stages /\ stage'.call = 0 /\ stage'.posts = stage.posts
      /\ stage'.broken = stage.broken \union {stage.call}
      /\ \/ stage'.status = "failed" /\ stage'.posts = RetryAttempts
         \/ stage'.status = "running" /\ stage'.posts < RetryAttempts
    BY <1>2, <1>3, RetriedIs
<1>5. \A q \in Posts : q <= stage.posts => q = stage.call \/ q \in stage.broken \/ Excused(exec[q].result)
    BY <1>1 DEF IInv, StageHolds, Lost
<1>6. \A q \in Posts : q <= stage'.posts => q \in stage'.broken \/ Excused(exec'[q].result)
    BY <1>3, <1>4, <1>5
<1>7. StageHolds' /\ FailureHasACause'
    BY <1>1, <1>3, <1>4, <1>6, PostIsOver
<1> QED
    BY <1>3, <1>4, <1>7, StageStepKeeps

\* The time of the stage is up, whichever post it waits for.
LEMMA StageTimesOutKeeps == ASSUME IInv, StageTimesOut PROVE IInv'
<1>1. stage \in Stages /\ stage.elapsed = StageTimeout
    BY DEF IInv, TypeOK, StageTimesOut
<1>2. stage' = [stage EXCEPT !.status = "failed", !.call = 0] /\ UNCHANGED <<given, exec>>
    BY DEF StageTimesOut, StageFails
<1>3. stage' \in Stages /\ stage'.call = 0 /\ stage'.status = "failed" /\ stage'.elapsed = StageTimeout
    BY <1>1, <1>2 DEF Stages
<1>4. StageHolds' /\ FailureHasACause'
    BY <1>3 DEF StageHolds, FailureHasACause
<1> QED
    BY <1>2, <1>3, <1>4, StageStepKeeps

\* Time passes.
LEMMA TickKeeps == ASSUME IInv, Tick PROVE IInv'
<1>1. /\ config \in Configs /\ order = Candidates /\ stage \in Stages
      /\ exec \in [Posts -> Executions] /\ \A q \in Posts : exec[q].spent <= CallLimit
      /\ stage.call # 0 => stage.status = "running" /\ exec[stage.call].pc = "asks"
    BY DEF IInv, TypeOK
<1>2. CallLimit \in Nat \ {0} /\ StageTimeout \in Nat
    BY <1>1, CallLimitIsPositive, TimesAreNatural
<1>3. UNCHANGED given
    BY DEF Tick
<1>4. /\ stage' \in Stages /\ stage'.status = stage.status /\ stage'.call = stage.call
      /\ stage'.posts = stage.posts /\ stage'.broken = stage.broken
      /\ stage.status # "running" => stage' = stage
    <2>1. CASE stage.status = "running"
        <3>1. stage' = [stage EXCEPT !.elapsed = @ + 1] /\ stage.elapsed < StageTimeout
            BY <2>1 DEF Tick
        <3>2. stage.elapsed + 1 \in 0..StageTimeout
            BY <1>1, <1>2, <3>1 DEF Stages
        <3> QED
            BY <1>1, <2>1, <3>1, <3>2 DEF Stages
    <2>2. CASE stage.status # "running"
        BY <1>1, <2>2 DEF Tick
    <2> QED
        BY <2>1, <2>2
<1>5. ASSUME NEW q \in Posts
      PROVE  /\ exec'[q] \in Executions /\ exec'[q].spent <= CallLimit
             /\ exec'[q].pc = exec[q].pc /\ exec'[q].at = exec[q].at
             /\ exec'[q].asked = exec[q].asked /\ exec'[q].result = exec[q].result
    <2>1. CASE q \in Busy
        <3>1. exec'[q] = [exec[q] EXCEPT !.spent = @ + 1] /\ exec[q].spent < CallLimit
            BY <2>1 DEF Tick
        <3>2. exec[q].spent + 1 \in Nat /\ exec[q].spent + 1 <= CallLimit
            BY <1>1, <1>2, <3>1 DEF Executions
        <3> QED
            BY <1>1, <3>1, <3>2 DEF Executions
    <2>2. CASE q \notin Busy
        <3>1. exec'[q] = exec[q]
            BY <2>2 DEF Tick
        <3> QED
            BY <1>1, <3>1
    <2> QED
        BY <2>1, <2>2
<1>6. exec' \in [Posts -> Executions]
    <2>1. exec' = [q \in Posts |-> IF q \in Busy THEN [exec[q] EXCEPT !.spent = @ + 1] ELSE exec[q]]
        BY DEF Tick
    <2>2. exec' = [q \in Posts |-> exec'[q]]
        BY <2>1
    <2> QED
        BY <1>5, <2>2
<1>7. TypeOK'
    <2>1. config' \in Configs /\ order' = Candidates' /\ CallLimit' = CallLimit
        BY <1>1, <1>3, GivenStays DEF Configs
    <2>2. stage'.call # 0 => stage'.status = "running" /\ exec'[stage'.call].pc = "asks"
        BY <1>1, <1>4, <1>5 DEF Stages
    <2>3. \A q \in Posts : exec'[q].spent <= CallLimit
        BY <1>5
    <2> QED
        BY <1>4, <1>6, <2>1, <2>2, <2>3 DEF TypeOK, Posts, Stages, Executions, Results
<1>8. ExecutionsHold'
    <2>1. \A q \in Posts : ExecutionHolds(exec'[q])
        BY <1>5 DEF IInv, ExecutionsHold, ExecutionHolds
    <2>2. \A q \in Posts : ExecutionHolds(exec[q])'
        BY <1>3, <2>1, GivenStays DEF ExecutionHolds
    <2> QED
        BY <2>2 DEF ExecutionsHold, Posts
<1>9. StageHolds' /\ FailureHasACause'
    BY <1>3, <1>4, <1>5, StageStays
<1> QED
    BY <1>7, <1>8, <1>9 DEF IInv

-------------------------------------------------------------------------------
(* The theorems *)

\* Every step keeps the invariant.
LEMMA StepKeeps == IInv /\ [Next]_vars => IInv'
<1> SUFFICES ASSUME IInv, [Next]_vars PROVE IInv'
    OBVIOUS
<1>1. CASE Post
    BY <1>1, PostKeeps
<1>2. CASE ConnectionBreaks
    BY <1>2, ConnectionBreaksKeeps
<1>3. CASE StageTimesOut
    BY <1>3, StageTimesOutKeeps
<1>4. ASSUME NEW p \in Posts, Execution(p)
      PROVE  IInv'
    <2>1. CASE ProviderFails(p)
        BY <2>1, NextProviderKeeps DEF ProviderFails
    <2>2. CASE CallTimesOut(p)
        BY <2>2, NextProviderKeeps DEF CallTimesOut
    <2>3. CASE AnswersUnusable(p)
        BY <2>3, AnswersUnusableKeeps
    <2>4. CASE \E content \in {"sound", "blank", "mistyped"} : Answers(p, content)
        BY <2>4, AnswersKeeps
    <2> QED
        BY <1>4, <2>1, <2>2, <2>3, <2>4 DEF Execution
<1>5. CASE Tick
    BY <1>5, TickKeeps
<1>6. CASE UNCHANGED vars
    <2>1. UNCHANGED given /\ stage' = stage /\ exec' = exec
        BY <1>6 DEF vars, given
    <2>2. config' = config /\ order' = order
        BY <2>1 DEF given
    <2>3. StageHolds' /\ FailureHasACause'
        BY <2>1, StageStays
    <2> QED
        BY <2>1, <2>2, <2>3 DEF IInv, TypeOK, ExecutionsHold, ExecutionHolds, LastResort,
            Candidates, Primary, Fallback, Route, CallLimit
<1> QED
    BY <1>1, <1>2, <1>3, <1>4, <1>5, <1>6 DEF Next

\* The invariant holds in every reachable state.
LEMMA InvariantHolds == Spec => []IInv
<1> QED
    BY InitHolds, StepKeeps, PTL DEF Spec

\* The variables have their types, no timer is overrun, and a stage waits only
\* while it runs and only for an execution that asks.
THEOREM TypesHold == Spec => []TypeOK
<1>1. IInv => TypeOK
    BY DEF IInv
<1> QED
    BY <1>1, InvariantHolds, PTL

\* The heuristic answer is given only after every configured provider was asked, or,
\* where the routing file leaves the route without a fallback, after the one the route
\* names (llm.py, the loops of complete_with_trace and complete_json_with_trace).
THEOREM HeuristicComesLast == Spec => []HeuristicIsLastResort
<1>1. IInv => HeuristicIsLastResort
    BY DEF IInv, ExecutionsHold, ExecutionHolds, LastResort, HeuristicIsLastResort
<1> QED
    BY <1>1, InvariantHolds, PTL

\* A stage fails only when its time is up, or its last post was refused for a reason
\* that is not a failed model, or each of its posts was lost to a broken connection or
\* a worker that crashed for such a reason: a checkout that cannot be read, no change
\* to review, a report that cannot be written, no provider at all; and, for the reviewer
\* and the security worker, values of other types than asked (workflow.py _run_stage).
THEOREM FailuresHaveCauses == Spec => []FailureHasACause
<1>1. IInv => FailureHasACause
    BY DEF IInv
<1> QED
    BY <1>1, InvariantHolds, PTL
===============================================================================
