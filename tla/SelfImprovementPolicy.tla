------------------------- MODULE SelfImprovementPolicy -------------------------
(***************************************************************************)
(* What self-improvement decides without a human: the goal an analysis     *)
(* comes to, its risk, and the governance policy, one explicit decision    *)
(* for a mode and a risk.  The rules are the inline defaults, which the    *)
(* policy file of the repository repeats.  A goal is the set of risky      *)
(* topics that its text touches, with TinyFix when it reads like one of    *)
(* the deterministic fixes (README smiley, README block, stage timeout).   *)
(***************************************************************************)
EXTENDS Naturals

CONSTANT Goals   \* goals the model may answer an analysis with

Modes == {"manual", "assisted", "automatic"}
Risks == {"low", "medium", "high", "critical"}
Risky == {"high", "critical"}

RiskyPatterns == << <<"self_improvement", "critical">>, <<"auth", "high">>, <<"secrets", "high">>,
                    <<"deployment", "high">>, <<"database", "high">>, <<"container", "medium">>,
                    <<"security", "high">> >>
TinyFix == "tiny_fix"
Topics == {RiskyPatterns[i][1] : i \in DOMAIN RiskyPatterns} \cup {TinyFix}

ASSUME GoalsAssumption == Goals \subseteq SUBSET Topics

\* The first pattern that matches decides.
ClassifyRisk(goal) ==
    LET matches == {i \in DOMAIN RiskyPatterns : RiskyPatterns[i][1] \in goal}
        first == CHOOSE i \in matches : \A j \in matches : i <= j
    IN IF matches = {} THEN "low" ELSE RiskyPatterns[first][2]

\* A goal always comes out: what the model answered, the canonical goal of a timeout
\* (a tiny fix), or a generic one when the model is of no help; the last two touch no
\* risky topic.
AnalyzeProblems == Goals \cup {{TinyFix}, {}}

\* Operators write `auto` for automatic; anything unknown is manual.
NormalizeMode(raw) ==
    IF raw = "auto" THEN "automatic" ELSE IF raw \in Modes THEN raw ELSE "manual"

Action(mode, risk) ==
    IF mode = "manual" \/ risk = "critical" THEN "analyze_only"
    ELSE CASE risk = "low"    -> "execute_autonomously"
           [] risk = "medium" -> "execute_and_notify"
           [] risk = "high"   -> "prepare_and_await_approval"

Rule(mode, risk) ==
    [ action |-> Action(mode, risk),
      email |-> CASE risk \in Risky -> "approval"
                  [] mode # "manual" /\ risk = "low" -> "none"
                  [] OTHER -> "info",
      deploy |-> mode = "automatic" /\ risk \in {"low", "medium"},
      publishApproval |-> Action(mode, risk) = "prepare_and_await_approval" ]

\* decide: whether a task may be created, and what it may do without a human.
Decide(raw, risk, deployAfterSuccess) ==
    LET rule == Rule(NormalizeMode(raw), risk)
    IN [ executes |-> rule.action # "analyze_only",
         awaits |-> rule.action = "analyze_only" /\ rule.email = "approval",
         deploy |-> rule.deploy /\ deployAfterSuccess,
         publishApproval |-> rule.publishApproval ]
================================================================================
