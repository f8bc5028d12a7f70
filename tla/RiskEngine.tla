----------------------------- MODULE RiskEngine -----------------------------
(***************************************************************************)
(* The deterministic risk assessment of a change and the rollout plan that *)
(* is derived from it. A change, a service and an environment are records  *)
(* of the attributes the engine scores; ids, texts and guardrail lists are *)
(* left out.                                                               *)
(***************************************************************************)
EXTENDS Naturals, Sequences, FiniteSets, Functions

Touches == {"infrastructure", "iam", "secrets", "schema", "dependencies"}

ChangeShape(c) ==
    /\ c.types \in Seq(STRING) /\ c.touches \subseteq Touches
    /\ c.files \in Nat /\ c.resources \in Nat /\ c.incidents \in Nat
    /\ c.poorRollback \in BOOLEAN

ServiceShape ==
    [criticality : {"low", "medium", "high", "critical", "mission_critical"},
     customerFacing : BOOLEAN, observability : BOOLEAN, slo : BOOLEAN,
     regulated : BOOLEAN, dependents : Nat]

EnvironmentShape ==
    [production : BOOLEAN, regulated : BOOLEAN,
     kind : {"staging", "preview", "ephemeral", "other"}]

Levels == <<"low", "medium", "high", "critical">>

Rank(level) == CHOOSE i \in 1..Len(Levels) : Levels[i] = level

----------------------------------------------------------------------------
(* Score *)

KnownTypes ==
    {"code", "config", "infra", "infrastructure", "schema", "database", "iam", "secret",
     "secrets", "dependency", "dependencies"}

CriticalityPoints ==
    [low |-> 0, medium |-> 6, high |-> 12, critical |-> 18, mission_critical |-> 18]

KindPoints == [staging |-> 8, preview |-> 3, ephemeral |-> 3, other |-> 0]

AtMost(limit, n) == IF n < limit THEN n ELSE limit

When(condition, points) == IF condition THEN points ELSE 0

Regulated(service, environment) == service.regulated \/ environment.regulated

\* A type that is named twice counts twice, an unknown one not at all.
TypeScore(types) ==
    LET Named(names) == Cardinality({i \in DOMAIN types : types[i] \in names})
    IN 6 * Named({"code"}) + 8 * Named({"config", "database"})
         + 9 * Named({"dependency", "dependencies"}) + 14 * Named({"secret", "secrets"})
         + 15 * Named({"infra", "infrastructure"}) + 16 * Named({"schema"})
         + 18 * Named({"iam"})

TouchScore(touches) ==
    When("infrastructure" \in touches, 10) + When("iam" \in touches, 16)
      + When("secrets" \in touches, 14) + When("schema" \in touches, 14)
      + When("dependencies" \in touches, 7)

\* What the change brings, wherever it goes.
ChangeScore(change) ==
    TypeScore(change.types) + TouchScore(change.touches)
      + When(change.files > 0, AtMost(12, change.files \div 5 + 1))
      + AtMost(10, change.resources * 2) + AtMost(12, change.incidents * 2)
      + When(change.poorRollback, 10)

\* Slip: the sign of one factor is lost.
BlindnessRewarded(service) == When(service.observability, 9) + When(~service.slo, 7)

Blindness(service) == When(~service.observability, 9) + When(~service.slo, 7)

\* What the place it goes to brings, whatever the change.
PlaceScore(service, environment) ==
    (IF environment.production THEN 20 ELSE KindPoints[environment.kind])
      + CriticalityPoints[service.criticality] + When(service.customerFacing, 8)
      + Blindness(service) + When(Regulated(service, environment), 12)

Score(change, service, environment) ==
    5 + ChangeScore(change) + PlaceScore(service, environment)

Classify(score) ==
    CASE score >= 80 -> "critical"
      [] score >= 55 /\ score < 80 -> "high"
      [] score >= 30 /\ score < 55 -> "medium"
      [] OTHER -> "low"

----------------------------------------------------------------------------
(* Recommendations. Outside production a high risk needs less approval     *)
(* than a medium one: the engine names nobody for it.                      *)

Approvals == <<"self-serve", "policy-review", "team-lead", "platform-owner",
               "change-advisory-board">>

RecommendedApproval(level, production, regulated) ==
    CASE regulated \/ level = "critical" -> "change-advisory-board"
      [] ~regulated /\ level = "high" /\ production -> "platform-owner"
      [] ~regulated /\ level = "medium" -> "team-lead"
      [] OTHER -> "self-serve"

Strategy(level, service, environment) ==
    CASE level = "critical" \/ (level = "high" /\ ~service.customerFacing) -> "phased-rollout"
      [] level = "medium" \/ (level = "high" /\ service.customerFacing) -> "canary"
      [] level = "low" -> "direct-deploy"

Window(level, environment) ==
    CASE ~environment.production -> "team-defined"
      [] environment.production /\ level = "critical" -> "off-hours-required"
      [] environment.production /\ level = "high" -> "off-hours-preferred"
      [] OTHER -> "business-hours-allowed"

BlastScope(service, environment) ==
    CASE environment.production /\ service.customerFacing /\ service.dependents >= 2 -> "broad"
      [] ~environment.production /\ service.dependents = 0 -> "contained"
      [] OTHER -> "moderate"

Assess(change, service, environment) ==
    LET score == Score(change, service, environment)
        level == Classify(score)
    IN [score |-> score, level |-> level,
        approval |-> RecommendedApproval(level, environment.production,
                                         Regulated(service, environment)),
        strategy |-> Strategy(level, service, environment),
        window |-> Window(level, environment),
        scope |-> BlastScope(service, environment)]

----------------------------------------------------------------------------
(* The plan. reviewed: a policy decision asks for a manual review.         *)

RequiresApproval(assessment, reviewed) == assessment.approval # "self-serve" \/ reviewed

ApprovalLevel(assessment, reviewed) ==
    IF reviewed /\ assessment.approval = "self-serve" THEN "policy-review"
    ELSE assessment.approval

Severe(assessment) == assessment.level \in {"high", "critical"}

Plan(change, service, environment, assessment, reviewed) ==
    [approvalRequired |-> RequiresApproval(assessment, reviewed),
     approvalLevel |-> ApprovalLevel(assessment, reviewed),
     strategy |-> assessment.strategy,
     verifyMore |-> Severe(assessment) \/ service.regulated,
     precheck |-> Severe(assessment) \/ "schema" \in change.touches,
     businessHours |-> assessment.level = "low" /\ environment.production,
     offHours |-> assessment.window \in {"off-hours-preferred", "off-hours-required"}]
=============================================================================
