-------------------------- MODULE PolicyEvaluation --------------------------
(***************************************************************************)
(* How one policy judges one subject at one stage of the delivery flow.    *)
(* A policy is a record; its conditions are sets, empty where it has none. *)
(* Names, codes, reasons and the order in which policies are listed are    *)
(* left out: every matching policy yields a decision, whatever its place.  *)
(***************************************************************************)
EXTENDS RiskEngine

Stages == {"risk_assessment", "rollout_plan", "rollout_execution", "release_bundle",
           "config_set", "database_governance", "change_window"}

Modes == {"advisory", "block", "require_manual_review"}

Conditions ==
    [production : BOOLEAN, regulated : BOOLEAN,
     minRisk : {"none"} \cup Range(Levels),
     types : SUBSET KnownTypes,
     touches : SUBSET {"infrastructure", "secrets", "schema", "dependencies",
                       "poor_rollback_history"},
     missing : SUBSET {"observability", "slo"}]

Unconditional ==
    [production |-> FALSE, regulated |-> FALSE, minRisk |-> "none",
     types |-> {}, touches |-> {}, missing |-> {}]

\* scope is the set of services the policy is limited to, empty for all of them;
\* a policy scoped to another project or environment is elsewhere.
PolicyShape(services) ==
    [stage : Stages, mode : Modes, enabled : BOOLEAN, elsewhere : BOOLEAN,
     scope : SUBSET services, when : Conditions]

InScope(policy, service) ==
    ~policy.elsewhere /\ (policy.scope = {} \/ service \in policy.scope)

MatchedTouches(required, change) ==
    {t \in required : IF t = "poor_rollback_history" THEN change.poorRollback
                                                     ELSE t \in change.touches}

MissingCapabilities(required, service) ==
    {c \in required : IF c = "slo" THEN ~service.slo ELSE ~service.observability}

\* A list of alternatives holds when one of them does.
ConditionsHold(when, change, service, environment, level) ==
    /\ when.production => environment.production
    /\ when.regulated => Regulated(service, environment)
    /\ when.minRisk # "none" => Rank(level) >= Rank(when.minRisk)
    /\ when.types # {} => when.types \cap Range(change.types) # {}
    /\ when.touches # {} => MatchedTouches(when.touches, change) # {}
    /\ when.missing # {} => MissingCapabilities(when.missing, service) # {}

EvaluatePolicy(policy, stage, change, service, environment, level) ==
    /\ policy.enabled
    /\ policy.stage = stage
    /\ ConditionsHold(policy.when, change, service, environment, level)

Outcome(decisions, mode) == \E d \in decisions : d.mode = mode

IsBlocked(decisions) == Outcome(decisions, "block")

IsReviewRequired(decisions) == Outcome(decisions, "require_manual_review")
=============================================================================
