---------------------------- MODULE MCGovernance ----------------------------
(* The policies, changes and facts the run of GovernanceProperties uses. *)
EXTENDS GovernanceProperties, TLC

Interchangeable == Permutations(Actors)

Policy(stage, mode, when) ==
    [stage |-> stage, mode |-> mode, enabled |-> TRUE, elsewhere |-> FALSE,
     scope |-> {}, when |-> when]

\* A review of risky production plans, a freeze of blind services, a review of every execution
\* and a freeze of configuration changes in bundles.
Rows ==
    {Policy("rollout_plan", "require_manual_review",
            [Unconditional EXCEPT !.production = TRUE, !.minRisk = "high"]),
     Policy("risk_assessment", "block", [Unconditional EXCEPT !.missing = {"slo"}]),
     Policy("rollout_execution", "require_manual_review", Unconditional),
     Policy("release_bundle", "block", [Unconditional EXCEPT !.types = {"config"}])}

Small == [types |-> <<"code">>, files |-> 1, resources |-> 0, touches |-> {},
          incidents |-> 0, poorRollback |-> FALSE]
Large == [Small EXCEPT !.types = <<"config", "schema">>, !.touches = {"schema"}]

TheFacts == [c \in Changes |-> Large]

Watched == [criticality |-> "low", customerFacing |-> FALSE, observability |-> TRUE,
            slo |-> TRUE, regulated |-> FALSE, dependents |-> 0]
Blind == [Watched EXCEPT !.observability = FALSE, !.slo = FALSE]

TheServices == {Watched, Blind}

Live == [production |-> TRUE, regulated |-> FALSE, kind |-> "other"]
Staging == [production |-> FALSE, regulated |-> FALSE, kind |-> "staging"]

TheEnvironments == {Live, Staging}

TheBundles == (SUBSET Changes) \ {{}}
=============================================================================
