------------------------- MODULE VerificationEngine -------------------------
(***************************************************************************)
(* The deterministic verification engine (internal/verification/engine.go) *)
(* and the two deduplication rules around it, as pure operators.           *)
(*                                                                         *)
(* A result or a proposal is [decision, reason, snapshot, automated,       *)
(* engine]: `reason` stands for the decision source and the summary text   *)
(* (the engine has one text per branch, and the outcome is a function of   *)
(* it), `snapshot` for the linked snapshot id, the position of the         *)
(* snapshot in the list or 0. `automated` is what the request says of      *)
(* itself, and an API client may say it too; `engine` is no column but     *)
(* tells who records: a reconcile pass, or a client over the API.          *)
(***************************************************************************)
EXTENDS Naturals, Sequences, FiniteSets, RolloutLifecycle

Healths == {"healthy", "warning", "critical", "unknown"}

\* A stored signal snapshot: the health it reports, and whether one of its
\* signal values breaches a threshold of the rollback policy.
Snapshots == [health : Healths, breach : BOOLEAN]

Reasons == {"provider_failure", "provider_failed", "no_signals_required", "passed",
            "budget_exceeded", "manual_review", "critical_rollback",
            "critical_pause", "manual"}

Results == [decision : Decisions \cup AdvisoryDecisions, reason : Reasons,
            snapshot : Nat, automated : BOOLEAN, engine : BOOLEAN]

\* The evaluation that records nothing.
NoProposal == [decision |-> "none", reason |-> "manual", snapshot |-> 0,
               automated |-> FALSE, engine |-> FALSE]

Automated(decision, reason, snapshot) ==
    [decision |-> decision, reason |-> reason, snapshot |-> snapshot,
     automated |-> TRUE, engine |-> TRUE]

EffectiveSnapshotHealth(s) ==
    IF s.breach /\ s.health \in {"healthy", "warning"} THEN "critical" ELSE s.health

VerificationFailureCount(results) ==
    Cardinality({i \in DOMAIN results :
        results[i].decision \in {"pause", "rollback", "failed", "manual_review_required"}})

\* Slip: the failure being decided upon is not counted.
BudgetSpentLate(policy, results) ==
    /\ policy.maxFailures > 0
    /\ VerificationFailureCount(results) >= policy.maxFailures

BudgetSpent(policy, results) ==
    /\ policy.maxFailures > 0
    /\ VerificationFailureCount(results) + 1 >= policy.maxFailures

\* The opinion on the latest snapshot, number n.
SnapshotProposal(s, n, results, policy) ==
    LET health == EffectiveSnapshotHealth(s)
        spent  == BudgetSpent(policy, results)
    IN CASE health = "healthy" -> Automated("verified", "passed", n)
         [] health = "warning" /\ spent -> Automated("rollback", "budget_exceeded", n)
         [] health = "warning" /\ ~spent ->
                Automated("manual_review_required", "manual_review", n)
         [] health = "critical" /\ (policy.onCritical \/ spent) ->
                Automated("rollback", "critical_rollback", n)
         [] health = "critical" /\ ~(policy.onCritical \/ spent) ->
                Automated("pause", "critical_pause", n)
         [] OTHER -> NoProposal

\* Slip: the first of the listed snapshots is taken for the newest.
OpinionOfTheFirst(status, backendStatus, snapshots, results, policy, signalsRequired) ==
    IF status \in Verifiable /\ backendStatus \in {"awaiting_verification", "succeeded"}
         /\ snapshots # <<>>
    THEN SnapshotProposal(snapshots[1], Len(snapshots), results, policy)
    ELSE NoProposal

\* The engine's opinion before deduplication. backendStatus is the status in
\* the provider's answer, not the one stored on the row.
Opinion(status, backendStatus, snapshots, results, policy, signalsRequired) ==
    CASE status \notin Verifiable -> NoProposal
      [] status \in Verifiable /\ backendStatus = "failed" ->
            IF policy.onProviderFailure
            THEN Automated("rollback", "provider_failure", 0)
            ELSE Automated("failed", "provider_failed", 0)
      [] status \in Verifiable /\ backendStatus \in {"awaiting_verification", "succeeded"} ->
            IF snapshots # <<>>
            THEN SnapshotProposal(snapshots[Len(snapshots)], Len(snapshots), results, policy)
            ELSE IF signalsRequired THEN NoProposal
                 ELSE Automated("verified", "no_signals_required", 0)
      [] OTHER -> NoProposal

SameWords(a, b) == a.decision = b.decision /\ a.reason = b.reason

\* Slips: no deduplication; the snapshot link is not compared.
DuplicateDecisionNever(results, proposal) == FALSE
DuplicateDecisionByWords(results, proposal) ==
    LET latest == results[Len(results)]
    IN results # <<>> /\ latest.automated /\ SameWords(latest, proposal)

\* The latest result is automated and says the same of the same snapshot.
DuplicateDecision(results, proposal) ==
    LET latest == results[Len(results)]
    IN /\ results # <<>> /\ latest.automated
       /\ SameWords(latest, proposal) /\ latest.snapshot = proposal.snapshot

Evaluate(status, backendStatus, snapshots, results, policy, signalsRequired) ==
    LET opinion == Opinion(status, backendStatus, snapshots, results, policy, signalsRequired)
    IN IF DuplicateDecision(results, opinion) THEN NoProposal ELSE opinion

\* The advisory form of a request; an advisory decision is left alone.
AdvisoryDecision(decision) ==
    CASE decision \in AdvisoryDecisions -> decision
      [] decision = "rollback" -> "advisory_rollback"
      [] decision \in {"pause", "manual_review_required"} -> "advisory_pause"
      [] decision = "failed" -> "advisory_failed"
      [] OTHER -> "advisory_verified"

AdvisoryVerificationRequest(proposal) ==
    [proposal EXCEPT !.decision = AdvisoryDecision(@)]

\* The row already shows the decision.
ExecutionReflects(status, decision) ==
    decision \in Decisions /\ status = DecidedStatus("planned", decision)

\* The second deduplication, inside the recording transaction: it ignores the
\* snapshot link but wants the row to show the decision.
ShouldSkip(status, results, proposal) ==
    /\ proposal.automated
    /\ results # <<>>
    /\ ExecutionReflects(status, proposal.decision)
    /\ LET latest == results[Len(results)]
       IN latest.automated /\ SameWords(latest, proposal)

=============================================================================
