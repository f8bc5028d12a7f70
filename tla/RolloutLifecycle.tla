-------------------------- MODULE RolloutLifecycle --------------------------
(***************************************************************************)
(* The pure part of the rollout execution lifecycle                        *)
(* (internal/rollouts/lifecycle.go): the statuses, the transition table,   *)
(* and what an advance or a verification decision does to the columns of a *)
(* rollout_executions row that the control plane decides upon.             *)
(*                                                                         *)
(* A row is abstracted to the columns that some guard or property reads:   *)
(* a timestamp column is the Boolean "it is set", the backend execution id *)
(* is the Boolean "it is non-empty", and lastResult is the index of the    *)
(* verification result the row points to (0 when it points to none).       *)
(***************************************************************************)
EXTENDS Naturals

Statuses == {"planned", "awaiting_approval", "approved", "in_progress",
             "paused", "verified", "failed", "completed", "rolled_back"}

\* The statuses whose entry stamps completed_at.
Finished == {"completed", "rolled_back", "failed"}

\* The statuses in which the verification engine has an opinion.
Verifiable == {"in_progress", "paused", "verified"}

Actions == {"approve", "start", "pause", "resume", "continue", "verify",
            "fail", "rollback", "complete"}

\* The actions that AdvanceRolloutExecution refuses under an advisory backend.
OverrideActions == {"pause", "resume", "continue", "rollback"}

Transition ==
    { <<"planned", "start", "in_progress">>,
      <<"planned", "pause", "paused">>,
      <<"awaiting_approval", "approve", "approved">>,
      <<"awaiting_approval", "rollback", "rolled_back">>,
      <<"approved", "start", "in_progress">>,
      <<"approved", "pause", "paused">>,
      <<"in_progress", "pause", "paused">>,
      <<"in_progress", "verify", "verified">>,
      <<"in_progress", "fail", "failed">>,
      <<"in_progress", "rollback", "rolled_back">>,
      <<"in_progress", "complete", "completed">>,
      <<"paused", "continue", "in_progress">>,
      <<"paused", "resume", "in_progress">>,
      <<"paused", "rollback", "rolled_back">>,
      <<"paused", "fail", "failed">>,
      <<"verified", "continue", "in_progress">>,
      <<"verified", "complete", "completed">>,
      <<"verified", "rollback", "rolled_back">>,
      <<"verified", "pause", "paused">>,
      <<"failed", "rollback", "rolled_back">> }

\* Slip: the approval requirement of the plan is not looked at.
InitialExecutionStatusUngated(approvalRequired) == "planned"

InitialExecutionStatus(approvalRequired) ==
    IF approvalRequired THEN "awaiting_approval" ELSE "planned"

\* Slip: started_at is stamped by "start" only, not by resuming from a pause
\* that came first.
AdvanceExecutionStampedByStart(execution, next) ==
    [execution EXCEPT !.status = next,
                      !.started = @ \/ (next = "in_progress" /\ execution.status # "paused"),
                      !.completed = @ \/ next \in Finished]

\* The row after moving to `next`: started_at is stamped on the way into
\* in_progress, completed_at on the way into a finished status, and neither
\* is ever cleared.
AdvanceExecution(execution, next) ==
    [execution EXCEPT !.status = next,
                      !.started = @ \/ next = "in_progress",
                      !.completed = @ \/ next \in Finished]

Decisions == {"verified", "pause", "manual_review_required", "rollback", "failed"}
AdvisoryDecisions == {"advisory_verified", "advisory_pause", "advisory_rollback",
                      "advisory_failed"}

\* Slip: an advisory decision becomes the status.
DecidedStatusVerbatim(current, decision) ==
    CASE decision \in {"pause", "manual_review_required"} -> "paused"
      [] decision = "rollback" -> "rolled_back"
      [] OTHER -> decision

\* "verified" stands for the two spellings "continue" and "verified".
DecidedStatus(current, decision) ==
    CASE decision = "verified" -> "verified"
      [] decision \in {"pause", "manual_review_required"} -> "paused"
      [] decision = "rollback" -> "rolled_back"
      [] decision = "failed" -> "failed"
      [] OTHER -> current

\* Slip: a rollback is recorded and the status left alone.
ApplyVerificationDecisionEvidenceOnly(execution, decision, resultId) ==
    [execution EXCEPT !.lastResult = resultId,
                      !.status = IF decision = "rollback" THEN @ ELSE DecidedStatus(@, decision)]

\* A decision sets the status whatever the current one is; an advisory
\* decision leaves it. resultId is the index of the recorded result.
ApplyVerificationDecision(execution, decision, resultId) ==
    [execution EXCEPT !.lastResult = resultId,
                      !.status = DecidedStatus(@, decision),
                      !.completed = @ \/ decision \in {"rollback", "failed"}]

=============================================================================
