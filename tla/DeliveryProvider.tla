-------------------------- MODULE DeliveryProvider --------------------------
(***************************************************************************)
(* The orchestrator providers behind a rollout execution                   *)
(* (internal/delivery). The simulated provider computes its answer from    *)
(* the context it is given; the Kubernetes provider acts on a deployment   *)
(* that lives outside the control plane.                                   *)
(***************************************************************************)
EXTENDS Naturals, RolloutLifecycle

BackendStatuses == {"pending_submission", "queued", "submitted", "progressing",
                    "paused", "awaiting_verification", "succeeded", "failed",
                    "rollback_requested", "rolled_back"}

\* The provider calls that change the backend.
Mutations == {"submit", "pause", "resume", "rollback"}
ProviderActions == Mutations \cup {"sync"}

----------------------------------------------------------------------------
(* The simulated provider *)

\* Sync: the answer follows the desired status; `gate` says that the context
\* holds a signal snapshot.
SimulatedSync(execution, gate) ==
    CASE execution.status \in {"awaiting_approval", "planned"} -> execution.backendStatus
      [] execution.status \in {"approved", "in_progress"} ->
            IF gate THEN "awaiting_verification" ELSE "progressing"
      [] execution.status = "paused" -> "paused"
      [] execution.status \in {"verified", "completed"} -> "succeeded"
      [] execution.status = "rolled_back" -> "rolled_back"
      [] execution.status = "failed" -> "failed"

SimulatedReply(action, execution, gate) ==
    CASE action = "submit" -> "queued"
      [] action = "pause" -> "paused"
      [] action = "resume" -> "progressing"
      [] action = "rollback" -> "rolled_back"
      [] action = "sync" -> SimulatedSync(execution, gate)

----------------------------------------------------------------------------
(* The Kubernetes provider: spec.paused, the image of the pod template and *)
(* the rollout phase the deployment controller reports.                    *)

Deployments == [paused : BOOLEAN, image : {"previous", "candidate"},
                phase : {"progressing", "available", "failed"}]

\* What a request that reached the cluster does to the deployment: submit and
\* rollback replace the pod template, which starts a new rollout.
Applied(action, d) ==
    CASE action = "submit" -> [d EXCEPT !.image = "candidate", !.phase = "progressing"]
      [] action = "rollback" -> [d EXCEPT !.image = "previous", !.phase = "progressing"]
      [] action = "pause" -> [d EXCEPT !.paused = TRUE]
      [] action = "resume" -> [d EXCEPT !.paused = FALSE]
      [] action = "sync" -> d

\* NormalizeKubernetesDeploymentStatus: paused hides everything else, and no
\* answer says "rolled back".
Normalized(d) ==
    CASE d.paused -> "paused"
      [] ~d.paused /\ d.phase = "failed" -> "failed"
      [] ~d.paused /\ d.phase = "available" -> "awaiting_verification"
      [] ~d.paused /\ d.phase = "progressing" -> "progressing"

ActionBackendStatus(action) ==
    CASE action = "rollback" -> "rollback_requested"
      [] action = "pause" -> "paused"
      [] action = "submit" -> "submitted"
      [] OTHER -> "progressing"

\* An action endpoint answers with the deployment or with no status payload;
\* a status request always answers with the deployment.
KubernetesReplies(action, d) ==
    IF action = "sync" THEN {Normalized(d)}
    ELSE {Normalized(d), ActionBackendStatus(action)}

----------------------------------------------------------------------------
\* Slips in the choice of the action: submitting before the start; not rolling back
\* a deployment that failed.
NeedsSubmitEarly(execution) ==
    execution.status \in {"approved", "in_progress"} /\ ~execution.backendId
NeedsRollbackUnlessFailed(execution) ==
    /\ execution.status = "rolled_back"
    /\ execution.backendStatus \notin {"rolled_back", "rollback_requested", "failed"}

\* The action performProviderSync derives from the row of the context it read.
\* The cases are disjoint: submit wants no execution id, and only an answer
\* that carries one sets backendStatus to "paused".
NeedsSubmit(execution) == execution.status = "in_progress" /\ ~execution.backendId
NeedsPause(execution) == execution.status = "paused" /\ execution.backendStatus # "paused"
NeedsRollback(execution) ==
    /\ execution.status = "rolled_back"
    /\ execution.backendStatus \notin {"rolled_back", "rollback_requested"}
NeedsResume(execution) ==
    /\ execution.status = "in_progress" /\ execution.backendId
    /\ execution.backendStatus = "paused"

ProviderAction(execution) ==
    CASE NeedsSubmit(execution) -> "submit"
      [] NeedsPause(execution) -> "pause"
      [] NeedsRollback(execution) -> "rollback"
      [] NeedsResume(execution) -> "resume"
      [] OTHER -> "sync"

=============================================================================
