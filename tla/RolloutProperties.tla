------------------------- MODULE RolloutProperties -------------------------
(***************************************************************************)
(* The properties of RolloutRuntime. The first group holds whatever the    *)
(* interleaving; the second when the operations on one execution do not    *)
(* overlap; the third is what the system does eventually; the last group   *)
(* is what the documentation says and the code does not do.                *)
(***************************************************************************)
EXTENDS RolloutRuntime

----------------------------------------------------------------------------
(* Under every interleaving *)

\* Every variable stays in its type: no write leaves a row, a result or a
\* process in a shape the Go structs do not have.
TypeOK ==
    /\ row \in Rows
    /\ results \in Seq(Results)
    /\ snapshots \in Seq(Snapshots)
    /\ mode \in {"active_control", "advisory"}
    /\ deploy \in Deployments
    /\ pc \in [Procs -> Steps]
    /\ held \in [Procs -> Rows]
    /\ task \in [Procs -> Tasks]
    /\ decided \subseteq Statuses
    /\ calls \in [Mutations -> 0..2]
    /\ activeSeen \in BOOLEAN
    /\ budget \in Nat

\* The desired status on whose behalf the provider mutation is made.
Purpose(mutation) ==
    CASE mutation \in {"submit", "resume"} -> "in_progress"
      [] mutation = "pause" -> "paused"
      [] mutation = "rollback" -> "rolled_back"

\* performProviderSync acts on copies of the row that may be stale, and stale
\* copies are written back, yet no provider mutation is ever made for a desired
\* status that no operator, worker or verification decision has put the
\* execution in.
MutationsAreDecided ==
    \A m \in Mutations : calls[m] > 0 => Purpose(m) \in decided

\* An execution that needs approval (nextExecutionState has no way from
\* awaiting_approval to in_progress) is not submitted or resumed before it was
\* approved, unless a client recorded a verification result over the API.
ApprovalGate ==
    ApprovalRequired /\ calls["submit"] + calls["resume"] > 0
        => \/ "approved" \in decided
           \/ \E i \in DOMAIN results : ~results[i].engine

\* Under an integration that was never switched to active control, no worker
\* and no request makes a provider mutation (advisoryOnlyRuntime is read with
\* the context, the call is made later).
AdvisoryHandsOff ==
    Backend # "simulated" /\ ~activeSeen => \A m \in Mutations : calls[m] = 0

\* However many whole-row writes race, the timestamps never disagree with the
\* status: a finished execution has completed_at, one in progress started_at.
TimestampsFollowStatus ==
    /\ row.status \in Finished => row.completed
    /\ row.status = "in_progress" => row.started

\* A verdict of the control loop is borne out by the snapshot it cites, whatever
\* arrived between the collection of signals, the evaluation and the recording:
\* "verified" cites a healthy snapshot without a threshold breach, "pause" a critical
\* or breaching one, a rollback anything but a good one. What a client records over
\* the API is its own business, automated or not (operations.go:1290).
VerdictsAreSupported ==
    \A i \in DOMAIN results :
        LET r == results[i]
        IN r.engine /\ r.snapshot > 0
            => /\ r.snapshot \in DOMAIN snapshots
               /\ LET s == snapshots[r.snapshot]
                      good == s.health = "healthy" /\ ~s.breach
                  IN /\ r.decision \in {"verified", "advisory_verified"} => good
                     /\ r.decision = "rollback" => ~good
                     /\ r.decision = "pause" => s.health = "critical" \/ s.breach

----------------------------------------------------------------------------
(* When operations on the execution do not overlap *)

Contract == INSTANCE RolloutContract
    WITH status <- row.status,
         verdicts <- [i \in DOMAIN results |-> results[i].decision]

\* The runtime implements the contract: reconcile passes, provider answers,
\* signal writes, crashes between two writes and retries never change the
\* status except by an action of the table or by a verdict on an execution
\* under way, recorded in the same step.
ImplementsContract == Contract!ContractSpec

\* The engine and the recording transaction together never store the same
\* verdict of the control loop on the same snapshot twice in a row.
NoRepeatedVerdict ==
    \A i \in 2..Len(results) :
        results[i].engine /\ results[i - 1].engine => results[i] # results[i - 1]

\* The verdicts by which the control loop leaves the rollout to an operator.
Leniencies ==
    {i \in DOMAIN results :
        results[i].engine /\ results[i].decision \in {"pause", "manual_review_required"}}

\* The budget of the rollback policy (engine.go:138, 0 means none): the control loop
\* pauses an execution, to be resumed or reviewed, fewer times than the budget counts
\* failures. The failure that spends it rolls back, however many resumes, signals,
\* crashes and passes without a verdict lie between the failures.
PatienceIsBounded ==
    Policy.maxFailures > 0 => Cardinality(Leniencies) < Policy.maxFailures

----------------------------------------------------------------------------
(* Eventually *)

\* Manual actions change the desired status only, and reconciliation acts on copies
\* of the row that may be stale, repeated or answered with an error. Once the
\* disturbances stop, the deployment converges to the decision all the same: it is
\* paused while the execution is paused, not paused while it is in progress, and on
\* the previous image while it is rolled back.
OperatorDecisionsConverge ==
    <>[](/\ row.status = "paused" => deploy.paused
         /\ row.status = "in_progress" => ~deploy.paused
         /\ row.status = "rolled_back" => deploy.image = "previous")

\* The execution goes on under a critical signal the control loop has not judged:
\* no verdict of its cites the newest snapshot.
Unheeded ==
    /\ row.status = "in_progress"
    /\ snapshots # <<>>
    /\ EffectiveSnapshotHealth(snapshots[Len(snapshots)]) = "critical"
    /\ \A i \in DOMAIN results : results[i].engine => results[i].snapshot # Len(snapshots)

\* Every new critical signal is judged, also one that says the same as the signal before
\* it, whose verdict an operator has overruled: an execution does not go on for ever under
\* it. What the engine has judged it leaves to the operator: an execution resumed after
\* the pause goes on under the same snapshot (engine.go:232), budget permitting.
CriticalSignalIsHeeded == Unheeded ~> ~Unheeded

----------------------------------------------------------------------------
(* What the documentation says *)

\* ADR 0015: manual actions are mutations of the desired state, and
\* reconciliation converges the backend to it. So a write of runtime state (a
\* provider answer, an error, signal columns) leaves the status alone.
RuntimeWritesKeepStatus ==
    [][\A p \in Procs :
        /\ pc[p] \in {"persist", "followup_persist", "failed", "signal_write", "ingest_write"}
        /\ pc'[p] # pc[p]
        => row'.status = row.status]_vars

\* ADR 0015 again: reconciliation converges the backend to the desired state. So an
\* execution that is started, and stays in progress, is submitted.
StartedIsSubmitted ==
    row.status = "in_progress" ~> (deploy.image = "candidate" \/ row.status # "in_progress")

=============================================================================
