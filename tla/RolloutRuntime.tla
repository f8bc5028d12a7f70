--------------------------- MODULE RolloutRuntime ---------------------------
(***************************************************************************)
(* One rollout execution, driven by control-loop workers and API requests. *)
(*                                                                         *)
(* The row of rollout_executions is shared; nothing locks it.  Every       *)
(* operation reads the row (and the integration, results and snapshots it  *)
(* needs) in one step and, some steps later, writes back EVERY column from *)
(* the copy it holds: UpdateRolloutExecution has no WHERE clause but the   *)
(* id.  Provider and signal calls happen between the two.                  *)
(*                                                                         *)
(*   row, results, snapshots   the database                                *)
(*   mode                      whether the backend integration may act     *)
(*   deploy                    the Kubernetes deployment                   *)
(*   pc, held, task            each process: its step, the copy of the row *)
(*                             it holds, the rest of its local state       *)
(*   decided, calls, activeSeen   history variables: the statuses the row  *)
(*                             was put in by a decision, the provider      *)
(*                             mutations issued, whether the integration   *)
(*                             was ever in active control                  *)
(*   budget                    how many more requests and faults may occur *)
(***************************************************************************)
EXTENDS Integers, Sequences, FiniteSets, VerificationEngine, DeliveryProvider

CONSTANTS
    Workers,           \* control-loop processes (cmd/worker)
    Requests,          \* API handlers; each serves one request at a time
    Backend,           \* "simulated" or "kubernetes"
    SignalSource,      \* "simulated" or "prometheus"
    AutoAdvance,       \* the worker starts and completes executions
    ApprovalRequired,  \* of the plan, or a policy decision
    SignalsRequired,   \* the plan names verification signals
    Policy,            \* the effective rollback policy
    InitialModes,      \* the integration modes a run starts in
    OperatorActions,   \* the actions operators request
    Reports,           \* the verification results clients record over the API
    Signals,           \* the snapshots that may be ingested or collected
    RequestKinds,      \* what API requests do
    Serial,            \* at most one operation on the execution at a time
    MaxDisturbances,   \* bound on requests, faults and mode switches
    MaxSnapshots,      \* bound on stored snapshots
    MaxResults         \* bound on stored verification results

ASSUME RuntimeAssumption ==
    /\ Workers \cap Requests = {}
    /\ Backend \in {"simulated", "kubernetes"}
    /\ SignalSource \in {"simulated", "prometheus"}
    /\ AutoAdvance \in BOOLEAN /\ ApprovalRequired \in BOOLEAN
    /\ SignalsRequired \in BOOLEAN /\ Serial \in BOOLEAN
    /\ Policy \in [onProviderFailure : BOOLEAN, onCritical : BOOLEAN, maxFailures : Nat]
    /\ InitialModes \subseteq {"active_control", "advisory"}
    /\ OperatorActions \subseteq Actions
    /\ Reports \subseteq {r \in Results : ~r.engine}
    /\ Signals \subseteq Snapshots
    /\ RequestKinds \subseteq {"advance", "verify", "ingest", "reconcile", "mode"}
    /\ MaxDisturbances \in Nat /\ MaxSnapshots \in Nat /\ MaxResults \in Nat

VARIABLES row, results, snapshots, mode, deploy, pc, held, task,
          decided, calls, activeSeen, budget

database == <<row, results, snapshots>>
history == <<decided, calls, activeSeen>>
vars == <<row, results, snapshots, mode, deploy, pc, held, task,
          decided, calls, activeSeen, budget>>

Procs == Workers \cup Requests

Rows == [status : Statuses, started : BOOLEAN, completed : BOOLEAN,
         backendId : BOOLEAN, backendStatus : BackendStatuses, lastResult : Nat]

Steps == {"idle", "claim", "advance", "advance_write", "read", "call", "persist",
          "failed", "observe", "collect", "signal_write", "ingest", "ingest_write", "evaluate", "record",
          "record_write", "followup_read", "followup_call", "followup_persist"}

\* What a process holds besides the row: the action it is about to take or has
\* taken, whether its context was advisory and had a snapshot, the provider's
\* last answer and the verification request it is about to record.
Tasks == [action : Actions \cup ProviderActions \cup {"none"},
          advisory : BOOLEAN, gate : BOOLEAN, reply : BackendStatuses,
          proposal : Results \cup {NoProposal}]

\* CreateRolloutExecution
InitialRow ==
    [status |-> InitialExecutionStatus(ApprovalRequired), started |-> FALSE,
     completed |-> FALSE, backendId |-> FALSE,
     backendStatus |-> "pending_submission", lastResult |-> 0]

NoTask == [action |-> "none", advisory |-> FALSE, gate |-> FALSE,
           reply |-> "pending_submission", proposal |-> NoProposal]

\* advisoryOnlyRuntime and executionAdvisoryModeState
AdvisoryOnly(integrationMode) == Backend # "simulated" /\ integrationMode = "advisory"

Init ==
    /\ row = InitialRow
    /\ results = <<>>
    /\ snapshots = <<>>
    /\ mode \in InitialModes
    /\ deploy = [paused |-> FALSE, image |-> "previous", phase |-> "available"]
    /\ pc = [p \in Procs |-> "idle"]
    /\ held = [p \in Procs |-> InitialRow]
    /\ task = [p \in Procs |-> NoTask]
    /\ decided = {InitialRow.status}
    /\ calls = [a \in Mutations |-> 0]
    /\ activeSeen = (mode = "active_control")
    /\ budget = MaxDisturbances

----------------------------------------------------------------------------
(* Steps common to all processes *)

Disturb == budget > 0 /\ budget' = budget - 1

\* An idle process may begin an operation; one at a time when Serial.
MayBegin(p) ==
    /\ pc[p] = "idle"
    /\ Serial => \A q \in Procs \ {p} : pc[q] = "idle"

\* p moves to step s and its row copy and task become r and t.
Goto(p, s, r, t) ==
    /\ pc' = [pc EXCEPT ![p] = s]
    /\ held' = [held EXCEPT ![p] = r]
    /\ task' = [task EXCEPT ![p] = t]

\* p's operation returns.
Return(p) == Goto(p, "idle", InitialRow, NoTask)

\* The whole-row write of UpdateRolloutExecution.
WriteRow(r) == row' = r

\* A decided status: the write is remembered in decided.
WriteDecision(r) ==
    /\ row' = r
    /\ decided' = decided \cup {r.status}

----------------------------------------------------------------------------
(* The worker's tick: RunOnce lists the executions, claims each one, takes *)
(* at most one automatic action and reconciles.                            *)

NextAction(status) ==
    CASE AutoAdvance /\ status \in {"planned", "approved"} -> "start"
      [] AutoAdvance /\ status = "verified" -> "complete"
      [] OTHER -> "none"

List(w) ==
    /\ MayBegin(w)
    /\ Goto(w, "claim", row, NoTask)
    /\ UNCHANGED <<database, mode, deploy, history, budget>>

\* The claim stamps last_reconciled_at with the worker's clock and fails when
\* the stored stamp is not older: workers that read their clock before w did
\* and have not claimed yet lose, and skip the execution. Nobody else does. The
\* automatic action is chosen from the LISTED status.
Claim(w) ==
    /\ pc[w] = "claim"
    /\ \E losers \in SUBSET {v \in Workers \ {w} : pc[v] = "claim"} :
        LET action == NextAction(held[w].status)
        IN /\ pc' = [p \in Procs |->
                IF p = w THEN IF action = "none" THEN "read" ELSE "advance"
                ELSE IF p \in losers THEN "idle" ELSE pc[p]]
           /\ held' = [p \in Procs |-> IF p \in losers \cup {w} THEN InitialRow ELSE held[p]]
           /\ task' = [task EXCEPT ![w] = [NoTask EXCEPT !.action = action]]
    /\ UNCHANGED <<database, mode, deploy, history, budget>>

----------------------------------------------------------------------------
(* AdvanceRolloutExecution, by the worker or an operator *)

\* The transition is legal from the status just read, and advisory mode does
\* not forbid it.
Admitted(status, action) ==
    /\ \E next \in Statuses : <<status, action, next>> \in Transition
    /\ ~(AdvisoryOnly(mode) /\ action \in OverrideActions)

AdvanceRead(p, action) ==
    /\ Admitted(row.status, action)
    /\ Goto(p, "advance_write", row, [NoTask EXCEPT !.action = action])
    /\ UNCHANGED <<database, mode, deploy, history>>

WorkerAdvance(w) ==
    /\ pc[w] = "advance"
    /\ \/ AdvanceRead(w, task[w].action)
       \/ /\ ~Admitted(row.status, task[w].action)
          /\ Return(w)
          /\ UNCHANGED <<database, mode, deploy, history>>
    /\ UNCHANGED budget

AdvanceWrite(p) ==
    /\ pc[p] = "advance_write"
    /\ \E next \in Statuses :
        /\ <<held[p].status, task[p].action, next>> \in Transition
        /\ WriteDecision(AdvanceExecution(held[p], next))
    /\ IF p \in Workers THEN Goto(p, "read", InitialRow, NoTask) ELSE Return(p)
    /\ UNCHANGED <<results, snapshots, mode, deploy, calls, activeSeen, budget>>

----------------------------------------------------------------------------
(* ReconcileRolloutExecution: provider call, signal collection,            *)
(* verification, follow-up call                                            *)

\* GetRolloutExecutionRuntimeContext, as far as the provider needs it.
ReadContext(p, from, to) ==
    /\ pc[p] = from
    /\ Goto(p, to, row, [task[p] EXCEPT !.action = "none",
                                        !.advisory = AdvisoryOnly(mode),
                                        !.gate = snapshots # <<>>])
    /\ UNCHANGED <<database, mode, deploy, history, budget>>

\* Slip: the advisory mode is not looked at.
ChosenCallUngoverned(execution, advisory) == ProviderAction(execution)

\* The provider call that is really made: advisory mode turns every mutation
\* into a status request.
ChosenCall(execution, advisory) ==
    IF advisory THEN "sync" ELSE ProviderAction(execution)

\* Up to two calls of each kind are counted.
Counted(action) ==
    calls' = IF action = "sync" THEN calls
             ELSE [calls EXCEPT ![action] = IF @ < 2 THEN @ + 1 ELSE 2]

\* The answers the provider may give to a call made with process p's context,
\* and the deployment after it.
AnswersTo(p, action) ==
    IF Backend = "simulated" THEN {SimulatedReply(action, held[p], task[p].gate)}
    ELSE KubernetesReplies(action, Applied(action, deploy))

DeploymentAfter(action) ==
    IF Backend = "simulated" THEN deploy ELSE Applied(action, deploy)

\* The follow-up answer is written only if it acted or tells something new.
WorthWriting(p, action, reply) ==
    pc[p] = "call" \/ action # "sync" \/ reply # held[p].backendStatus

\* performProviderSync, in the first round or after a verification decision.
CallProvider(p) ==
    /\ pc[p] \in {"call", "followup_call"}
    /\ LET action == ChosenCall(held[p], task[p].advisory)
       IN /\ Counted(action)
          /\ deploy' = DeploymentAfter(action)
          /\ \E reply \in AnswersTo(p, action) :
                IF WorthWriting(p, action, reply)
                THEN Goto(p, IF pc[p] = "call" THEN "persist" ELSE "followup_persist",
                          held[p], [task[p] EXCEPT !.action = action, !.reply = reply])
                ELSE Return(p)
    /\ UNCHANGED <<database, mode, decided, activeSeen, budget>>

\* The request fails, having reached the cluster or not.
ProviderFails(p) ==
    /\ Backend = "kubernetes"
    /\ pc[p] \in {"call", "followup_call"}
    /\ Disturb
    /\ LET action == ChosenCall(held[p], task[p].advisory)
       IN \/ Counted(action) /\ deploy' = DeploymentAfter(action)
          \/ UNCHANGED <<calls, deploy>>
    /\ Goto(p, "failed", held[p], task[p])
    /\ UNCHANGED <<database, mode, decided, activeSeen>>

\* persistRuntimeFailure: the error is noted on the copy read before the call,
\* and the copy is written.
PersistFailure(p) ==
    /\ pc[p] = "failed"
    /\ WriteRow(held[p])
    /\ Return(p)
    /\ UNCHANGED <<results, snapshots, mode, deploy, history, budget>>

\* persistProviderResult on the copy: every answer carries an execution id.
WithReply(execution, reply) ==
    [execution EXCEPT !.backendId = TRUE, !.backendStatus = reply]

Persist(p) ==
    /\ pc[p] = "persist"
    /\ WriteRow(WithReply(held[p], task[p].reply))
    /\ Goto(p, "observe", InitialRow, task[p])
    /\ UNCHANGED <<results, snapshots, mode, deploy, history, budget>>

FollowupPersist(p) ==
    /\ pc[p] = "followup_persist"
    /\ WriteRow(WithReply(held[p], task[p].reply))
    /\ Return(p)
    /\ UNCHANGED <<results, snapshots, mode, deploy, history, budget>>

\* The verification request made from a proposal by process p.
Proposed(proposal) ==
    IF AdvisoryOnly(mode) THEN AdvisoryVerificationRequest(proposal) ELSE proposal

\* Read the context once more and evaluate it together with the answer of the
\* FIRST provider call. With the simulated signal source the collection before
\* it stores nothing, so the context is the one read before the collection.
EvaluateContext(p) ==
    /\ pc[p] = IF SignalSource = "simulated" THEN "observe" ELSE "evaluate"
    /\ LET proposal == Evaluate(row.status, task[p].reply, snapshots, results,
                                Policy, SignalsRequired)
       IN IF proposal = NoProposal
          THEN Return(p)
          ELSE Goto(p, "record", InitialRow,
                    [NoTask EXCEPT !.proposal = Proposed(proposal)])
    /\ UNCHANGED <<database, mode, deploy, history, budget>>

\* Prometheus: read the context, then query, then store a snapshot and write
\* the copy of the row with the new signal columns.
ObserveSignals(p) ==
    /\ SignalSource = "prometheus"
    /\ pc[p] = "observe"
    /\ Goto(p, "collect", row, task[p])
    /\ UNCHANGED <<database, mode, deploy, history, budget>>

StoreSnapshot(s) ==
    /\ Len(snapshots) < MaxSnapshots
    /\ snapshots' = Append(snapshots, s)

Collect(p) ==
    /\ pc[p] = "collect"
    /\ \E s \in Signals : StoreSnapshot(s)
    /\ Goto(p, "signal_write", held[p], task[p])
    /\ UNCHANGED <<row, results, mode, deploy, history, budget>>

CollectFails(p) ==
    /\ pc[p] = "collect"
    /\ Disturb
    /\ Goto(p, "failed", held[p], task[p])
    /\ UNCHANGED <<database, mode, deploy, history>>

SignalWrite(p) ==
    /\ pc[p] = "signal_write"
    /\ WriteRow(held[p])
    /\ Goto(p, "evaluate", InitialRow, task[p])
    /\ UNCHANGED <<results, snapshots, mode, deploy, history, budget>>

----------------------------------------------------------------------------
(* recordVerificationResultInternal: a READ COMMITTED transaction whose    *)
(* reads take no lock; its insert and its whole-row write commit together. *)

RecordRead(p) ==
    /\ pc[p] = "record"
    /\ LET proposal == Proposed(task[p].proposal)
       IN IF ShouldSkip(row.status, results, proposal)
          THEN Return(p)
          ELSE Goto(p, "record_write", row, [task[p] EXCEPT !.proposal = proposal])
    /\ UNCHANGED <<database, mode, deploy, history, budget>>

RecordWrite(p) ==
    /\ pc[p] = "record_write"
    /\ Len(results) < MaxResults
    /\ results' = Append(results, task[p].proposal)
    /\ WriteDecision(ApplyVerificationDecision(held[p], task[p].proposal.decision,
                                               Len(results) + 1))
    /\ IF task[p].proposal.engine
       THEN Goto(p, "followup_read", InitialRow, NoTask)
       ELSE Return(p)
    /\ UNCHANGED <<snapshots, mode, deploy, calls, activeSeen, budget>>

----------------------------------------------------------------------------
(* API requests *)

RequestAdvance(r) ==
    /\ "advance" \in RequestKinds
    /\ MayBegin(r)
    /\ Disturb
    /\ \E action \in OperatorActions : AdvanceRead(r, action)

\* RecordVerificationResult: the client chooses the decision, the text, whether the
\* result calls itself automated and the snapshot it cites, which need not exist.
RequestVerification(r) ==
    /\ "verify" \in RequestKinds
    /\ MayBegin(r)
    /\ Disturb
    /\ \E report \in Reports :
        Goto(r, "record", InitialRow, [NoTask EXCEPT !.proposal = report])
    /\ UNCHANGED <<database, mode, deploy, history>>

RequestReconcile(r) ==
    /\ "reconcile" \in RequestKinds
    /\ MayBegin(r)
    /\ Disturb
    /\ Goto(r, "read", InitialRow, NoTask)
    /\ UNCHANGED <<database, mode, deploy, history>>

\* CreateSignalSnapshot: read the row, store the snapshot, write the copy.
RequestIngest(r) ==
    /\ "ingest" \in RequestKinds
    /\ MayBegin(r)
    /\ Disturb
    /\ Goto(r, "ingest", row, NoTask)
    /\ UNCHANGED <<database, mode, deploy, history>>

Ingest(r) ==
    /\ pc[r] = "ingest"
    /\ \E s \in Signals : StoreSnapshot(s)
    /\ Goto(r, "ingest_write", held[r], NoTask)
    /\ UNCHANGED <<row, results, mode, deploy, history, budget>>

IngestWrite(r) ==
    /\ pc[r] = "ingest_write"
    /\ WriteRow(held[r])
    /\ Return(r)
    /\ UNCHANGED <<results, snapshots, mode, deploy, history, budget>>

\* UpdateIntegration switches the backend integration's control mode.
SwitchMode ==
    /\ "mode" \in RequestKinds
    /\ Disturb
    /\ mode' = IF mode = "advisory" THEN "active_control" ELSE "advisory"
    /\ activeSeen' = (activeSeen \/ mode' = "active_control")
    /\ UNCHANGED <<database, deploy, pc, held, task, decided, calls>>

----------------------------------------------------------------------------
(* Faults and the outside world *)

\* A bound is reached: the insert that would exceed it fails.
AtBound(p) ==
    \/ pc[p] \in {"collect", "ingest"} /\ Len(snapshots) >= MaxSnapshots
    \/ pc[p] = "record_write" /\ Len(results) >= MaxResults

\* A process dies, or a statement of its fails and the operation returns the
\* error: what it has written stays, what it holds is gone.
Abort(p) ==
    /\ pc[p] # "idle"
    /\ IF AtBound(p) THEN UNCHANGED budget ELSE Disturb
    /\ Return(p)
    /\ UNCHANGED <<database, mode, deploy, history>>

\* The deployment controller of the cluster; a paused deployment stands still.
DeploymentSettles ==
    /\ deploy.phase = "progressing" /\ ~deploy.paused
    /\ deploy' = [deploy EXCEPT !.phase = "available"]
    /\ UNCHANGED <<database, mode, pc, held, task, history, budget>>

DeploymentBreaks ==
    /\ deploy.phase = "progressing" /\ ~deploy.paused
    /\ deploy' = [deploy EXCEPT !.phase = "failed"]
    /\ Disturb
    /\ UNCHANGED <<database, mode, pc, held, task, history>>

----------------------------------------------------------------------------
Tick(w) == List(w) \/ Claim(w) \/ WorkerAdvance(w)

Reconcile(p) ==
    \/ ReadContext(p, "read", "call")
    \/ CallProvider(p)
    \/ PersistFailure(p)
    \/ Persist(p)
    \/ ObserveSignals(p)
    \/ Collect(p)
    \/ SignalWrite(p)
    \/ EvaluateContext(p)
    \/ RecordRead(p)
    \/ RecordWrite(p)
    \/ ReadContext(p, "followup_read", "followup_call")
    \/ FollowupPersist(p)

\* The steps an API handler takes once it has begun.
Serve(r) == AdvanceWrite(r) \/ Reconcile(r) \/ Ingest(r) \/ IngestWrite(r)

Begin(r) ==
    \/ RequestAdvance(r)
    \/ RequestVerification(r)
    \/ RequestReconcile(r)
    \/ RequestIngest(r)

Fault(p) == ProviderFails(p) \/ CollectFails(p) \/ Abort(p)

Next ==
    \/ \E w \in Workers : Tick(w) \/ AdvanceWrite(w) \/ Reconcile(w)
    \/ \E r \in Requests : Begin(r) \/ Serve(r)
    \/ \E p \in Procs : Fault(p)
    \/ SwitchMode
    \/ DeploymentSettles
    \/ DeploymentBreaks

Spec == Init /\ [][Next]_vars

\* The ticker calls RunOnce for ever (cmd/worker) and a tick goes on to its end;
\* a request that was accepted is served to its end. Users, faults and mode
\* switches are not fair.
FairSpec ==
    /\ Spec
    /\ \A w \in Workers :
        WF_vars(Tick(w) \/ AdvanceWrite(w) \/ Reconcile(w) \/ (AtBound(w) /\ Abort(w)))
    /\ \A r \in Requests : WF_vars(Serve(r) \/ (AtBound(r) /\ Abort(r)))
    /\ WF_vars(DeploymentSettles)
=============================================================================
