------------------------ MODULE RolloutRuntimeProofs ------------------------
(***************************************************************************)
(* Theorems about RolloutRuntime, for any number of workers and requests,  *)
(* any policy, any bounds. Those of the last four sections are about       *)
(* operations on the execution that do not overlap, and say so.            *)
(*                                                                         *)
(* TypeOK is not inductive (a verification request that is about to be     *)
(* recorded must be a real one), so LocalOK adds that; the invariants that *)
(* follow rest on TypeInv.                                                 *)
(***************************************************************************)
EXTENDS RolloutProperties, FiniteSetTheorems, TLAPS

----------------------------------------------------------------------------
(* Types of the pure operators *)

LEMMA InitialTypes == InitialRow \in Rows /\ NoTask \in Tasks
BY DEF InitialRow, Rows, InitialExecutionStatus, Statuses, BackendStatuses,
       NoTask, Tasks, NoProposal

LEMMA AdvanceType ==
    ASSUME NEW r \in Rows, NEW next \in Statuses
    PROVE AdvanceExecution(r, next) \in Rows
BY DEF AdvanceExecution, Rows, Finished

LEMMA DecidedType ==
    ASSUME NEW current \in Statuses, NEW decision
    PROVE DecidedStatus(current, decision) \in Statuses
BY DEF DecidedStatus, Statuses

LEMMA DecisionType ==
    ASSUME NEW r \in Rows, NEW decision, NEW n \in Nat
    PROVE ApplyVerificationDecision(r, decision, n) \in Rows
<1>1. DecidedStatus(r.status, decision) \in Statuses
    BY DecidedType DEF Rows
<1> QED BY <1>1 DEF ApplyVerificationDecision, Rows

LEMMA ReplyType ==
    ASSUME NEW r \in Rows, NEW reply \in BackendStatuses
    PROVE WithReply(r, reply) \in Rows
BY DEF WithReply, Rows

LEMMA ChosenCallType ==
    ASSUME NEW r, NEW advisory
    PROVE ChosenCall(r, advisory) \in ProviderActions
BY DEF ChosenCall, ProviderAction, ProviderActions, Mutations

LEMMA AppliedType ==
    ASSUME NEW action \in ProviderActions, NEW d \in Deployments
    PROVE Applied(action, d) \in Deployments
BY DEF Applied, ProviderActions, Mutations, Deployments

LEMMA AnswersType ==
    ASSUME NEW action \in ProviderActions, deploy \in Deployments, NEW p \in Procs,
           held \in [Procs -> Rows]
    PROVE AnswersTo(p, action) \subseteq BackendStatuses
<1>1. SimulatedReply(action, held[p], task[p].gate) \in BackendStatuses
    BY DEF SimulatedReply, SimulatedSync, ProviderActions, Mutations, BackendStatuses,
           Rows, Statuses
<1>2. KubernetesReplies(action, Applied(action, deploy)) \subseteq BackendStatuses
    <2>1. Applied(action, deploy) \in Deployments BY AppliedType
    <2>2. Normalized(Applied(action, deploy)) \in BackendStatuses
        BY <2>1 DEF Normalized, Deployments, BackendStatuses
    <2>3. ActionBackendStatus(action) \in BackendStatuses
        BY DEF ActionBackendStatus, BackendStatuses
    <2> QED BY <2>2, <2>3 DEF KubernetesReplies
<1> QED BY <1>1, <1>2 DEF AnswersTo

LEMMA EvaluateType ==
    ASSUME NEW status, NEW reply, snapshots \in Seq(Snapshots), results \in Seq(Results)
    PROVE Evaluate(status, reply, snapshots, results, Policy, SignalsRequired)
            \in Results \cup {NoProposal}
<1> DEFINE opinion == Opinion(status, reply, snapshots, results, Policy, SignalsRequired)
<1>1. ASSUME NEW s, NEW n \in Nat
      PROVE SnapshotProposal(s, n, results, Policy) \in Results \cup {NoProposal}
    BY <1>1 DEF SnapshotProposal, Automated, Results, Decisions, Reasons
<1>2. Len(snapshots) \in Nat
    OBVIOUS
<1>3. opinion \in Results \cup {NoProposal}
    BY <1>1, <1>2 DEF Opinion, Automated, Results, Decisions, Reasons
<1> QED BY <1>3 DEF Evaluate

\* Turning a request into its advisory form keeps it a request, made by the
\* same actor.
LEMMA ProposedType ==
    ASSUME NEW proposal \in Results
    PROVE /\ Proposed(proposal) \in Results
          /\ Proposed(proposal).engine = proposal.engine
<1>1. AdvisoryDecision(proposal.decision) \in Decisions \cup AdvisoryDecisions
    BY DEF AdvisoryDecision, AdvisoryDecisions
<1> QED BY <1>1 DEF Proposed, AdvisoryVerificationRequest, Results

LEMMA NoProposalIsNoResult == NoProposal \notin Results
BY DEF NoProposal, Results, Decisions, AdvisoryDecisions

----------------------------------------------------------------------------
(* Type correctness *)

LocalOK ==
    /\ pc \in [Procs -> Steps]
    /\ held \in [Procs -> Rows]
    /\ task \in [Procs -> Tasks]
    /\ \A p \in Procs : pc[p] \in {"record", "record_write"} => task[p].proposal \in Results

SharedOK ==
    /\ row \in Rows
    /\ results \in Seq(Results)
    /\ snapshots \in Seq(Snapshots)
    /\ mode \in {"active_control", "advisory"}
    /\ deploy \in Deployments
    /\ decided \subseteq Statuses
    /\ calls \in [Mutations -> 0..2]
    /\ activeSeen \in BOOLEAN
    /\ budget \in Nat

TypeInv == SharedOK /\ LocalOK

LEMMA GotoLocal ==
    ASSUME LocalOK, NEW p, NEW s \in Steps, NEW r \in Rows, NEW t \in Tasks, Goto(p, s, r, t),
           s \in {"record", "record_write"} => t.proposal \in Results
    PROVE LocalOK'
BY DEF LocalOK, Goto

LEMMA ReturnLocal ==
    ASSUME LocalOK, NEW p, Return(p)
    PROVE LocalOK'
BY InitialTypes, GotoLocal DEF Return, Steps

LEMMA InitTypes == Init => TypeInv
<1> SUFFICES ASSUME Init PROVE TypeInv
    OBVIOUS
<1>1. SharedOK
    BY InitialTypes, RuntimeAssumption
    DEF Init, SharedOK, Deployments, Rows
<1>2. LocalOK
    BY InitialTypes DEF Init, LocalOK, Steps
<1> QED BY <1>1, <1>2 DEF TypeInv

LEMMA TickTypes ==
    ASSUME TypeInv, NEW w \in Workers, Tick(w)
    PROVE TypeInv'
<1> USE DEF TypeInv, SharedOK, database, history
<1>0. w \in Procs
    BY DEF Procs
<1>1. CASE List(w)
    <2>1. LocalOK' BY <1>1, InitialTypes, GotoLocal DEF List, Steps
    <2> QED BY <1>1, <2>1 DEF List
<1>2. CASE Claim(w)
    <2>1. ASSUME NEW status PROVE NextAction(status) \in Actions \cup {"none"}
        BY DEF NextAction, Actions
    <2>2. [NoTask EXCEPT !.action = NextAction(held[w].status)] \in Tasks
        BY <2>1, InitialTypes DEF Tasks
    <2>3. pc' \in [Procs -> Steps]
        BY <1>2 DEF Claim, LocalOK, Steps
    <2>4. held' \in [Procs -> Rows]
        BY <1>2, InitialTypes DEF Claim, LocalOK
    <2>5. task' \in [Procs -> Tasks]
        BY <1>2, <2>2 DEF Claim, LocalOK
    <2>6. ASSUME NEW p \in Procs, pc'[p] \in {"record", "record_write"}
          PROVE task'[p].proposal \in Results
        BY <1>2, <2>6 DEF Claim, LocalOK
    <2> QED BY <1>2, <2>3, <2>4, <2>5, <2>6 DEF Claim, LocalOK
<1>3. CASE WorkerAdvance(w)
    <2>1. task[w].action \in Actions \cup ProviderActions \cup {"none"}
        BY <1>0 DEF LocalOK, Tasks
    <2>2. [NoTask EXCEPT !.action = task[w].action] \in Tasks
        BY <2>1, InitialTypes DEF Tasks
    <2>3. LocalOK'
        BY <1>3, <2>2, GotoLocal, ReturnLocal DEF WorkerAdvance, AdvanceRead, Steps
    <2> QED BY <1>3, <2>3 DEF WorkerAdvance, AdvanceRead
<1> QED BY <1>1, <1>2, <1>3 DEF Tick

LEMMA AdvanceTypes ==
    ASSUME TypeInv, NEW p \in Procs, AdvanceWrite(p)
    PROVE TypeInv'
<1> USE DEF TypeInv, SharedOK, database, history
<1>1. PICK next \in Statuses : WriteDecision(AdvanceExecution(held[p], next))
    BY DEF AdvanceWrite
<1>2. AdvanceExecution(held[p], next) \in Rows
    BY AdvanceType DEF LocalOK
<1>3. row' \in Rows /\ decided' \subseteq Statuses
    BY <1>1, <1>2 DEF WriteDecision, Rows
<1>4. LocalOK'
    BY InitialTypes, GotoLocal, ReturnLocal DEF AdvanceWrite, Steps
<1> QED BY <1>3, <1>4 DEF AdvanceWrite

\* The provider call and what is written of its answer.
LEMMA ProviderTypes ==
    ASSUME TypeInv, NEW p \in Procs,
           CallProvider(p) \/ ProviderFails(p) \/ PersistFailure(p) \/ Persist(p)
               \/ FollowupPersist(p)
    PROVE TypeInv'
<1> USE DEF TypeInv, SharedOK, database, history
<1>1. held[p] \in Rows /\ task[p] \in Tasks
    BY DEF LocalOK
<1> DEFINE action == ChosenCall(held[p], task[p].advisory)
<1>2. action \in ProviderActions
    BY ChosenCallType
<1>3. ASSUME Counted(action) PROVE calls' \in [Mutations -> 0..2]
    <2> HIDE DEF action
    <2> QED BY <1>2, <1>3 DEF Counted, ProviderActions
<1>4. DeploymentAfter(action) \in Deployments
    BY <1>2, AppliedType DEF DeploymentAfter
<1>5. CASE CallProvider(p)
    <2>1. PICK reply \in AnswersTo(p, action) :
            IF WorthWriting(p, action, reply)
            THEN Goto(p, IF pc[p] = "call" THEN "persist" ELSE "followup_persist",
                      held[p], [task[p] EXCEPT !.action = action, !.reply = reply])
            ELSE Return(p)
        BY <1>5 DEF CallProvider
    <2>2. reply \in BackendStatuses
        BY <1>2, <2>1, AnswersType DEF LocalOK
    <2>3. [task[p] EXCEPT !.action = action, !.reply = reply] \in Tasks
        <3> HIDE DEF action
        <3> QED BY <1>1, <1>2, <2>2 DEF Tasks
    <2>4. (IF pc[p] = "call" THEN "persist" ELSE "followup_persist")
            \in Steps \ {"record", "record_write"}
        BY DEF Steps
    <2>5. LocalOK'
        <3> HIDE DEF action
        <3>1. CASE WorthWriting(p, action, reply)
            BY <1>1, <2>1, <2>3, <2>4, <3>1, GotoLocal
        <3>2. CASE ~WorthWriting(p, action, reply)
            BY <2>1, <3>2, ReturnLocal
        <3> QED BY <3>1, <3>2
    <2> QED BY <1>3, <1>4, <1>5, <2>5 DEF CallProvider
<1>6. CASE ProviderFails(p)
    <2>1. LocalOK'
        BY <1>1, <1>6, GotoLocal DEF ProviderFails, Steps
    <2> QED BY <1>3, <1>4, <1>6, <2>1 DEF ProviderFails, Disturb
<1>7. CASE PersistFailure(p)
    <2>1. LocalOK' BY <1>7, ReturnLocal DEF PersistFailure
    <2> QED BY <1>1, <1>7, <2>1 DEF PersistFailure, WriteRow
<1>8. CASE Persist(p) \/ FollowupPersist(p)
    <2>1. WithReply(held[p], task[p].reply) \in Rows
        BY <1>1, ReplyType DEF Tasks
    <2>2. LocalOK'
        BY <1>1, <1>8, InitialTypes, GotoLocal, ReturnLocal
        DEF Persist, FollowupPersist, Steps
    <2> QED BY <1>8, <2>1, <2>2 DEF Persist, FollowupPersist, WriteRow
<1> QED BY <1>5, <1>6, <1>7, <1>8

\* Reading the context, collecting signals, evaluating.
LEMMA ObserveTypes ==
    ASSUME TypeInv, NEW p \in Procs,
           \/ ReadContext(p, "read", "call")
           \/ ReadContext(p, "followup_read", "followup_call")
           \/ ObserveSignals(p) \/ Collect(p) \/ CollectFails(p) \/ SignalWrite(p)
           \/ EvaluateContext(p)
    PROVE TypeInv'
<1> USE DEF TypeInv, SharedOK, database, history
<1>1. held[p] \in Rows /\ task[p] \in Tasks
    BY DEF LocalOK
<1>2. ASSUME \E s \in Signals : StoreSnapshot(s)
      PROVE snapshots' \in Seq(Snapshots)
    BY <1>2, RuntimeAssumption DEF StoreSnapshot
<1>3. CASE ReadContext(p, "read", "call") \/ ReadContext(p, "followup_read", "followup_call")
    <2>1. [task[p] EXCEPT !.action = "none", !.advisory = AdvisoryOnly(mode),
                          !.gate = snapshots # <<>>] \in Tasks
        BY <1>1 DEF Tasks, AdvisoryOnly
    <2>2. LocalOK'
        BY <1>3, <2>1, GotoLocal DEF ReadContext, Steps
    <2> QED BY <1>3, <2>2 DEF ReadContext
<1>4. CASE ObserveSignals(p)
    <2>1. LocalOK' BY <1>1, <1>4, GotoLocal DEF ObserveSignals, Steps
    <2> QED BY <1>4, <2>1 DEF ObserveSignals
<1>5. CASE Collect(p)
    <2>1. LocalOK' BY <1>1, <1>5, GotoLocal DEF Collect, Steps
    <2> QED BY <1>2, <1>5, <2>1 DEF Collect
<1>6. CASE CollectFails(p)
    <2>1. LocalOK' BY <1>1, <1>6, GotoLocal DEF CollectFails, Steps
    <2> QED BY <1>6, <2>1 DEF CollectFails, Disturb
<1>7. CASE SignalWrite(p)
    <2>1. LocalOK' BY <1>1, <1>7, InitialTypes, GotoLocal DEF SignalWrite, Steps
    <2> QED BY <1>1, <1>7, <2>1 DEF SignalWrite, WriteRow
<1>8. CASE EvaluateContext(p)
    <2> DEFINE proposal == Evaluate(row.status, task[p].reply, snapshots, results,
                                    Policy, SignalsRequired)
    <2>1. proposal \in Results \cup {NoProposal}
        BY EvaluateType
    <2> HIDE DEF proposal
    <2>2. CASE proposal = NoProposal
        <3>1. LocalOK'
            BY <1>8, <2>2, ReturnLocal DEF EvaluateContext, proposal
        <3> QED BY <1>8, <3>1 DEF EvaluateContext
    <2>3. CASE proposal # NoProposal
        <3>1. Proposed(proposal) \in Results
            BY <2>1, <2>3, ProposedType
        <3>2. [NoTask EXCEPT !.proposal = Proposed(proposal)] \in Tasks
            BY <3>1, InitialTypes DEF Tasks
        <3>3. [NoTask EXCEPT !.proposal = Proposed(proposal)].proposal = Proposed(proposal)
            BY DEF NoTask
        <3>4. Goto(p, "record", InitialRow, [NoTask EXCEPT !.proposal = Proposed(proposal)])
            BY <1>8, <2>3 DEF EvaluateContext, proposal
        <3>5. LocalOK'
            BY <3>1, <3>2, <3>3, <3>4, InitialTypes, GotoLocal DEF Steps
        <3> QED BY <1>8, <3>5 DEF EvaluateContext
    <2> QED BY <2>2, <2>3
<1> QED BY <1>3, <1>4, <1>5, <1>6, <1>7, <1>8

\* The recording transaction.
LEMMA RecordTypes ==
    ASSUME TypeInv, NEW p \in Procs, RecordRead(p) \/ RecordWrite(p)
    PROVE TypeInv'
<1> USE DEF TypeInv, SharedOK, database, history
<1>1. held[p] \in Rows /\ task[p] \in Tasks
    BY DEF LocalOK
<1>2. task[p].proposal \in Results
    BY DEF LocalOK, RecordRead, RecordWrite
<1>3. CASE RecordRead(p)
    <2> DEFINE proposal == Proposed(task[p].proposal)
    <2>1. proposal \in Results
        BY <1>2, ProposedType
    <2> HIDE DEF proposal
    <2>2. CASE ShouldSkip(row.status, results, proposal)
        <3>1. LocalOK' BY <1>3, <2>2, ReturnLocal DEF RecordRead, proposal
        <3> QED BY <1>3, <3>1 DEF RecordRead
    <2>3. CASE ~ShouldSkip(row.status, results, proposal)
        <3>1. Goto(p, "record_write", row, [task[p] EXCEPT !.proposal = proposal])
            BY <1>3, <2>3 DEF RecordRead, proposal
        <3>2. /\ [task[p] EXCEPT !.proposal = proposal] \in Tasks
              /\ [task[p] EXCEPT !.proposal = proposal].proposal \in Results
            BY <1>1, <2>1 DEF Tasks
        <3>3. LocalOK' BY <3>1, <3>2, GotoLocal DEF Steps
        <3> QED BY <1>3, <3>3 DEF RecordRead
    <2> QED BY <2>2, <2>3
<1>4. CASE RecordWrite(p)
    <2>1. results' \in Seq(Results)
        BY <1>2, <1>4 DEF RecordWrite
    <2> DEFINE decidedRow == ApplyVerificationDecision(held[p], task[p].proposal.decision,
                                                       Len(results) + 1)
    <2>2. decidedRow \in Rows
        BY <1>1, DecisionType
    <2>3. row' = decidedRow /\ decided' = decided \cup {decidedRow.status}
        BY <1>4 DEF RecordWrite, WriteDecision
    <2> HIDE DEF decidedRow
    <2>4. row' \in Rows /\ decided' \subseteq Statuses
        BY <2>2, <2>3 DEF Rows
    <2>5. LocalOK'
        BY <1>4, InitialTypes, GotoLocal, ReturnLocal DEF RecordWrite, Steps
    <2> QED BY <1>4, <2>1, <2>4, <2>5 DEF RecordWrite
<1> QED BY <1>3, <1>4

LEMMA ReconcileTypes ==
    ASSUME TypeInv, NEW p \in Procs, Reconcile(p)
    PROVE TypeInv'
BY ProviderTypes, ObserveTypes, RecordTypes DEF Reconcile

LEMMA RequestTypes ==
    ASSUME TypeInv, NEW r \in Requests, Begin(r) \/ Ingest(r) \/ IngestWrite(r)
    PROVE TypeInv'
<1> USE DEF TypeInv, SharedOK, database, history, Disturb
<1>0. r \in Procs /\ held[r] \in Rows
    BY DEF Procs, LocalOK
<1>1. CASE RequestAdvance(r)
    <2>1. PICK action \in OperatorActions : AdvanceRead(r, action)
        BY <1>1 DEF RequestAdvance
    <2>2. [NoTask EXCEPT !.action = action] \in Tasks
        BY InitialTypes, RuntimeAssumption DEF Tasks
    <2>3. LocalOK'
        BY <2>1, <2>2, GotoLocal DEF AdvanceRead, Steps
    <2> QED BY <1>1, <2>1, <2>3 DEF RequestAdvance, AdvanceRead
<1>2. CASE RequestVerification(r)
    <2>1. PICK report \in Reports :
            Goto(r, "record", InitialRow, [NoTask EXCEPT !.proposal = report])
        BY <1>2 DEF RequestVerification
    <2>2. report \in Results
        BY RuntimeAssumption
    <2>3. /\ [NoTask EXCEPT !.proposal = report] \in Tasks
          /\ [NoTask EXCEPT !.proposal = report].proposal \in Results
        BY <2>2, InitialTypes DEF Tasks
    <2>4. LocalOK'
        BY <2>1, <2>3, InitialTypes, GotoLocal DEF Steps
    <2> QED BY <1>2, <2>4 DEF RequestVerification
<1>3. CASE RequestReconcile(r)
    <2>1. LocalOK' BY <1>3, InitialTypes, GotoLocal DEF RequestReconcile, Steps
    <2> QED BY <1>3, <2>1 DEF RequestReconcile
<1>4. CASE RequestIngest(r)
    <2>1. LocalOK' BY <1>4, InitialTypes, GotoLocal DEF RequestIngest, Steps
    <2> QED BY <1>4, <2>1 DEF RequestIngest
<1>5. CASE Ingest(r)
    <2>1. snapshots' \in Seq(Snapshots)
        BY <1>5, RuntimeAssumption DEF Ingest, StoreSnapshot
    <2>2. LocalOK' BY <1>0, <1>5, InitialTypes, GotoLocal DEF Ingest, Steps
    <2> QED BY <1>5, <2>1, <2>2 DEF Ingest
<1>6. CASE IngestWrite(r)
    <2>1. LocalOK' BY <1>6, ReturnLocal DEF IngestWrite
    <2> QED BY <1>0, <1>6, <2>1 DEF IngestWrite, WriteRow
<1> QED BY <1>1, <1>2, <1>3, <1>4, <1>5, <1>6 DEF Begin

\* Crashes, mode switches and the cluster touch neither the database nor the
\* types of anything else.
LEMMA EnvironmentTypes ==
    ASSUME TypeInv,
           \/ \E p \in Procs : Abort(p)
           \/ SwitchMode \/ DeploymentSettles \/ DeploymentBreaks
    PROVE TypeInv'
<1> USE DEF TypeInv, SharedOK, database, history, Disturb
<1>1. ASSUME NEW p \in Procs, Abort(p) PROVE TypeInv'
    <2>1. LocalOK' BY <1>1, ReturnLocal DEF Abort
    <2> QED BY <1>1, <2>1 DEF Abort
<1>2. CASE SwitchMode
    BY <1>2 DEF SwitchMode, LocalOK
<1>3. CASE DeploymentSettles \/ DeploymentBreaks
    BY <1>3 DEF DeploymentSettles, DeploymentBreaks, LocalOK, Deployments
<1> QED BY <1>1, <1>2, <1>3

LEMMA NextTypes == TypeInv /\ [Next]_vars => TypeInv'
<1> SUFFICES ASSUME TypeInv, [Next]_vars PROVE TypeInv'
    OBVIOUS
<1>1. ASSUME NEW w \in Workers, Tick(w) \/ AdvanceWrite(w) \/ Reconcile(w) PROVE TypeInv'
    BY <1>1, TickTypes, AdvanceTypes, ReconcileTypes DEF Procs
<1>2. ASSUME NEW r \in Requests, Begin(r) \/ Serve(r) PROVE TypeInv'
    BY <1>2, RequestTypes, AdvanceTypes, ReconcileTypes DEF Procs, Serve
<1>3. ASSUME NEW p \in Procs, Fault(p) PROVE TypeInv'
    BY <1>3, ProviderTypes, ObserveTypes, EnvironmentTypes DEF Fault
<1>4. CASE SwitchMode \/ DeploymentSettles \/ DeploymentBreaks
    BY <1>4, EnvironmentTypes
<1>5. CASE UNCHANGED vars
    BY <1>5 DEF vars, TypeInv, SharedOK, LocalOK
<1> QED BY <1>1, <1>2, <1>3, <1>4, <1>5 DEF Next

LEMMA TypeInvariance == Spec => []TypeInv
BY InitTypes, NextTypes, PTL DEF Spec

\* Type correctness: no interleaving of reads, whole-row writes, provider
\* answers and crashes leaves a variable outside its type.
THEOREM TypeCorrect == Spec => []TypeOK
<1>1. TypeInv => TypeOK
    BY DEF TypeInv, SharedOK, LocalOK, TypeOK
<1> QED BY <1>1, TypeInvariance, PTL

----------------------------------------------------------------------------
(* What a step does to the row, the copies of it and the provider calls.   *)
(* The invariants below follow from these three lemmas.                    *)

\* A copy is kept, dropped or taken afresh from the row.
CopiesStep == \A q \in Procs : held'[q] \in {held[q], row, InitialRow}

\* The steps at which a process holds a copy it may write back.
Holding == {"claim", "advance_write", "call", "persist", "failed", "collect", "signal_write",
            "ingest", "ingest_write", "record_write", "followup_call", "followup_persist"}

\* The row is kept, or overwritten from a copy: as it is, with a provider
\* answer, with an action of the table, or with the verdict being recorded. A
\* decision is remembered and nothing else is.
RowStep ==
    \/ /\ \/ row' = row
          \/ \E p \in Procs : pc[p] \in Holding /\ row' = held[p]
          \/ \E p \in Procs, reply \in BackendStatuses :
                pc[p] \in Holding /\ row' = WithReply(held[p], reply)
       /\ decided' = decided
       /\ results' = results
    \/ \E p \in Procs, action \in Actions, next \in Statuses :
       /\ pc[p] \in Holding
       /\ <<held[p].status, action, next>> \in Transition
       /\ row' = AdvanceExecution(held[p], next)
       /\ decided' = decided \cup {row'.status}
       /\ results' = results
    \/ \E p \in Procs :
       /\ pc[p] = "record_write"
       /\ results' = Append(results, task[p].proposal)
       /\ row' = ApplyVerificationDecision(held[p], task[p].proposal.decision, Len(results) + 1)
       /\ decided' = decided \cup {row'.status}

\* A mutation is counted for a process at its provider call.
CallsStep ==
    \A m \in Mutations :
        calls'[m] = calls[m] \/ \E p \in Procs :
            /\ pc[p] \in {"call", "followup_call"}
            /\ ChosenCall(held[p], task[p].advisory) = m

DataStep == CopiesStep /\ RowStep /\ CallsStep

\* A step that writes no row and makes no call.
LEMMA QuietStep ==
    ASSUME TypeInv, UNCHANGED <<row, results, decided, calls>>, CopiesStep
    PROVE DataStep
BY DEF DataStep, RowStep, CallsStep

\* The copies when a process moves.
LEMMA GotoCopies ==
    ASSUME TypeInv, NEW p, NEW s, NEW r \in {held[p], row, InitialRow}, NEW t, Goto(p, s, r, t)
    PROVE CopiesStep
BY DEF CopiesStep, Goto, TypeInv, LocalOK

LEMMA ReturnCopies ==
    ASSUME TypeInv, NEW p, Return(p)
    PROVE CopiesStep
BY GotoCopies DEF Return

LEMMA WorkerData ==
    ASSUME TypeInv, NEW w \in Workers, Tick(w)
    PROVE DataStep
<1> USE DEF database, history
<1>1. CASE List(w)
    BY <1>1, GotoCopies, QuietStep DEF List
<1>2. CASE Claim(w)
    <2>1. CopiesStep BY <1>2 DEF Claim, CopiesStep
    <2> QED BY <1>2, <2>1, QuietStep DEF Claim
<1>3. CASE WorkerAdvance(w)
    BY <1>3, GotoCopies, ReturnCopies, QuietStep DEF WorkerAdvance, AdvanceRead
<1> QED BY <1>1, <1>2, <1>3 DEF Tick

LEMMA AdvanceData ==
    ASSUME TypeInv, NEW p \in Procs, AdvanceWrite(p)
    PROVE DataStep
<1>1. PICK next \in Statuses :
        /\ <<held[p].status, task[p].action, next>> \in Transition
        /\ WriteDecision(AdvanceExecution(held[p], next))
    BY DEF AdvanceWrite
<1>2. task[p].action \in Actions
    BY <1>1 DEF Transition, Actions
<1>3. RowStep
    BY <1>1, <1>2 DEF RowStep, WriteDecision, AdvanceWrite, Holding
<1>4. CopiesStep
    BY GotoCopies, ReturnCopies DEF AdvanceWrite
<1>5. CallsStep
    BY DEF CallsStep, AdvanceWrite
<1> QED BY <1>3, <1>4, <1>5 DEF DataStep

LEMMA ProviderData ==
    ASSUME TypeInv, NEW p \in Procs, CallProvider(p) \/ ProviderFails(p)
    PROVE DataStep
<1> DEFINE action == ChosenCall(held[p], task[p].advisory)
<1>1. UNCHANGED <<row, results, decided>> /\ pc[p] \in {"call", "followup_call"}
    BY DEF CallProvider, ProviderFails, database
<1>2. Counted(action) \/ UNCHANGED calls
    BY DEF CallProvider, ProviderFails
<1>3. CallsStep
    <2> HIDE DEF action
    <2>1. calls \in [Mutations -> 0..2]
        BY DEF TypeInv, SharedOK
    <2>2. ASSUME NEW m \in Mutations, calls'[m] # calls[m] PROVE action = m
        BY <1>2, <2>1, <2>2 DEF Counted
    <2> QED BY <1>1, <2>2 DEF CallsStep, action
<1>4. CopiesStep
    <2>1. CASE CallProvider(p)
        BY <2>1, GotoCopies, ReturnCopies DEF CallProvider
    <2>2. CASE ProviderFails(p)
        BY <2>2, GotoCopies DEF ProviderFails
    <2> QED BY <2>1, <2>2
<1> QED BY <1>1, <1>3, <1>4 DEF DataStep, RowStep

LEMMA WriteData ==
    ASSUME TypeInv, NEW p \in Procs,
           PersistFailure(p) \/ Persist(p) \/ FollowupPersist(p) \/ SignalWrite(p) \/ RecordWrite(p)
    PROVE DataStep
<1> USE DEF history
<1>0. task[p].reply \in BackendStatuses
    BY DEF TypeInv, LocalOK, Tasks
<1>1. CallsStep
    BY DEF CallsStep, PersistFailure, Persist, FollowupPersist, SignalWrite, RecordWrite
<1>2. CopiesStep
    BY GotoCopies, ReturnCopies
    DEF PersistFailure, Persist, FollowupPersist, SignalWrite, RecordWrite
<1>3. CASE PersistFailure(p) \/ SignalWrite(p)
    BY <1>1, <1>2, <1>3 DEF DataStep, RowStep, PersistFailure, SignalWrite, WriteRow, Holding
<1>4. CASE Persist(p) \/ FollowupPersist(p)
    BY <1>0, <1>1, <1>2, <1>4 DEF DataStep, RowStep, Persist, FollowupPersist, WriteRow, Holding
<1>5. CASE RecordWrite(p)
    BY <1>1, <1>2, <1>5 DEF DataStep, RowStep, RecordWrite, WriteDecision, Holding
<1> QED BY <1>3, <1>4, <1>5

LEMMA QuietData ==
    ASSUME TypeInv, NEW p \in Procs,
           \/ ReadContext(p, "read", "call")
           \/ ReadContext(p, "followup_read", "followup_call")
           \/ ObserveSignals(p) \/ Collect(p) \/ CollectFails(p)
           \/ EvaluateContext(p) \/ RecordRead(p) \/ Abort(p)
    PROVE DataStep
<1> USE DEF database, history
<1>1. UNCHANGED <<row, results, decided, calls>>
    BY DEF ReadContext, ObserveSignals, Collect, CollectFails, EvaluateContext, RecordRead, Abort
<1>2. CopiesStep
    <2>1. CASE ReadContext(p, "read", "call") \/ ReadContext(p, "followup_read", "followup_call")
        BY <2>1, GotoCopies DEF ReadContext
    <2>2. CASE ObserveSignals(p) \/ Collect(p) \/ CollectFails(p)
        BY <2>2, GotoCopies DEF ObserveSignals, Collect, CollectFails
    <2>3. CASE EvaluateContext(p)
        BY <2>3, GotoCopies, ReturnCopies DEF EvaluateContext
    <2>4. CASE RecordRead(p)
        BY <2>4, GotoCopies, ReturnCopies DEF RecordRead
    <2>5. CASE Abort(p)
        BY <2>5, ReturnCopies DEF Abort
    <2> QED BY <2>1, <2>2, <2>3, <2>4, <2>5
<1> QED BY <1>1, <1>2, QuietStep

LEMMA RequestData ==
    ASSUME TypeInv, NEW r \in Requests, Begin(r) \/ Ingest(r) \/ IngestWrite(r)
    PROVE DataStep
<1> USE DEF database, history
<1>0. r \in Procs
    BY DEF Procs
<1>1. CASE IngestWrite(r)
    <2>1. CopiesStep BY <1>1, ReturnCopies DEF IngestWrite
    <2> QED BY <1>0, <1>1, <2>1 DEF DataStep, RowStep, CallsStep, IngestWrite, WriteRow, Holding
<1>2. CASE Begin(r) \/ Ingest(r)
    <2>1. CopiesStep
        BY <1>2, GotoCopies DEF Begin, RequestAdvance, AdvanceRead, RequestVerification,
                                RequestReconcile, RequestIngest, Ingest
    <2>2. UNCHANGED <<row, results, decided, calls>>
        BY <1>2 DEF Begin, RequestAdvance, AdvanceRead, RequestVerification,
                    RequestReconcile, RequestIngest, Ingest
    <2> QED BY <2>1, <2>2, QuietStep
<1> QED BY <1>1, <1>2

LEMMA NextData == TypeInv /\ [Next]_vars => DataStep
<1> SUFFICES ASSUME TypeInv, [Next]_vars PROVE DataStep
    OBVIOUS
<1>0. ASSUME NEW p \in Procs, Reconcile(p) \/ Fault(p) PROVE DataStep
    BY <1>0, ProviderData, WriteData, QuietData DEF Reconcile, Fault
<1>1. ASSUME NEW w \in Workers, Tick(w) \/ AdvanceWrite(w) \/ Reconcile(w) PROVE DataStep
    BY <1>0, <1>1, WorkerData, AdvanceData DEF Procs
<1>2. ASSUME NEW r \in Requests, Begin(r) \/ Serve(r) PROVE DataStep
    BY <1>0, <1>2, RequestData, AdvanceData DEF Procs, Serve
<1>3. CASE SwitchMode \/ DeploymentSettles \/ DeploymentBreaks \/ UNCHANGED vars
    <2>1. UNCHANGED <<row, results, decided, calls, held>>
        BY <1>3 DEF SwitchMode, DeploymentSettles, DeploymentBreaks, vars, database, history
    <2>2. CopiesStep BY <2>1 DEF CopiesStep
    <2> QED BY <2>1, <2>2, QuietStep
<1> QED BY <1>0, <1>1, <1>2, <1>3 DEF Next

----------------------------------------------------------------------------
(* Provider mutations are decided *)

\* Whatever copy of the row is in flight, its status was decided at some time:
\* this is what makes acting on a stale copy, and writing it back, harmless to
\* the property.
DecidedInv ==
    /\ row.status \in decided
    /\ InitialRow.status \in decided
    /\ \A p \in Procs : held[p].status \in decided
    /\ MutationsAreDecided

LEMMA ActsOnPurpose ==
    ASSUME NEW r, NEW advisory, NEW m \in Mutations, ChosenCall(r, advisory) = m
    PROVE r.status = Purpose(m)
BY DEF ChosenCall, ProviderAction, NeedsSubmit, NeedsPause, NeedsRollback, NeedsResume,
       Purpose, Mutations

LEMMA InitDecided == Init => DecidedInv
BY DEF Init, DecidedInv, MutationsAreDecided

LEMMA NextDecided == TypeInv /\ DecidedInv /\ [Next]_vars => DecidedInv'
<1> SUFFICES ASSUME TypeInv, DecidedInv, [Next]_vars PROVE DecidedInv'
    OBVIOUS
<1>1. DataStep
    BY NextData
<1>2. decided \subseteq decided'
    BY <1>1 DEF DataStep, RowStep
<1>3. row'.status \in decided'
    BY <1>1, <1>2 DEF DataStep, RowStep, DecidedInv, WithReply, TypeInv, LocalOK, Rows
<1>4. InitialRow'.status \in decided' /\ \A p \in Procs : held'[p].status \in decided'
    BY <1>1, <1>2 DEF DataStep, CopiesStep, DecidedInv, InitialRow
<1>5. ASSUME NEW m \in Mutations, calls'[m] > 0 PROVE Purpose(m) \in decided'
    <2>1. CASE calls'[m] = calls[m]
        BY <1>2, <1>5, <2>1 DEF DecidedInv, MutationsAreDecided
    <2>2. CASE calls'[m] # calls[m]
        BY <1>1, <1>2, <2>2, ActsOnPurpose DEF DataStep, CallsStep, DecidedInv
    <2> QED BY <2>1, <2>2
<1> QED BY <1>3, <1>4, <1>5 DEF DecidedInv, MutationsAreDecided

\* No provider mutation is made for a desired status nobody decided, however
\* many stale copies of the row are acted upon and written back.
THEOREM MutationsDecided == Spec => []MutationsAreDecided
<1>1. Spec => []DecidedInv
    BY TypeInvariance, InitDecided, NextDecided, PTL DEF Spec
<1>2. DecidedInv => MutationsAreDecided
    BY DEF DecidedInv
<1> QED BY <1>1, <1>2, PTL

----------------------------------------------------------------------------
(* Timestamps follow the status *)

Stamped(r) ==
    /\ r.status \in Finished => r.completed
    /\ r.status = "in_progress" => r.started

\* Every copy in flight is consistent, so writing any of them back is.
StampedInv == Stamped(row) /\ \A p \in Procs : Stamped(held[p])

LEMMA InitialStamped == Stamped(InitialRow)
BY DEF Stamped, InitialRow, InitialExecutionStatus, Finished

LEMMA VerdictStamped ==
    ASSUME NEW r \in Rows, Stamped(r), NEW decision, NEW n
    PROVE Stamped(ApplyVerificationDecision(r, decision, n))
<1> DEFINE after == ApplyVerificationDecision(r, decision, n)
<1>1. /\ after.status = DecidedStatus(r.status, decision)
      /\ r.started => after.started
      /\ r.completed \/ decision \in {"rollback", "failed"} => after.completed
    BY DEF ApplyVerificationDecision, Rows
<1> HIDE DEF after
<1>2. ASSUME decision \in {"verified", "pause", "manual_review_required", "rollback", "failed"}
      PROVE Stamped(after)
    BY <1>1, <1>2 DEF Stamped, DecidedStatus, Finished
<1>3. ASSUME decision \notin {"verified", "pause", "manual_review_required", "rollback", "failed"}
      PROVE Stamped(after)
    <2>1. after.status = r.status
        BY <1>1, <1>3 DEF DecidedStatus
    <2> QED BY <1>1, <2>1 DEF Stamped
<1>4. Stamped(after)
    BY <1>2, <1>3
<1> QED BY <1>4 DEF after

LEMMA NextStamped == TypeInv /\ StampedInv /\ [Next]_vars => StampedInv'
<1> SUFFICES ASSUME TypeInv, StampedInv, [Next]_vars PROVE StampedInv'
    OBVIOUS
<1>1. DataStep /\ \A p \in Procs : held[p] \in Rows
    BY NextData DEF TypeInv, LocalOK
<1>2. Stamped(row')
    <2>1. ASSUME NEW p \in Procs, NEW reply PROVE Stamped(WithReply(held[p], reply))
        BY <1>1 DEF StampedInv, Stamped, WithReply, Rows
    <2>2. ASSUME NEW p \in Procs, NEW next PROVE Stamped(AdvanceExecution(held[p], next))
        BY <1>1 DEF Stamped, AdvanceExecution, Rows
    <2>3. ASSUME NEW p \in Procs, NEW decision, NEW n
          PROVE Stamped(ApplyVerificationDecision(held[p], decision, n))
        BY <1>1, VerdictStamped DEF StampedInv
    <2> QED BY <1>1, <2>1, <2>2, <2>3 DEF DataStep, RowStep, StampedInv
<1>3. \A p \in Procs : Stamped(held'[p])
    BY <1>1, InitialStamped DEF DataStep, CopiesStep, StampedInv
<1> QED BY <1>2, <1>3 DEF StampedInv, Stamped

\* However the whole-row writes race, a finished execution has completed_at and
\* one in progress has started_at.
THEOREM TimestampsConsistent == Spec => []TimestampsFollowStatus
<1>1. Init => StampedInv
    BY InitialStamped DEF Init, StampedInv
<1>2. StampedInv => TimestampsFollowStatus
    BY DEF StampedInv, Stamped, TimestampsFollowStatus
<1> QED BY <1>1, <1>2, TypeInvariance, NextStamped, PTL DEF Spec

----------------------------------------------------------------------------
(* Who steps. A process moves alone; the world around it moves no process. *)

Own(p) == Tick(p) \/ AdvanceWrite(p) \/ Reconcile(p) \/ Begin(p) \/ Serve(p) \/ Fault(p)

LEMMA WhoSteps ==
    ASSUME [Next]_vars
    PROVE \/ \E p \in Procs : Own(p)
          \/ UNCHANGED <<row, results, snapshots, pc, held, task, calls>>
<1>1. CASE SwitchMode \/ DeploymentSettles \/ DeploymentBreaks \/ UNCHANGED vars
    BY <1>1 DEF SwitchMode, DeploymentSettles, DeploymentBreaks, vars, database, history
<1>2. CASE \E p \in Procs : Fault(p)
    BY <1>2 DEF Own
<1>3. CASE \E w \in Workers : Tick(w) \/ AdvanceWrite(w) \/ Reconcile(w)
    BY <1>3 DEF Own, Procs
<1>4. CASE \E r \in Requests : Begin(r) \/ Serve(r)
    BY <1>4 DEF Own, Procs
<1> QED BY <1>1, <1>2, <1>3, <1>4 DEF Next

\* The other processes stay where they are.
Still(q) == \A p \in Procs \ {q} :
    /\ pc'[p] \in {pc[p], "idle"}
    /\ pc'[p] # "idle" => held'[p] = held[p] /\ task'[p] = task[p]

LEMMA GotoStill ==
    ASSUME TypeInv, NEW q, NEW s, NEW r, NEW t, Goto(q, s, r, t)
    PROVE Still(q)
BY DEF Still, Goto, TypeInv, LocalOK

LEMMA ReturnStill == ASSUME TypeInv, NEW q, Return(q) PROVE Still(q)
BY GotoStill DEF Return

LEMMA OthersStay ==
    ASSUME TypeInv, NEW q \in Procs, Own(q)
    PROVE Still(q)
<1>1. CASE Claim(q)
    <2>1. PICK losers \in SUBSET {v \in Workers \ {q} : pc[v] = "claim"} :
             /\ pc' = [x \in Procs |->
                         IF x = q THEN IF NextAction(held[q].status) = "none"
                                       THEN "read" ELSE "advance"
                         ELSE IF x \in losers THEN "idle" ELSE pc[x]]
             /\ held' = [x \in Procs |-> IF x \in losers \cup {q} THEN InitialRow ELSE held[x]]
        BY <1>1 DEF Claim
    <2>2. task' = [task EXCEPT ![q] = [NoTask EXCEPT !.action = NextAction(held[q].status)]]
        BY <1>1 DEF Claim
    <2> QED BY <2>1, <2>2 DEF TypeInv, LocalOK, Still
<1>2. CASE List(q) \/ WorkerAdvance(q)
    BY <1>2, GotoStill, ReturnStill DEF List, WorkerAdvance, AdvanceRead
<1>3. CASE CallProvider(q)
    <2> DEFINE action == ChosenCall(held[q], task[q].advisory)
    <2>1. PICK reply \in AnswersTo(q, action) :
            IF WorthWriting(q, action, reply)
            THEN Goto(q, IF pc[q] = "call" THEN "persist" ELSE "followup_persist",
                      held[q], [task[q] EXCEPT !.action = action, !.reply = reply])
            ELSE Return(q)
        BY <1>3 DEF CallProvider
    <2> HIDE DEF action
    <2> QED BY <2>1, GotoStill, ReturnStill
<1>4. CASE \/ ReadContext(q, "read", "call") \/ ReadContext(q, "followup_read", "followup_call")
           \/ PersistFailure(q) \/ Persist(q) \/ ObserveSignals(q) \/ Collect(q)
           \/ SignalWrite(q) \/ FollowupPersist(q)
    BY <1>4, GotoStill, ReturnStill
    DEF ReadContext, PersistFailure, Persist, ObserveSignals, Collect, SignalWrite,
        FollowupPersist
<1>5. CASE EvaluateContext(q) \/ RecordRead(q) \/ RecordWrite(q)
    BY <1>5, GotoStill, ReturnStill DEF EvaluateContext, RecordRead, RecordWrite
<1>6. CASE AdvanceWrite(q) \/ Ingest(q) \/ IngestWrite(q)
    BY <1>6, GotoStill, ReturnStill DEF AdvanceWrite, Ingest, IngestWrite
<1>7. CASE Begin(q)
    <2>1. CASE RequestVerification(q)
        BY <2>1, GotoStill DEF RequestVerification
    <2>2. CASE RequestAdvance(q) \/ RequestReconcile(q) \/ RequestIngest(q)
        BY <2>2, GotoStill DEF RequestAdvance, AdvanceRead, RequestReconcile, RequestIngest
    <2> QED BY <1>7, <2>1, <2>2 DEF Begin
<1>8. CASE Fault(q)
    BY <1>8, GotoStill, ReturnStill DEF Fault, ProviderFails, CollectFails, Abort
<1>9. CASE Reconcile(q)
    BY <1>3, <1>4, <1>5, <1>9 DEF Reconcile
<1> QED BY <1>1, <1>2, <1>6, <1>7, <1>8, <1>9 DEF Own, Serve, Tick

\* A process is under way, or it may begin.
LEMMA Guarded ==
    ASSUME NEW q \in Procs, Own(q)
    PROVE pc[q] # "idle" \/ MayBegin(q)
<1>1. CASE Tick(q)
    BY <1>1 DEF Tick, List, Claim, WorkerAdvance
<1>2. CASE AdvanceWrite(q) \/ Ingest(q) \/ IngestWrite(q)
    BY <1>2 DEF AdvanceWrite, Ingest, IngestWrite
<1>3. CASE Begin(q)
    BY <1>3 DEF Begin, RequestAdvance, RequestVerification, RequestReconcile, RequestIngest
<1>4. CASE Fault(q)
    BY <1>4 DEF Fault, ProviderFails, CollectFails, Abort
<1>5. CASE Reconcile(q)
    BY <1>5 DEF Reconcile, ReadContext, CallProvider, PersistFailure, Persist, ObserveSignals,
                Collect, SignalWrite, EvaluateContext, RecordRead, RecordWrite, FollowupPersist
<1> QED BY <1>1, <1>2, <1>3, <1>4, <1>5 DEF Own, Serve

LEMMA GotoSelf ==
    ASSUME TypeInv, NEW p \in Procs, NEW s, NEW r, NEW t, Goto(p, s, r, t)
    PROVE pc'[p] = s /\ held'[p] = r /\ task'[p] = t
BY DEF Goto, TypeInv, LocalOK

LEMMA ReturnSelf == ASSUME TypeInv, NEW p \in Procs, Return(p) PROVE pc'[p] = "idle"
BY GotoSelf DEF Return

Calling == {"call", "followup_call"}

\* What a process that calls the provider does next.
LEMMA CallSelf ==
    ASSUME TypeInv, NEW p \in Procs, CallProvider(p)
    PROVE /\ pc'[p] \in {"persist", "followup_persist", "idle"}
          /\ pc'[p] # "idle" => held'[p] = held[p]
          /\ pc[p] \in Calling /\ UNCHANGED <<row, results, snapshots>>
<1> DEFINE action == ChosenCall(held[p], task[p].advisory)
<1>1. PICK reply \in AnswersTo(p, action) :
        IF WorthWriting(p, action, reply)
        THEN Goto(p, IF pc[p] = "call" THEN "persist" ELSE "followup_persist",
                  held[p], [task[p] EXCEPT !.action = action, !.reply = reply])
        ELSE Return(p)
    BY DEF CallProvider
<1>2. pc[p] \in Calling /\ UNCHANGED <<row, results, snapshots>>
    BY DEF CallProvider, Calling, database
<1> HIDE DEF action
<1>3. CASE WorthWriting(p, action, reply)
    BY <1>1, <1>2, <1>3, GotoSelf
<1>4. CASE ~WorthWriting(p, action, reply)
    BY <1>1, <1>2, <1>4, ReturnSelf
<1> QED BY <1>3, <1>4

LEMMA ClaimSelf ==
    ASSUME TypeInv, NEW p \in Procs, Claim(p)
    PROVE pc'[p] \in {"read", "advance"}
BY DEF Claim, TypeInv, LocalOK

----------------------------------------------------------------------------
(* Where a verdict comes from                                              *)

Recording == {"record", "record_write"}

Judged(reply) == Evaluate(row.status, reply, snapshots, results, Policy, SignalsRequired)

\* What a process comes to record is what it was recording, a client's report, or
\* the engine's opinion on what is stored now; in advisory mode it is advice.
LEMMA ProposalOrigin ==
    ASSUME TypeInv, NEW p \in Procs, Own(p), pc'[p] \in Recording
    PROVE /\ UNCHANGED <<row, results, snapshots>>
          /\ \/ pc[p] = "record" /\ task'[p].proposal = Proposed(task[p].proposal)
             \/ "verify" \in RequestKinds /\ ~task'[p].proposal.engine
             \/ \E reply \in BackendStatuses :
                   Judged(reply) # NoProposal /\ task'[p].proposal = Proposed(Judged(reply))
<1> USE DEF Recording
<1>1. ~Tick(p)
    <2>1. ~Claim(p)
        BY ClaimSelf
    <2>2. ~List(p) /\ ~WorkerAdvance(p)
        BY GotoSelf, ReturnSelf DEF List, WorkerAdvance, AdvanceRead
    <2> QED BY <2>1, <2>2 DEF Tick
<1>2. ~AdvanceWrite(p) /\ ~Ingest(p) /\ ~IngestWrite(p)
    BY GotoSelf, ReturnSelf DEF AdvanceWrite, Ingest, IngestWrite
<1>3. ~Fault(p)
    BY GotoSelf, ReturnSelf DEF Fault, ProviderFails, CollectFails, Abort
<1>4. ~CallProvider(p)
    BY CallSelf
<1>5. /\ ~ReadContext(p, "read", "call") /\ ~ReadContext(p, "followup_read", "followup_call")
      /\ ~PersistFailure(p) /\ ~Persist(p) /\ ~ObserveSignals(p) /\ ~Collect(p)
      /\ ~SignalWrite(p) /\ ~FollowupPersist(p)
    BY GotoSelf, ReturnSelf
    DEF ReadContext, PersistFailure, Persist, ObserveSignals, Collect, SignalWrite,
        FollowupPersist
<1>6. ~RequestAdvance(p) /\ ~RequestReconcile(p) /\ ~RequestIngest(p)
    BY GotoSelf DEF RequestAdvance, AdvanceRead, RequestReconcile, RequestIngest
<1>7. ~RecordWrite(p)
    BY GotoSelf, ReturnSelf DEF RecordWrite
<1>8. CASE RequestVerification(p)
    <2>1. PICK report \in Reports :
            Goto(p, "record", InitialRow, [NoTask EXCEPT !.proposal = report])
        BY <1>8 DEF RequestVerification
    <2>2. ~task'[p].proposal.engine
        BY <2>1, GotoSelf, RuntimeAssumption DEF NoTask
    <2> QED BY <1>8, <2>2 DEF RequestVerification, database
<1>9. CASE RecordRead(p)
    <2> DEFINE proposal == Proposed(task[p].proposal)
    <2>1. pc[p] = "record" /\ task[p] \in Tasks /\ UNCHANGED <<row, results, snapshots>>
        BY <1>9 DEF RecordRead, TypeInv, LocalOK, database
    <2>2. [task[p] EXCEPT !.proposal = proposal].proposal = proposal
        BY <2>1 DEF Tasks
    <2>3. Return(p) \/ Goto(p, "record_write", row, [task[p] EXCEPT !.proposal = proposal])
        BY <1>9 DEF RecordRead
    <2> HIDE DEF proposal
    <2>4. task'[p].proposal = proposal
        BY ZenonT(60), <2>2, <2>3, GotoSelf, ReturnSelf
    <2> QED BY <2>1, <2>4 DEF proposal
<1>10. CASE EvaluateContext(p)
    <2>1. PICK reply \in BackendStatuses : reply = task[p].reply
        BY DEF TypeInv, LocalOK, Tasks
    <2>2. IF Judged(reply) = NoProposal THEN Return(p)
          ELSE Goto(p, "record", InitialRow, [NoTask EXCEPT !.proposal = Proposed(Judged(reply))])
        BY <1>10, <2>1 DEF EvaluateContext, Judged
    <2>3. Judged(reply) # NoProposal
        BY <2>2, ReturnSelf
    <2>4. task'[p].proposal = Proposed(Judged(reply))
        BY <2>2, <2>3, GotoSelf DEF NoTask
    <2> QED BY <1>10, <2>3, <2>4 DEF EvaluateContext, database
<1> QED BY <1>1, <1>2, <1>3, <1>4, <1>5, <1>6, <1>7, <1>8, <1>9, <1>10
        DEF Own, Serve, Begin, Reconcile

----------------------------------------------------------------------------
(* The approval gate *)

Reported == \E i \in DOMAIN results : ~results[i].engine
GateOpen == "approved" \in decided \/ Reported

\* While the gate is closed the only decision there can be is a rollback, and
\* the engine has no verdict under way: it has none on an execution that waits
\* for approval or is rolled back.
GateInv ==
    ApprovalRequired /\ ~GateOpen =>
        /\ decided \subseteq {"awaiting_approval", "rolled_back"}
        /\ \A p \in Procs : pc[p] \in Recording => ~task[p].proposal.engine

LEMMA NoOpinion ==
    ASSUME row.status \in {"awaiting_approval", "rolled_back"}, NEW reply
    PROVE Judged(reply) = NoProposal
BY DEF Judged, Evaluate, Opinion, Verifiable

\* A verdict of the engine's that is under way was under way before, or is its opinion on
\* the present row.
LEMMA VerdictOrigin ==
    ASSUME TypeInv, [Next]_vars, NEW p \in Procs, pc'[p] \in Recording,
           task'[p].proposal.engine
    PROVE \/ pc[p] \in Recording /\ task[p].proposal.engine
          \/ \E reply \in BackendStatuses : Judged(reply) # NoProposal
<1>1. CASE Own(p)
    <2>1. CASE pc[p] = "record" /\ task'[p].proposal = Proposed(task[p].proposal)
        <3>1. task[p].proposal \in Results
            BY <2>1 DEF TypeInv, LocalOK
        <3> QED BY <2>1, <3>1, ProposedType DEF Recording
    <2> QED BY <1>1, <2>1, ProposalOrigin
<1>2. CASE ~Own(p)
    BY <1>2, WhoSteps, OthersStay DEF Still, Recording
<1> QED BY <1>1, <1>2

LEMMA GateMonotone ==
    ASSUME TypeInv, DataStep, GateOpen
    PROVE GateOpen'
<1>1. decided \subseteq decided'
    BY DEF DataStep, RowStep
<1>2. ASSUME NEW i \in DOMAIN results PROVE i \in DOMAIN results' /\ results'[i] = results[i]
    <2>1. results \in Seq(Results)
        BY DEF TypeInv, SharedOK
    <2>2. \/ results' = results
          \/ \E p \in Procs : results' = Append(results, task[p].proposal)
        BY DEF DataStep, RowStep
    <2> QED BY <1>2, <2>1, <2>2
<1> QED BY <1>1, <1>2 DEF GateOpen, Reported

LEMMA NextGate == TypeInv /\ DecidedInv /\ GateInv /\ [Next]_vars => GateInv'
<1> SUFFICES ASSUME TypeInv, DecidedInv, GateInv, [Next]_vars, ApprovalRequired, ~GateOpen'
             PROVE /\ decided' \subseteq {"awaiting_approval", "rolled_back"}
                   /\ \A p \in Procs : pc'[p] \in Recording => ~task'[p].proposal.engine
    BY DEF GateInv
<1>1. DataStep
    BY NextData
<1>2. /\ decided \subseteq {"awaiting_approval", "rolled_back"}
      /\ \A p \in Procs : pc[p] \in Recording => ~task[p].proposal.engine
    BY <1>1, GateMonotone DEF GateInv
<1>3. decided' \subseteq {"awaiting_approval", "rolled_back"}
    <2>1. CASE decided' = decided
        BY <1>2, <2>1
    <2>2. ASSUME NEW p \in Procs, NEW action \in Actions, NEW next \in Statuses,
                 <<held[p].status, action, next>> \in Transition,
                 row' = AdvanceExecution(held[p], next),
                 decided' = decided \cup {row'.status}
          PROVE decided' \subseteq {"awaiting_approval", "rolled_back"}
        <3>1. held[p].status \in {"awaiting_approval", "rolled_back"}
            BY <1>2 DEF DecidedInv
        <3>2. next \in {"approved", "rolled_back"}
            BY <2>2, <3>1 DEF Transition
        <3>3. row'.status = next
            BY <2>2 DEF AdvanceExecution, TypeInv, LocalOK, Rows
        <3>4. next # "approved"
            BY <2>2, <3>3 DEF GateOpen
        <3> QED BY <1>2, <2>2, <3>2, <3>3, <3>4
    <2>3. ASSUME NEW p \in Procs, pc[p] = "record_write",
                 results' = Append(results, task[p].proposal)
          PROVE FALSE
        <3>1. ~task[p].proposal.engine
            BY <1>2, <2>3 DEF Recording
        <3>2. results \in Seq(Results)
            BY DEF TypeInv, SharedOK
        <3>3. Len(results) + 1 \in DOMAIN results' /\ results'[Len(results) + 1] = task[p].proposal
            BY <2>3, <3>2
        <3> QED BY <3>1, <3>3 DEF GateOpen, Reported
    <2> QED BY <1>1, <2>1, <2>2, <2>3 DEF DataStep, RowStep
<1>4. ASSUME NEW p \in Procs, pc'[p] \in Recording, task'[p].proposal.engine
      PROVE FALSE
    <2>1. row.status \in {"awaiting_approval", "rolled_back"}
        BY <1>2 DEF DecidedInv
    <2> QED BY <1>2, <1>4, <2>1, VerdictOrigin, NoOpinion
<1> QED BY <1>3, <1>4

\* An execution that needs approval is neither submitted nor resumed before it
\* is approved, unless a client recorded a verification result over the API, however
\* the requests, the worker's ticks and the crashes interleave.
THEOREM ApprovalGateHolds == Spec => []ApprovalGate
<1>1. Init => GateInv
    BY DEF Init, GateInv, Recording, InitialRow, InitialExecutionStatus
<1>2. TypeInv /\ DecidedInv /\ GateInv => ApprovalGate
    <2> SUFFICES ASSUME TypeInv, DecidedInv, GateInv, ApprovalRequired,
                        calls["submit"] + calls["resume"] > 0
                 PROVE GateOpen
        BY DEF ApprovalGate, GateOpen, Reported
    <2>1. calls["submit"] > 0 \/ calls["resume"] > 0
        BY DEF TypeInv, SharedOK, Mutations
    <2>2. "in_progress" \in decided
        BY <2>1 DEF DecidedInv, MutationsAreDecided, Purpose, Mutations
    <2> QED BY <2>2 DEF GateInv
<1>3. Spec => []DecidedInv
    BY TypeInvariance, InitDecided, NextDecided, PTL DEF Spec
<1> QED BY <1>1, <1>2, <1>3, TypeInvariance, NextGate, PTL DEF Spec

----------------------------------------------------------------------------
(* Advisory mode *)

\* While the integration has never been in active control, every context a
\* process is about to act upon says advisory.
HandsOffInv ==
    Backend # "simulated" /\ ~activeSeen =>
        /\ mode = "advisory"
        /\ \A m \in Mutations : calls[m] = 0
        /\ \A p \in Procs : pc[p] \in Calling => task[p].advisory

LEMMA ModeStep ==
    [Next]_vars => \/ UNCHANGED <<mode, activeSeen>>
                   \/ /\ "mode" \in RequestKinds
                      /\ activeSeen' = (activeSeen \/ mode' = "active_control")
<1> SUFFICES ASSUME [Next]_vars, ~SwitchMode PROVE UNCHANGED <<mode, activeSeen>>
    BY DEF SwitchMode
<1> USE DEF history
<1>1. ASSUME NEW p, Reconcile(p) \/ AdvanceWrite(p) PROVE UNCHANGED <<mode, activeSeen>>
    BY <1>1 DEF Reconcile, ReadContext, CallProvider, PersistFailure, Persist, ObserveSignals,
                Collect, SignalWrite, EvaluateContext, RecordRead, RecordWrite,
                FollowupPersist, AdvanceWrite
<1>2. ASSUME NEW p, Tick(p) \/ Fault(p) PROVE UNCHANGED <<mode, activeSeen>>
    BY <1>2 DEF Tick, List, Claim, WorkerAdvance, AdvanceRead, Fault, ProviderFails,
                CollectFails, Abort
<1>3. ASSUME NEW p, Begin(p) \/ Ingest(p) \/ IngestWrite(p)
      PROVE UNCHANGED <<mode, activeSeen>>
    BY <1>3 DEF Begin, RequestAdvance, AdvanceRead, RequestVerification, RequestReconcile,
                RequestIngest, Ingest, IngestWrite
<1>4. ASSUME DeploymentSettles \/ DeploymentBreaks \/ UNCHANGED vars
      PROVE UNCHANGED <<mode, activeSeen>>
    BY <1>4 DEF DeploymentSettles, DeploymentBreaks, vars
<1> QED BY <1>1, <1>2, <1>3, <1>4 DEF Next, Serve

\* A process about to call the provider was so before, with the same context,
\* or has just read the context.
LEMMA CallOrigin ==
    ASSUME TypeInv, [Next]_vars, NEW p \in Procs, pc'[p] \in Calling
    PROVE \/ pc[p] \in Calling /\ task'[p] = task[p]
          \/ task'[p].advisory = AdvisoryOnly(mode)
<1> DEFINE Origin == \/ pc[p] \in Calling /\ task'[p] = task[p]
                     \/ task'[p].advisory = AdvisoryOnly(mode)
<1> USE DEF TypeInv, LocalOK, Calling
<1>1. ASSUME NEW q \in Procs, NEW s, NEW r, NEW t, Goto(q, s, r, t), q # p \/ s \notin Calling
      PROVE Origin
    BY <1>1 DEF Goto
<1>2. ASSUME NEW q \in Procs, Return(q) PROVE Origin
    BY <1>1, <1>2 DEF Return
<1> HIDE DEF Origin
<1>3. ASSUME NEW q \in Procs,
             ReadContext(q, "read", "call") \/ ReadContext(q, "followup_read", "followup_call")
      PROVE Origin
    <2>1. PICK to : Goto(q, to, row, [task[q] EXCEPT !.action = "none",
                                                    !.advisory = AdvisoryOnly(mode),
                                                    !.gate = snapshots # <<>>])
        BY <1>3 DEF ReadContext
    <2>2. CASE q = p
        <3>1. task'[p].advisory = AdvisoryOnly(mode)
            BY <2>1, <2>2 DEF Goto, Tasks
        <3> QED BY <3>1 DEF Origin
    <2> QED BY <1>1, <2>1, <2>2
<1>4. ASSUME NEW q \in Procs, CallProvider(q) PROVE Origin
    <2> DEFINE action == ChosenCall(held[q], task[q].advisory)
    <2>1. PICK reply \in AnswersTo(q, action) :
            IF WorthWriting(q, action, reply)
            THEN Goto(q, IF pc[q] = "call" THEN "persist" ELSE "followup_persist",
                      held[q], [task[q] EXCEPT !.action = action, !.reply = reply])
            ELSE Return(q)
        BY <1>4 DEF CallProvider
    <2>2. (IF pc[q] = "call" THEN "persist" ELSE "followup_persist") \notin Calling
        OBVIOUS
    <2> HIDE DEF action
    <2> QED BY <1>1, <1>2, <2>1, <2>2
<1>5. ASSUME NEW q \in Procs,
             \/ ProviderFails(q) \/ PersistFailure(q) \/ Persist(q) \/ FollowupPersist(q)
             \/ ObserveSignals(q) \/ Collect(q) \/ CollectFails(q) \/ SignalWrite(q)
      PROVE Origin
    BY <1>1, <1>2, <1>5
    DEF ProviderFails, PersistFailure, Persist, FollowupPersist, ObserveSignals, Collect,
        CollectFails, SignalWrite
<1>6. ASSUME NEW q \in Procs, EvaluateContext(q) \/ RecordRead(q) \/ RecordWrite(q) PROVE Origin
    BY <1>1, <1>2, <1>6 DEF EvaluateContext, RecordRead, RecordWrite
<1>7. ASSUME NEW q \in Procs,
             List(q) \/ WorkerAdvance(q) \/ AdvanceWrite(q) \/ Abort(q)
      PROVE Origin
    BY <1>1, <1>2, <1>7 DEF List, WorkerAdvance, AdvanceRead, AdvanceWrite, Abort
<1>8. ASSUME NEW q \in Procs, Claim(q) PROVE Origin
    BY <1>8 DEF Claim, Origin
<1>9. ASSUME NEW q \in Procs, Begin(q) \/ Ingest(q) \/ IngestWrite(q) PROVE Origin
    <2>1. CASE RequestAdvance(q) \/ RequestVerification(q)
        <3>1. (\E t : Goto(q, "advance_write", row, t)) \/ (\E t : Goto(q, "record", InitialRow, t))
            BY <2>1 DEF RequestAdvance, AdvanceRead, RequestVerification
        <3> QED BY <1>1, <3>1
    <2>2. CASE RequestReconcile(q) \/ RequestIngest(q)
        BY <1>1, <2>2 DEF RequestReconcile, RequestIngest
    <2>3. CASE Ingest(q) \/ IngestWrite(q)
        BY <1>1, <1>2, <2>3 DEF Ingest, IngestWrite
    <2> QED BY <1>9, <2>1, <2>2, <2>3 DEF Begin
<1>10. ASSUME SwitchMode \/ DeploymentSettles \/ DeploymentBreaks \/ UNCHANGED vars
       PROVE Origin
    BY <1>10 DEF SwitchMode, DeploymentSettles, DeploymentBreaks, vars, Origin
<1>11. ASSUME NEW q \in Procs, Reconcile(q) \/ AdvanceWrite(q) \/ Fault(q) PROVE Origin
    BY <1>3, <1>4, <1>5, <1>6, <1>7, <1>11 DEF Reconcile, Fault
<1>12. ASSUME NEW q \in Procs, Tick(q) PROVE Origin
    BY <1>7, <1>8, <1>12 DEF Tick
<1>13. ASSUME NEW r \in Requests, Begin(r) \/ Serve(r) PROVE Origin
    BY <1>9, <1>11, <1>13 DEF Serve, Procs
<1>14. Origin
    BY <1>10, <1>11, <1>12, <1>13 DEF Next, Procs
<1> QED BY <1>14 DEF Origin

LEMMA NextHandsOff == TypeInv /\ HandsOffInv /\ [Next]_vars => HandsOffInv'
<1> SUFFICES ASSUME TypeInv, HandsOffInv, [Next]_vars, Backend # "simulated", ~activeSeen'
             PROVE /\ mode' = "advisory"
                   /\ \A m \in Mutations : calls'[m] = 0
                   /\ \A p \in Procs : pc'[p] \in Calling => task'[p].advisory
    BY DEF HandsOffInv
<1>1. ~activeSeen /\ mode' = "advisory"
    <2>1. mode' \in {"active_control", "advisory"}
        BY NextTypes DEF TypeInv, SharedOK
    <2>2. activeSeen \in BOOLEAN
        BY DEF TypeInv, SharedOK
    <2>3. CASE UNCHANGED <<mode, activeSeen>>
        BY <2>3 DEF HandsOffInv
    <2>4. CASE activeSeen' = (activeSeen \/ mode' = "active_control")
        BY <2>1, <2>2, <2>4
    <2> QED BY <2>3, <2>4, ModeStep
<1>2. /\ mode = "advisory"
      /\ \A m \in Mutations : calls[m] = 0
      /\ \A p \in Procs : pc[p] \in Calling => task[p].advisory
    BY <1>1 DEF HandsOffInv
<1>3. ASSUME NEW m \in Mutations PROVE calls'[m] = 0
    <2>1. ASSUME NEW p \in Procs, pc[p] \in Calling PROVE ChosenCall(held[p], task[p].advisory) # m
        BY <1>2, <2>1 DEF ChosenCall, Mutations
    <2> QED BY <1>2, <2>1, NextData DEF DataStep, CallsStep, Calling
<1>4. ASSUME NEW p \in Procs, pc'[p] \in Calling PROVE task'[p].advisory
    BY <1>2, <1>4, CallOrigin DEF AdvisoryOnly
<1> QED BY <1>1, <1>3, <1>4

\* Under an integration that was never in active control no provider mutation is
\* made, although the mode is read well before the call.
THEOREM AdvisoryKeepsHandsOff == Spec => []AdvisoryHandsOff
<1>1. Init => HandsOffInv
    BY RuntimeAssumption, InitTypes DEF Init, HandsOffInv, Calling, TypeInv, SharedOK
<1>2. HandsOffInv => AdvisoryHandsOff
    BY DEF HandsOffInv, AdvisoryHandsOff
<1> QED BY <1>1, <1>2, TypeInvariance, NextHandsOff, PTL DEF Spec

----------------------------------------------------------------------------
(* Verdicts are borne out                                                  *)

\* A verdict of the control loop that cites a snapshot is supported by it.
Supported(r, seen) ==
    r.engine /\ r.snapshot > 0 =>
        /\ r.snapshot \in DOMAIN seen
        /\ LET s == seen[r.snapshot]
               good == s.health = "healthy" /\ ~s.breach
           IN /\ r.decision \in {"verified", "advisory_verified"} => good
              /\ r.decision = "rollback" => ~good
              /\ r.decision = "pause" => s.health = "critical" \/ s.breach

SupportInv ==
    /\ \A i \in DOMAIN results : Supported(results[i], snapshots)
    /\ \A p \in Procs : pc[p] \in Recording => Supported(task[p].proposal, snapshots)

LEMMA SnapshotsGrow ==
    ASSUME [Next]_vars
    PROVE UNCHANGED snapshots \/ \E s \in Signals : snapshots' = Append(snapshots, s)
<1> USE DEF database
<1>1. ASSUME NEW p, Reconcile(p) \/ AdvanceWrite(p)
      PROVE UNCHANGED snapshots \/ \E s \in Signals : snapshots' = Append(snapshots, s)
    BY <1>1 DEF Reconcile, ReadContext, CallProvider, PersistFailure, Persist, ObserveSignals,
                Collect, SignalWrite, EvaluateContext, RecordRead, RecordWrite,
                FollowupPersist, AdvanceWrite, StoreSnapshot
<1>2. ASSUME NEW p, Tick(p) \/ Fault(p) PROVE UNCHANGED snapshots
    BY <1>2 DEF Tick, List, Claim, WorkerAdvance, AdvanceRead, Fault, ProviderFails,
                CollectFails, Abort
<1>3. ASSUME NEW p, Begin(p) \/ Ingest(p) \/ IngestWrite(p)
      PROVE UNCHANGED snapshots \/ \E s \in Signals : snapshots' = Append(snapshots, s)
    BY <1>3 DEF Begin, RequestAdvance, AdvanceRead, RequestVerification, RequestReconcile,
                RequestIngest, Ingest, IngestWrite, StoreSnapshot
<1>4. ASSUME SwitchMode \/ DeploymentSettles \/ DeploymentBreaks \/ UNCHANGED vars
      PROVE UNCHANGED snapshots
    BY <1>4 DEF SwitchMode, DeploymentSettles, DeploymentBreaks, vars
<1> QED BY <1>1, <1>2, <1>3, <1>4 DEF Next, Serve

LEMMA SupportedStays ==
    ASSUME TypeInv, [Next]_vars, NEW r, Supported(r, snapshots)
    PROVE Supported(r, snapshots')
<1>1. \A i \in DOMAIN snapshots : i \in DOMAIN snapshots' /\ snapshots'[i] = snapshots[i]
    BY SnapshotsGrow DEF TypeInv, SharedOK
<1> QED BY <1>1 DEF Supported

LEMMA OpinionIsSupported ==
    ASSUME TypeInv, NEW reply
    PROVE Supported(Judged(reply), snapshots)
<1> DEFINE n == Len(snapshots)
           s == snapshots[n]
           opinion == Opinion(row.status, reply, snapshots, results, Policy, SignalsRequired)
<1>1. snapshots \in Seq(Snapshots)
    BY DEF TypeInv, SharedOK
<1>2. CASE Judged(reply).snapshot = 0 \/ ~Judged(reply).engine
    BY <1>2 DEF Supported
<1>3. CASE ~(Judged(reply).snapshot = 0 \/ ~Judged(reply).engine)
    <2>1. Judged(reply) = opinion
        BY <1>3 DEF Judged, Evaluate, NoProposal
    <2>2. snapshots # << >> /\ opinion = SnapshotProposal(s, n, results, Policy)
        BY <1>3, <2>1 DEF Opinion, Automated, NoProposal
    <2>3. n \in DOMAIN snapshots /\ s \in Snapshots
        BY <1>1, <2>2
    <2> HIDE DEF n, s, opinion
    <2>4. s.health \in Healths /\ s.breach \in BOOLEAN
        BY <2>3 DEF Snapshots
    <2>5. /\ EffectiveSnapshotHealth(s) = "healthy" => s.health = "healthy" /\ ~s.breach
          /\ EffectiveSnapshotHealth(s) = "warning" => s.health = "warning"
          /\ EffectiveSnapshotHealth(s) = "critical" => s.health = "critical" \/ s.breach
        BY <2>4 DEF EffectiveSnapshotHealth, Healths
    <2> DEFINE v == SnapshotProposal(s, n, results, Policy)
    <2>6. v # NoProposal
        BY <1>3, <2>1, <2>2 DEF NoProposal
    <2>7. /\ v.snapshot = n
          /\ v.decision = "verified" => EffectiveSnapshotHealth(s) = "healthy"
          /\ v.decision = "rollback" => EffectiveSnapshotHealth(s) \in {"warning", "critical"}
          /\ v.decision = "pause" => EffectiveSnapshotHealth(s) = "critical"
          /\ v.decision # "advisory_verified"
        BY <2>6 DEF SnapshotProposal, Automated
    <2> HIDE DEF v
    <2>8. Supported(v, snapshots)
        BY <2>3, <2>5, <2>7 DEF Supported, s
    <2> QED BY <2>1, <2>2, <2>8 DEF v
<1> QED BY <1>2, <1>3

LEMMA AdviceIsSupported ==
    ASSUME NEW r \in Results, NEW seen, Supported(r, seen)
    PROVE Supported(Proposed(r), seen)
<1>1. /\ Proposed(r).engine = r.engine /\ Proposed(r).snapshot = r.snapshot
      /\ Proposed(r).decision \in {"verified", "advisory_verified"}
           => r.decision \in {"verified", "advisory_verified"}
      /\ Proposed(r).decision = "rollback" => r.decision = "rollback"
      /\ Proposed(r).decision = "pause" => r.decision = "pause"
    BY DEF Proposed, AdvisoryVerificationRequest, AdvisoryDecision, Results, Decisions,
           AdvisoryDecisions
<1> QED BY <1>1 DEF Supported

LEMMA NextSupported == TypeInv /\ SupportInv /\ [Next]_vars => SupportInv'
<1> SUFFICES ASSUME TypeInv, SupportInv, [Next]_vars PROVE SupportInv'
    OBVIOUS
<1>1. ASSUME NEW i \in DOMAIN results' PROVE Supported(results'[i], snapshots')
    <2>1. CASE i \in DOMAIN results /\ results'[i] = results[i]
        BY <2>1, SupportedStays DEF SupportInv
    <2>2. CASE \E p \in Procs : pc[p] = "record_write" /\ results'[i] = task[p].proposal
        BY <2>2, SupportedStays DEF SupportInv, Recording
    <2>3. \/ results' = results
          \/ \E p \in Procs : pc[p] = "record_write" /\ results' = Append(results, task[p].proposal)
        BY NextData DEF DataStep, RowStep
    <2>4. results \in Seq(Results)
        BY DEF TypeInv, SharedOK
    <2> QED BY <1>1, <2>1, <2>2, <2>3, <2>4
<1>2. ASSUME NEW p \in Procs, pc'[p] \in Recording PROVE Supported(task'[p].proposal, snapshots')
    <2>1. CASE Own(p)
        <3>1. CASE pc[p] = "record" /\ task'[p].proposal = Proposed(task[p].proposal)
            <4>1. task[p].proposal \in Results /\ Supported(task[p].proposal, snapshots)
                BY <3>1 DEF TypeInv, LocalOK, SupportInv, Recording
            <4> QED BY <3>1, <4>1, AdviceIsSupported, SupportedStays
        <3>2. CASE ~task'[p].proposal.engine
            BY <3>2 DEF Supported
        <3>3. ASSUME NEW reply \in BackendStatuses, Judged(reply) # NoProposal,
                     task'[p].proposal = Proposed(Judged(reply))
              PROVE Supported(task'[p].proposal, snapshots')
            <4>1. Judged(reply) \in Results
                BY <3>3, EvaluateType DEF Judged, TypeInv, SharedOK
            <4>2. Supported(Proposed(Judged(reply)), snapshots)
                BY <4>1, OpinionIsSupported, AdviceIsSupported
            <4> QED BY <3>3, <4>2, SupportedStays
        <3> QED BY <1>2, <2>1, <3>1, <3>2, <3>3, ProposalOrigin
    <2>2. CASE ~Own(p)
        <3>1. pc'[p] = pc[p] /\ task'[p] = task[p]
            BY <1>2, <2>2, WhoSteps, OthersStay DEF Still, Recording
        <3> QED BY <1>2, <3>1, SupportedStays DEF SupportInv
    <2> QED BY <2>1, <2>2
<1> QED BY <1>1, <1>2 DEF SupportInv

\* An evaluation, the recording that follows it and the collection of signals are not one
\* transaction: however they interleave with other processes and with what clients
\* record, a verdict of the control loop that cites a snapshot is borne out by it
\* (Engine.Evaluate in verification/engine.go).
THEOREM VerdictsSupported == Spec => []VerdictsAreSupported
<1>1. Init => SupportInv
    BY DEF Init, SupportInv, Recording
<1>2. SupportInv => VerdictsAreSupported
    BY DEF SupportInv, Supported, VerdictsAreSupported
<1> QED BY <1>1, <1>2, TypeInvariance, NextSupported, PTL DEF Spec

----------------------------------------------------------------------------
(* One operation at a time                                                 *)

\* At most one process is under way.
AloneInv == Serial => \A p, q \in Procs : pc[p] # "idle" /\ pc[q] # "idle" => p = q

\* While a process is under way nobody else steps.
LEMMA OnlyStepper ==
    ASSUME Serial, AloneInv, NEW p \in Procs, NEW q \in Procs, pc[p] # "idle", Own(q)
    PROVE q = p
BY Guarded DEF AloneInv, MayBegin

\* A process that is under way after a step took it, unless only the world around moved.
LEMMA SerialStep ==
    ASSUME Serial, TypeInv, AloneInv, [Next]_vars, NEW p \in Procs, pc'[p] # "idle"
    PROVE Own(p) \/ UNCHANGED <<row, results, snapshots, pc, held, task, calls>>
<1>1. ASSUME NEW q \in Procs, Own(q), q # p PROVE FALSE
    <2>1. pc[p] # "idle"
        BY <1>1, OthersStay DEF Still
    <2> QED BY <1>1, <2>1, OnlyStepper
<1> QED BY <1>1, WhoSteps

LEMMA NextAlone == TypeInv /\ AloneInv /\ [Next]_vars => AloneInv'
<1> SUFFICES ASSUME TypeInv, AloneInv, [Next]_vars, Serial,
                    NEW p \in Procs, NEW q \in Procs, pc'[p] # "idle", pc'[q] # "idle", p # q
             PROVE FALSE
    BY DEF AloneInv
<1>1. CASE UNCHANGED <<row, results, snapshots, pc, held, task, calls>>
    BY <1>1 DEF AloneInv
<1>2. CASE Own(p) /\ Own(q)
    <2>1. pc[q] # "idle"
        BY <1>2, OthersStay DEF Still
    <2> QED BY <1>2, <2>1, OnlyStepper
<1> QED BY <1>1, <1>2, SerialStep

\* A process comes to hold a copy by reading the row, and keeps the copy it has.
LEMMA CopyOrigin ==
    ASSUME TypeInv, NEW p \in Procs, Own(p), pc'[p] \in Holding
    PROVE row' = row /\ (held'[p] = row \/ (pc[p] \in Holding /\ held'[p] = held[p]))
<1> USE DEF Holding, database
<1>1. CASE Tick(p)
    <2>1. ~Claim(p)
        BY ClaimSelf
    <2> QED BY <1>1, <2>1, GotoSelf, ReturnSelf DEF Tick, List, WorkerAdvance, AdvanceRead
<1>2. CASE AdvanceWrite(p) \/ IngestWrite(p) \/ Ingest(p)
    BY <1>2, GotoSelf, ReturnSelf DEF AdvanceWrite, Ingest, IngestWrite
<1>3. CASE Fault(p)
    BY <1>3, GotoSelf, ReturnSelf DEF Fault, ProviderFails, CollectFails, Abort
<1>4. CASE CallProvider(p)
    BY <1>4, CallSelf DEF Calling
<1>5. CASE \/ ReadContext(p, "read", "call") \/ ReadContext(p, "followup_read", "followup_call")
           \/ ObserveSignals(p) \/ Collect(p)
    BY <1>5, GotoSelf DEF ReadContext, ObserveSignals, Collect
<1>6. CASE PersistFailure(p) \/ Persist(p) \/ SignalWrite(p) \/ FollowupPersist(p)
    BY <1>6, GotoSelf, ReturnSelf DEF PersistFailure, Persist, SignalWrite, FollowupPersist
<1>7. CASE EvaluateContext(p) \/ RecordRead(p) \/ RecordWrite(p)
    BY <1>7, GotoSelf, ReturnSelf DEF EvaluateContext, RecordRead, RecordWrite
<1>8. CASE Begin(p)
    <2>1. ~RequestVerification(p)
        BY GotoSelf DEF RequestVerification
    <2>2. CASE RequestAdvance(p)
        BY <2>2, GotoSelf DEF RequestAdvance, AdvanceRead
    <2>3. CASE RequestReconcile(p)
        BY <2>3, GotoSelf DEF RequestReconcile
    <2>4. CASE RequestIngest(p)
        BY <2>4, GotoSelf DEF RequestIngest
    <2> QED BY <1>8, <2>1, <2>2, <2>3, <2>4 DEF Begin
<1> QED BY <1>1, <1>2, <1>3, <1>4, <1>5, <1>6, <1>7, <1>8 DEF Own, Serve, Reconcile

\* So no copy is ever stale.
FreshInv == Serial => \A p \in Procs : pc[p] \in Holding => held[p] = row

LEMMA NextFresh == TypeInv /\ AloneInv /\ FreshInv /\ [Next]_vars => FreshInv'
<1> SUFFICES ASSUME TypeInv, AloneInv, FreshInv, [Next]_vars, Serial,
                    NEW p \in Procs, pc'[p] \in Holding
             PROVE held'[p] = row'
    BY DEF FreshInv
<1>1. CASE UNCHANGED <<row, results, snapshots, pc, held, task, calls>>
    BY <1>1 DEF FreshInv
<1>2. CASE Own(p)
    BY <1>2, CopyOrigin DEF FreshInv
<1>3. pc'[p] # "idle"
    BY DEF Holding
<1> QED BY <1>1, <1>2, <1>3, SerialStep

LEMMA SerialInit == Init => AloneInv /\ FreshInv
BY DEF Init, AloneInv, FreshInv, Holding

----------------------------------------------------------------------------
(* Verdicts when operations do not overlap                                 *)

\* The integration can never be in advisory mode.
AlwaysActive ==
    Backend = "simulated" \/ ("advisory" \notin InitialModes /\ "mode" \notin RequestKinds)

ActiveInv == AlwaysActive => ~AdvisoryOnly(mode)

LEMMA NextActive == ActiveInv /\ [Next]_vars => ActiveInv'
BY ModeStep DEF ActiveInv, AlwaysActive, AdvisoryOnly

\* What the engine proposes is a decision on an execution under way, and not the one
\* recorded last.
LEMMA OpinionIsNews ==
    ASSUME NEW reply, Judged(reply) # NoProposal
    PROVE LET r == Judged(reply)
          IN /\ row.status \in Verifiable
             /\ r.engine /\ r.decision \in Decisions
             /\ results = << >> \/ results[Len(results)] # r
<1> DEFINE opinion == Opinion(row.status, reply, snapshots, results, Policy, SignalsRequired)
<1>1. Judged(reply) = opinion /\ ~DuplicateDecision(results, opinion) /\ opinion # NoProposal
    BY DEF Judged, Evaluate
<1>2. row.status \in Verifiable
    BY <1>1 DEF Opinion
<1>3. opinion.automated /\ opinion.engine /\ opinion.decision \in Decisions
    BY <1>1 DEF Opinion, SnapshotProposal, Automated, Decisions
<1> HIDE DEF opinion
<1>4. results = << >> \/ results[Len(results)] # opinion
    BY <1>1, <1>3 DEF DuplicateDecision, SameWords
<1> QED BY <1>1, <1>2, <1>3, <1>4

\* The engine's opinion is still news, and the execution still under way, when it is
\* recorded. Only a request to verify records something else.
VerdictInv ==
    Serial /\ AlwaysActive =>
        \A p \in Procs : pc[p] \in Recording =>
            LET r == task[p].proposal
            IN /\ r.engine => /\ row.status \in Verifiable
                              /\ r.decision \in Decisions
                              /\ (results = << >> \/ results[Len(results)] # r)
               /\ r.engine \/ "verify" \in RequestKinds

LEMMA NextVerdict ==
    TypeInv /\ AloneInv /\ ActiveInv /\ VerdictInv /\ [Next]_vars => VerdictInv'
<1> SUFFICES ASSUME TypeInv, AloneInv, ActiveInv, VerdictInv, [Next]_vars, Serial, AlwaysActive
             PROVE VerdictInv'
    BY DEF VerdictInv
<1> SUFFICES ASSUME NEW p \in Procs, pc'[p] \in Recording
             PROVE LET r == task'[p].proposal
                   IN /\ r.engine => /\ row'.status \in Verifiable
                                     /\ r.decision \in Decisions
                                     /\ (results' = << >> \/ results'[Len(results')] # r)
                      /\ r.engine \/ "verify" \in RequestKinds
    BY DEF VerdictInv
<1>1. pc'[p] # "idle"
    BY DEF Recording
<1>2. CASE UNCHANGED <<row, results, snapshots, pc, held, task, calls>>
    BY <1>2 DEF VerdictInv
<1>3. CASE Own(p)
    <2>1. UNCHANGED <<row, results>>
        BY <1>3, ProposalOrigin
    <2>2. \A r : Proposed(r) = r
        BY DEF Proposed, ActiveInv
    <2>3. CASE pc[p] = "record" /\ task'[p].proposal = Proposed(task[p].proposal)
        BY <2>1, <2>2, <2>3 DEF VerdictInv, Recording
    <2>4. CASE "verify" \in RequestKinds /\ ~task'[p].proposal.engine
        BY <2>4
    <2>5. ASSUME NEW reply \in BackendStatuses, Judged(reply) # NoProposal,
                 task'[p].proposal = Proposed(Judged(reply))
          PROVE LET r == task'[p].proposal
                IN /\ row.status \in Verifiable
                   /\ r.engine /\ r.decision \in Decisions
                   /\ results = << >> \/ results[Len(results)] # r
        BY <2>2, <2>5, OpinionIsNews
    <2> QED BY <1>3, <2>1, <2>3, <2>4, <2>5, ProposalOrigin
<1> QED BY <1>1, <1>2, <1>3, SerialStep

LEMMA NextNoRepeat ==
    ASSUME Serial, AlwaysActive
    PROVE TypeInv /\ VerdictInv /\ NoRepeatedVerdict /\ [Next]_vars => NoRepeatedVerdict'
<1> SUFFICES ASSUME TypeInv, VerdictInv, NoRepeatedVerdict, [Next]_vars
             PROVE NoRepeatedVerdict'
    OBVIOUS
<1>1. results \in Seq(Results)
    BY DEF TypeInv, SharedOK
<1>2. CASE results' = results
    BY <1>2 DEF NoRepeatedVerdict
<1>3. ASSUME NEW p \in Procs, pc[p] = "record_write", results' = Append(results, task[p].proposal)
      PROVE NoRepeatedVerdict'
    <2> DEFINE r == task[p].proposal
    <2>1. r.engine => results = << >> \/ results[Len(results)] # r
        BY <1>3 DEF VerdictInv, Recording
    <2> HIDE DEF r
    <2>2. results' = Append(results, r)
        BY <1>3 DEF r
    <2> SUFFICES ASSUME NEW i \in 2 .. Len(results'),
                        results'[i].engine, results'[i - 1].engine
                 PROVE results'[i] # results'[i - 1]
        BY DEF NoRepeatedVerdict
    <2>3. CASE i <= Len(results)
        BY <1>1, <2>2, <2>3 DEF NoRepeatedVerdict
    <2>4. CASE i = Len(results) + 1
        BY <1>1, <2>1, <2>2, <2>4
    <2> QED BY <1>1, <2>2, <2>3, <2>4
<1> QED BY <1>2, <1>3, NextData DEF DataStep, RowStep

\* When operations on an execution do not overlap and its integration may act, the two
\* deduplications (duplicateDecision, shouldSkipAutomatedVerificationRecord) leave no verdict that
\* repeats the one before it: none comes between the evaluation and the recording.
THEOREM VerdictsAreNews == ASSUME Serial, AlwaysActive PROVE Spec => []NoRepeatedVerdict
<1>1. Init => VerdictInv /\ ActiveInv /\ NoRepeatedVerdict
    BY RuntimeAssumption DEF Init, VerdictInv, Recording, ActiveInv, AlwaysActive, AdvisoryOnly,
                             NoRepeatedVerdict
<1> QED BY <1>1, TypeInvariance, SerialInit, NextAlone, NextActive, NextVerdict, NextNoRepeat,
           PTL DEF Spec

----------------------------------------------------------------------------
(* The budget of the rollback policy                                       *)

Lenient == {"pause", "manual_review_required"}

\* A verdict that leaves the rollout to an operator leaves budget, also when it is recorded.
PatienceInv ==
    Serial /\ Policy.maxFailures > 0 =>
        \A p \in Procs :
            pc[p] \in Recording /\ task[p].proposal.engine /\ task[p].proposal.decision \in Lenient
                => VerificationFailureCount(results) + 1 < Policy.maxFailures

Failures == {i \in DOMAIN results : results[i].decision \in Lenient \cup {"rollback", "failed"}}

LEMMA FailuresCounted ==
    ASSUME TypeInv
    PROVE /\ VerificationFailureCount(results) = Cardinality(Failures)
          /\ IsFiniteSet(Failures) /\ IsFiniteSet(Leniencies)
          /\ Cardinality(Failures) \in Nat /\ Cardinality(Leniencies) \in Nat
          /\ Cardinality(Leniencies) <= Cardinality(Failures)
<1>1. DOMAIN results = 1 .. Len(results) /\ Len(results) \in Nat
    BY DEF TypeInv, SharedOK
<1>2. IsFiniteSet(DOMAIN results)
    BY <1>1, FS_Interval
<1>3. Failures \subseteq DOMAIN results /\ Leniencies \subseteq Failures
    BY DEF Failures, Leniencies, Lenient
<1>4. IsFiniteSet(Failures) /\ IsFiniteSet(Leniencies)
    BY <1>2, <1>3, FS_Subset
<1>5. VerificationFailureCount(results) = Cardinality(Failures)
    <2>1. Failures = {i \in DOMAIN results :
            results[i].decision \in {"pause", "rollback", "failed", "manual_review_required"}}
        BY DEF Failures, Lenient
    <2> QED BY <2>1 DEF VerificationFailureCount
<1> QED BY <1>3, <1>4, <1>5, FS_Subset, FS_CardinalityType

\* The engine is lenient only while there is budget (engine.go:138).
LEMMA LenientWithinBudget ==
    ASSUME TypeInv, NEW reply, Judged(reply) # NoProposal, Judged(reply).decision \in Lenient,
           Policy.maxFailures > 0
    PROVE VerificationFailureCount(results) + 1 < Policy.maxFailures
<1> DEFINE n == Len(snapshots)
           s == snapshots[n]
           opinion == Opinion(row.status, reply, snapshots, results, Policy, SignalsRequired)
<1>1. Judged(reply) = opinion
    BY DEF Judged, Evaluate
<1>2. opinion = SnapshotProposal(s, n, results, Policy)
    BY <1>1 DEF Opinion, Automated, Lenient, NoProposal
<1> HIDE DEF opinion, s, n
<1>3. ~BudgetSpent(Policy, results)
    BY <1>1, <1>2 DEF SnapshotProposal, Automated, Lenient, NoProposal
<1>4. VerificationFailureCount(results) \in Nat /\ Policy.maxFailures \in Nat
    BY FailuresCounted, RuntimeAssumption
<1> QED BY <1>3, <1>4 DEF BudgetSpent

LEMMA LenientAdvice ==
    ASSUME NEW r \in Results, Proposed(r).decision \in Lenient
    PROVE Proposed(r) = r
BY DEF Proposed, AdvisoryVerificationRequest, AdvisoryDecision, Results, Lenient,
       AdvisoryDecisions, Decisions

LEMMA NextPatience ==
    TypeInv /\ AloneInv /\ PatienceInv /\ [Next]_vars => PatienceInv'
<1> SUFFICES ASSUME TypeInv, AloneInv, PatienceInv, [Next]_vars, Serial, Policy.maxFailures > 0,
                    NEW p \in Procs, pc'[p] \in Recording,
                    task'[p].proposal.engine, task'[p].proposal.decision \in Lenient
             PROVE VerificationFailureCount(results') + 1 < Policy.maxFailures
    BY DEF PatienceInv
<1>1. pc'[p] # "idle"
    BY DEF Recording
<1>2. CASE UNCHANGED <<row, results, snapshots, pc, held, task, calls>>
    BY <1>2 DEF PatienceInv
<1>3. CASE Own(p)
    <2>1. results' = results
        BY <1>3, ProposalOrigin
    <2>2. CASE pc[p] = "record" /\ task'[p].proposal = Proposed(task[p].proposal)
        <3>1. task[p].proposal \in Results
            BY <2>2 DEF TypeInv, LocalOK
        <3>2. task'[p].proposal = task[p].proposal
            BY <2>2, <3>1, LenientAdvice
        <3> QED BY <2>1, <2>2, <3>2 DEF PatienceInv, Recording
    <2>3. ASSUME NEW reply \in BackendStatuses, Judged(reply) # NoProposal,
                 task'[p].proposal = Proposed(Judged(reply))
          PROVE VerificationFailureCount(results) + 1 < Policy.maxFailures
        <3>1. Judged(reply) \in Results
            BY <2>3, EvaluateType DEF Judged, TypeInv, SharedOK
        <3>2. Judged(reply).decision \in Lenient
            BY <2>3, <3>1, LenientAdvice
        <3> QED BY <2>3, <3>2, LenientWithinBudget
    <2> QED BY <1>3, <2>1, <2>2, <2>3, ProposalOrigin
<1> QED BY <1>1, <1>2, <1>3, SerialStep

LEMMA NextBounded ==
    ASSUME Serial
    PROVE TypeInv /\ PatienceInv /\ PatienceIsBounded /\ [Next]_vars => PatienceIsBounded'
<1> SUFFICES ASSUME TypeInv, PatienceInv, PatienceIsBounded, [Next]_vars, Policy.maxFailures > 0
             PROVE Cardinality(Leniencies') < Policy.maxFailures
    BY DEF PatienceIsBounded
<1>1. Cardinality(Leniencies) < Policy.maxFailures
    BY DEF PatienceIsBounded
<1>2. CASE results' = results
    BY <1>1, <1>2 DEF Leniencies
<1>3. ASSUME NEW p \in Procs, pc[p] = "record_write", results' = Append(results, task[p].proposal)
      PROVE Cardinality(Leniencies') < Policy.maxFailures
    <2> DEFINE r == task[p].proposal
    <2>1. results \in Seq(Results) /\ results' = Append(results, r)
        BY <1>3 DEF TypeInv, SharedOK
    <2> HIDE DEF r
    <2> DEFINE n == Len(results) + 1
    <2>2. /\ DOMAIN results' = DOMAIN results \cup {n} /\ n \notin DOMAIN results
          /\ results'[n] = r /\ \A i \in DOMAIN results : results'[i] = results[i]
        BY <2>1
    <2> HIDE DEF n
    <2>3. CASE r.engine /\ r.decision \in Lenient
        <3>1. VerificationFailureCount(results) + 1 < Policy.maxFailures
            BY <1>3, <2>3 DEF PatienceInv, Recording, r
        <3>2. Leniencies' = Leniencies \cup {n}
            <4>1. ASSUME NEW i \in Leniencies' PROVE i \in Leniencies \cup {n}
                BY <2>2, <4>1, Zenon DEF Leniencies, Lenient
            <4>2. ASSUME NEW i \in Leniencies PROVE i \in Leniencies'
                BY <2>2, <4>2, Zenon DEF Leniencies, Lenient
            <4>3. n \in Leniencies'
                BY <2>2, <2>3, Zenon DEF Leniencies, Lenient
            <4> QED BY <4>1, <4>2, <4>3
        <3>3. IsFiniteSet(Leniencies) /\ Cardinality(Leniencies) \in Nat
            BY FailuresCounted
        <3>4. Cardinality(Leniencies \cup {n})
                = IF n \in Leniencies THEN Cardinality(Leniencies) ELSE Cardinality(Leniencies) + 1
            BY <3>3, FS_AddElement
        <3>5. Cardinality(Leniencies') <= Cardinality(Leniencies) + 1
            BY <3>2, <3>3, <3>4
        <3>6. Cardinality(Leniencies') \in Nat
            BY <3>2, <3>3, <3>4
        <3> QED BY <3>1, <3>5, <3>6, FailuresCounted, RuntimeAssumption
    <2>4. CASE ~(r.engine /\ r.decision \in Lenient)
        <3>1. Leniencies' = Leniencies
            BY <2>4, <2>2, Zenon DEF Leniencies, Lenient
        <3> QED BY <1>1, <3>1
    <2> QED BY <2>3, <2>4
<1> QED BY <1>2, <1>3, NextData DEF DataStep, RowStep

\* When operations on an execution do not overlap, the control loop leaves a rollout to its
\* operators fewer times than the budget of the rollback policy counts failures
\* (Engine.Evaluate), also in advisory mode and whatever clients record meanwhile.
THEOREM PatienceBounded == ASSUME Serial PROVE Spec => []PatienceIsBounded
<1>1. Init => PatienceInv
    BY DEF Init, PatienceInv, Recording
<1>2. Init => PatienceIsBounded
    <2> SUFFICES ASSUME Init PROVE Leniencies = {}
        BY FS_EmptySet DEF PatienceIsBounded
    <2> QED BY DEF Init, Leniencies
<1> QED BY <1>1, <1>2, TypeInvariance, SerialInit, NextAlone, NextPatience, NextBounded,
           PTL DEF Spec

----------------------------------------------------------------------------
(* The contract                                                            *)

Verdicts(stored) == [i \in DOMAIN stored |-> stored[i].decision]

LEMMA VerdictsAppend ==
    ASSUME NEW stored \in Seq(Results), NEW r \in Results
    PROVE Verdicts(Append(stored, r)) = Append(Verdicts(stored), r.decision)
<1> DEFINE left == Verdicts(Append(stored, r))
           right == Append(Verdicts(stored), r.decision)
           D == Decisions \cup AdvisoryDecisions
<1>1. \A x \in Results : x.decision \in D
    BY DEF Results
<1> HIDE DEF D
<1>2. Verdicts(stored) \in Seq(D) /\ Len(Verdicts(stored)) = Len(stored)
    BY <1>1 DEF Verdicts
<1>3. Append(stored, r) \in Seq(Results) /\ Len(Append(stored, r)) = Len(stored) + 1
    OBVIOUS
<1>4. left \in Seq(D) /\ Len(left) = Len(stored) + 1
    BY <1>1, <1>3 DEF Verdicts
<1>5. right \in Seq(D) /\ Len(right) = Len(stored) + 1
    BY <1>1, <1>2
<1>6. ASSUME NEW i \in 1 .. Len(stored) + 1 PROVE left[i] = right[i]
    <2>1. left[i] = Append(stored, r)[i].decision
        BY <1>3, <1>6 DEF Verdicts
    <2>2. CASE i <= Len(stored)
        <3>1. right[i] = Verdicts(stored)[i]
            BY <1>1, <1>2, <1>6, <2>2
        <3>2. Verdicts(stored)[i] = stored[i].decision
            BY <1>6, <2>2 DEF Verdicts
        <3> QED BY <1>6, <2>1, <2>2, <3>1, <3>2
    <2>3. CASE i = Len(stored) + 1
        <3>1. Append(Verdicts(stored), r.decision)[Len(Verdicts(stored)) + 1] = r.decision
            BY <1>1, <1>2
        <3>2. Append(stored, r)[Len(stored) + 1] = r
            OBVIOUS
        <3>3. i = Len(Verdicts(stored)) + 1
            BY <1>2, <2>3
        <3>4. right[i] = r.decision
            BY <3>1, <3>3
        <3> HIDE DEF left, right
        <3> QED BY <2>1, <2>3, <3>2, <3>4
    <2> HIDE DEF left, right
    <2>4. Len(stored) \in Nat
        OBVIOUS
    <2> QED BY <1>6, <2>2, <2>3, <2>4
<1> HIDE DEF left, right
<1>7. left = right
    BY <1>4, <1>5, <1>6
<1> QED BY <1>7 DEF left, right

\* The contract speaks of the same table, decisions and statuses.
LEMMA SameLifecycle ==
    /\ Contract!Statuses = Statuses /\ Contract!Actions = Actions
    /\ Contract!Transition = Transition
    /\ Contract!Verifiable = Verifiable /\ Contract!Decisions = Decisions
BY DEF Contract!Statuses, Statuses, Contract!Actions, Actions, Contract!Transition, Transition,
       Contract!Verifiable, Verifiable, Contract!Decisions, Decisions

LEMMA SameVerdicts == \A s, d : Contract!DecidedStatus(s, d) = DecidedStatus(s, d)
BY DEF Contract!DecidedStatus, DecidedStatus

LEMMA ContractInitially == Init => Contract!ContractInit
<1> SUFFICES ASSUME Init PROVE Contract!ContractInit
    OBVIOUS
<1>1. row.status \in {"planned", "awaiting_approval"}
    BY DEF Init, InitialRow, InitialExecutionStatus
<1>2. [i \in DOMAIN results |-> results[i].decision] = << >>
    BY DEF Init
<1> QED BY <1>1, <1>2 DEF Contract!ContractInit

\* Every step of the runtime is an action of the table, a verdict, or no step of the
\* contract's at all.
LEMMA ContractStep ==
    ASSUME Serial, AlwaysActive, "verify" \notin RequestKinds
    PROVE TypeInv /\ FreshInv /\ VerdictInv /\ [Next]_vars =>
            [Contract!ContractNext]_<<row.status, [i \in DOMAIN results |-> results[i].decision]>>
<1> SUFFICES ASSUME TypeInv, FreshInv, VerdictInv, [Next]_vars
             PROVE \/ Contract!Advance \/ Contract!Verify
                   \/ row'.status = row.status /\ results' = results
    BY DEF Contract!ContractNext
<1>0. \A p \in Procs : pc[p] \in Holding => held[p] = row
    BY DEF FreshInv
<1>1. row \in Rows
    BY DEF TypeInv, SharedOK
<1>2. CASE results' = results /\ row' = row
    BY <1>2
<1>3. ASSUME NEW p \in Procs, pc[p] \in Holding, results' = results, NEW reply,
             row' = held[p] \/ row' = WithReply(held[p], reply)
      PROVE row'.status = row.status
    BY <1>0, <1>1, <1>3 DEF WithReply, Rows
<1>4. ASSUME NEW p \in Procs, pc[p] \in Holding, results' = results,
             NEW action \in Actions, NEW next \in Statuses,
             <<held[p].status, action, next>> \in Transition,
             row' = AdvanceExecution(held[p], next)
      PROVE Contract!Advance
    <2>1. row'.status = next /\ <<row.status, action, next>> \in Transition
        BY <1>0, <1>1, <1>4 DEF AdvanceExecution, Rows
    <2> QED BY <1>4, <2>1, SameLifecycle DEF Contract!Advance
<1>5. ASSUME NEW p \in Procs, pc[p] = "record_write",
             results' = Append(results, task[p].proposal),
             row' = ApplyVerificationDecision(held[p], task[p].proposal.decision, Len(results) + 1)
      PROVE Contract!Verify
    <2>1. PICK r \in Results : r = task[p].proposal
        BY <1>5 DEF TypeInv, LocalOK
    <2>2. row.status \in Verifiable /\ r.decision \in Decisions
        BY <1>5, <2>1 DEF VerdictInv, Recording
    <2>3. held[p] = row
        BY <1>0, <1>5 DEF Holding
    <2>4. row'.status = DecidedStatus(row.status, r.decision)
        BY <1>1, <1>5, <2>1, <2>3 DEF ApplyVerificationDecision, Rows
    <2>5. results \in Seq(Results)
        BY DEF TypeInv, SharedOK
    <2>6. [i \in DOMAIN results' |-> results'[i].decision]
            = Append([i \in DOMAIN results |-> results[i].decision], r.decision)
        BY <1>5, <2>1, <2>5, VerdictsAppend DEF Verdicts
    <2> QED BY <2>2, <2>4, <2>6, SameLifecycle, SameVerdicts DEF Contract!Verify
<1> QED BY <1>2, <1>3, <1>4, <1>5, NextData DEF DataStep, RowStep, Holding

\* When operations on an execution do not overlap, its integration may act and nobody
\* verifies by hand, the runtime implements the contract: provider answers, failed calls,
\* signal writes, crashes between two writes and retries never move the status
\* (ReconcileRolloutExecution), only AdvanceRolloutExecution and a verdict recorded with it do.
THEOREM ContractImplemented ==
    ASSUME Serial, AlwaysActive, "verify" \notin RequestKinds
    PROVE Spec => ImplementsContract
<1>1. Init => VerdictInv /\ ActiveInv
    BY RuntimeAssumption DEF Init, VerdictInv, Recording, ActiveInv, AlwaysActive, AdvisoryOnly
<1> QED BY <1>1, ContractInitially, ContractStep, TypeInvariance, SerialInit, NextAlone,
           NextFresh, NextActive, NextVerdict,
           PTL DEF Spec, ImplementsContract, Contract!ContractSpec

=============================================================================
