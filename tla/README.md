# A TLA+ verification development of change-control-plane

This directory models the control plane's protocols and decisions: the rollout
runtime (API handlers and control-loop workers driving one rollout execution
against a delivery provider and a signal source), the durable event outbox, the
integrations with their scheduled syncs, webhooks and discovery, the governance
that leads from a change set to an execution (risk, policies, plans, releases,
database posture), identity, and the catalog. TLC checks the models on small
instances; TLAPS proves every safety property those runs check, and the refinement
of the rollout contract, for every value of the constants. Paths below are relative
to the repository;
`src/` in `PROJECT.json` is the repository root.

    tlc  -config runtime_races.cfg MCRolloutRuntime.tla
    tlc  -config outbox_dispatch.cfg Outbox.tla
    tlc  -config integration_sync.cfg MCIntegrationSync.tla
    tlc  -config governance.cfg MCGovernance.tla
    tlapm RolloutRuntimeProofs.tla
    tlapm GovernanceProofs.tla

## 1. The system

A Go API server (`cmd/api`), one or more workers (`cmd/worker`), PostgreSQL (or
an in-memory store with the same operations) and outside systems: Kubernetes,
Prometheus, GitHub and GitLab. Processes share nothing but the database. No row
is ever locked across an outside call, there is no version column, and most
updates are "read the row, change the struct, write every column back where the
id matches". Almost everything that is hard about this program follows from
that sentence.

| Component | State | Operations | Hard behaviour | What makes it correct |
|---|---|---|---|---|
| Control loop (`internal/workflows/control_loop.go`, `cmd/worker`) | none; reads the tables every tick | dispatch the outbox, list executions, claim each, start or complete it automatically, reconcile it, run due integration syncs | several workers; acts on the listed status; stops anywhere | no action the current status does not allow; desired and actual state converge |
| Lifecycle (`internal/rollouts/lifecycle.go`) | the execution's status and timestamps | `AdvanceExecution`, `ApplyVerificationDecision` | a verification decision applies from any status | status moves by the table; finished executions have an end |
| Rollout runtime (`internal/app/runtime.go`, `operations.go`) | the `rollout_executions` row, verification results, signal snapshots | advance, record verification, ingest signals, reconcile | long read-to-write windows with outside calls in between; failures after any step | no mutation nobody asked for; approval and advisory mode respected; verdicts supported by evidence; bad signals heeded |
| Verification engine (`internal/verification`) | none (pure over the context) | `Evaluate` | repeated on every tick; failure budget; deduplication | no repeated verdict, no needed verdict suppressed |
| Delivery providers (`internal/delivery`) | the cluster | submit, sync, pause, resume, rollback | requests lost, or applied with the answer lost; statuses of two vocabularies | each call is idempotent or made once |
| Durable bus (`internal/events/bus.go`, `outbox_recovery.go`) | `outbox_events` | publish, claim, handle, save, retry, requeue | claims expire; unconditional save; recovery races dispatch | one dispatcher per event, nothing lost, settled events stay settled |
| Integration sync (`integrations_live.go`, `pilot_runtime_depth.go`) | the `integrations` row with schedule and claim, sync runs | scheduled and manual sync, webhook runs | whole-row write after discovery undoes `UpdateIntegration` | one sync per schedule; configuration survives a sync |
| SCM webhooks (`github_webhook.go`, `gitlab_webhook.go`, `scm.go`) | sync runs keyed by delivery id, changes, repositories | ingest a delivery | duplicated and concurrent deliveries | each delivery ingested once |
| Policies, risk, planner (`policies.go`, `internal/policies`, `internal/risk`, `internal/rollouts/planner.go`) | policies, assessments, plans, decisions | edit a policy, assess, plan, create an execution | policies change between judging and writing; decisions are written one by one | what stands is heeded; what is to be reviewed is reviewed first; riskier facts are not rated safer |
| Rollback policy resolution (`runtime_history.go`) | rollback policies | create, update, resolve the effective policy | scope precedence and ties | the narrowest enabled policy wins |
| Releases (`release_management.go`) | releases, config sets | bundle, edit, gate an execution, analyse | several rows of which one fails; analysis is computed anew with every read | a refused change is not carried past the gate |
| Database governance (`database_governance.go`, `database_execution.go`, `database_connection_health.go`) | connections, checks, changes, tests and executions | edit, test, execute, posture | rows held while the external database answers | what reads ready, passed or advisory rests on evidence |
| Sessions, identity, tokens (`internal/auth`, `enterprise_auth.go`, `browser_sessions.go`, `application.go`) | users, memberships, links, accounts, tokens, sessions | sign in and up, authenticate, issue, rotate, revoke | the credential is written back whole when it is used; look-up, then insert | withdrawn credentials stay out; one account per person |
| Catalog CRUD and HTTP (`application.go`, `operations.go`) | projects, teams, services, environments, change sets | create, update, archive, take in a change | stale updates; the trail follows in statements of its own | archived rows take no changes; every write leaves its trail |
| Discovery (`scm.go`, `discovery_helpers.go`, `discovery_provenance.go`) | repositories, discovered resources, relationships | sync, webhook, ingest, map by hand | whole-row writes across provider calls; guesses from names | a decided mapping outlives later guesses |
| Storage (`internal/storage`, `internal/app/store.go`) | the tables | one statement per method | which conditions a statement has | what the modelled operations rely on |
| Audit, status events, graph | append-only evidence | record | written after the business write | subscribers hear nothing that history does not show |
| CLI, web console, Python | none | clients | | |

Interactions. Workers and API handlers meet only in the database row. A
reconcile pass reads the row and its context, calls the provider, writes the
row, reads the context, collects signals, writes snapshots and the row, reads
again, evaluates, records a verdict in a transaction, and calls the provider a
second time. A request that changes the status may commit between any two of
these. Every recorded action publishes an outbox event in a statement of its
own after the business write; the tick dispatches events before it looks at
executions.

`PROJECT.json` lists under `hazards` every place where this goes wrong or could,
each at its line.

## 2. Modules

| Module | Models | Lines of code it follows |
|---|---|---|
| `RolloutLifecycle` | the transition table, the effect of an action and of a verdict on the row | `lifecycle.go` |
| `VerificationEngine` | `Evaluate`, policy breaches, the failure budget, both deduplications, the advisory rewriting of a verdict | `engine.go`, parts of `runtime.go`, `operations.go` |
| `DeliveryProvider` | which provider call a row leads to, what the simulated and the Kubernetes provider answer, what the call does to the deployment | `runtime.go:424`, `simulated.go`, `kubernetes.go` |
| `RolloutRuntime` | the composition: workers, API handlers, provider, signals, cluster and faults around one row | `runtime.go`, `operations.go`, `control_loop.go` |
| `RolloutContract` | the abstract specification: a status and the sequence of verdicts | what `lifecycle.go` promises |
| `RolloutProperties` | the properties of `RolloutRuntime` and the refinement to `RolloutContract` | |
| `PrometheusSignals` | what a collection's replies become, and which values breach | `prometheus.go` |
| `Incidents` | incidents, which are derived from executions | `application.go`, `release_management.go` |
| `MCRolloutRuntime` | the policies and signal sets the runs choose from; assumptions on the two modules above | |
| `RolloutRuntimeProofs` | theorems | |
| `Outbox` | the bus, its claims and manual recovery, with its properties | `bus.go`, `outbox_recovery.go`, `postgres_enterprise.go:242` |
| `OutboxProofs` | theorems | |
| `IntegrationSync` | one integration row: claim, schedule, syncs, configuration changes, webhook deliveries, with its properties | `integrations_live.go`, `pilot_runtime_depth.go`, `operations.go:380-578`, `github_webhook.go`, `gitlab_webhook.go`, `scm.go` |
| `IntegrationHealth` | configuration, freshness, error classes and coverage as functions of the row | `integrations_live.go`, `pilot_runtime_depth.go` |
| `WebhookRegistration` | the registration row and what its writers make of it | `webhook_registration.go`, `github_live.go`, `gitlab_live.go` |
| `MCIntegrationSync` | configurations and updates; assumptions on the two modules above | |
| `IntegrationSyncProofs` | theorems | |
| `Discovery` | repositories and resources found, guessed, mapped and related, with its properties | `scm.go`, `discovery_helpers.go`, `discovery_provenance.go`, `integrations_live.go` |
| `SourceEvents` | what a push, pull or merge request becomes | `github_live.go`, `gitlab_live.go`, `scm.go` |
| `MCDiscovery` | a catalog of two projects and its requests; assumptions on `SourceEvents` | |
| `DiscoveryProofs` | theorems | |
| `RiskEngine` | score, classes, approvals, strategy, plan | `risk/engine.go`, `planner.go` |
| `PolicyEvaluation` | how one policy judges one subject | `evaluator.go`, `policies.go` |
| `Governance` | the requests that assess, plan, bundle and execute | `application.go`, `policies.go`, `operations.go`, `release_management.go` |
| `GovernanceProperties`, `MCGovernance` | its properties; policies and facts of its run | |
| `GovernanceProofs` | theorems | |
| `DatabaseGovernance` | connections, tests, checks, executions, changes | `database_governance.go`, `database_execution.go`, `database_connection_health.go` |
| `DatabasePosture` | the posture as a function of the tables, and the properties | `database_governance.go` |
| `DatabasePostureProofs` | theorems | |
| `DatabaseChecks` | what a check may ask and the result it stores | `database_execution.go` |
| `ReleaseAnalysis` | config validation, combined risk, readiness, rollback guidance | `release_management.go` |
| `MCDatabasePosture` | checks and changes of its run; assumptions on the two modules above | |
| `Identity` | credentials and sign-ins, with its properties | `internal/auth`, `enterprise_auth.go`, `browser_sessions.go`, `application.go`, `operations.go` |
| `ProviderConfiguration` | endpoints, claims and state of an identity provider | `enterprise_auth.go` |
| `MCIdentity` | symmetry; assumptions on `ProviderConfiguration` | |
| `IdentityProofs` | theorems | |
| `Catalog` | catalog rows, change intake and the trail, with its properties | `application.go`, `operations.go` |
| `RollbackPolicies` | the policy that governs an execution | `runtime_history.go` |
| `MCCatalog` | the standing rows; assumptions on `RollbackPolicies` | |
| `CatalogProofs` | theorems | |

Modules with variables are state machines. `RiskEngine`, `PolicyEvaluation`,
`PrometheusSignals`, `Incidents`, `IntegrationHealth`, `WebhookRegistration`,
`SourceEvents`, `DatabaseChecks`, `ReleaseAnalysis`, `ProviderConfiguration` and
`RollbackPolicies` have none: they say what the code computes, and the MC modules
evaluate assumptions about them over every input of a small set (`ASSUME`, named,
each with the code it is about), which TLC does at the start of the run of that
module.

### RolloutRuntime

State: `row`, `results`, `snapshots` are the database; `mode` is the control
mode of the backend integration; `deploy` the Kubernetes deployment. A process
has a step `pc`, the copy of the row it `held`s and a `task` (the rest of its
local variables). `decided`, `calls` and `activeSeen` are history.

An operation is as many steps as it has points where another process can come
between: one per read, per outside call and per write. A write stores the held
copy with the columns the code assigns, which is how lost updates arise.

| Code | Steps |
|---|---|
| `RunOnce` | `List`, `Claim`, `WorkerAdvance` + `AdvanceWrite`, then the reconcile steps |
| `AdvanceRolloutExecution` | `RequestAdvance` (or `WorkerAdvance`), `AdvanceWrite` |
| `ReconcileRolloutExecution` | `ReadContext`, `CallProvider` or `ProviderFails`, `Persist` or `PersistFailure`; `ObserveSignals`, `Collect` or `CollectFails`, `SignalWrite` (Prometheus only); `EvaluateContext`; `RecordRead`, `RecordWrite`; `ReadContext`, `CallProvider`, `FollowupPersist` |
| `RecordVerificationResult` | `RequestVerification`, `RecordRead`, `RecordWrite` |
| `CreateSignalSnapshot` | `RequestIngest`, `Ingest`, `IngestWrite` |
| `UpdateIntegration` | `SwitchMode` |
| a process dies, a statement fails | `Abort` at any step |

Recording is one transaction, but under READ COMMITTED its read takes no lock:
hence two steps, the second of which inserts the result and writes the row
together.

Abstractions, beyond wording and layout:

- The SELECTs of one runtime context are read in one step. They are consecutive
  statements with no outside call between them.
- Progress, current step, error text, explanations and metadata are left out. A
  column is kept if a guard reads it: status, the two timestamps as set or not,
  whether an execution id is stored, the backend status, and the last result.
- A snapshot is its health and whether any value breaches the policy. A verdict
  is its decision, the reason it was given for (standing for outcome and text,
  which the deduplication compares), the snapshot it cites, whether it is marked
  automated, and whether the engine made it (history: a client may mark its own).
- Kubernetes answers in its own vocabulary (a deployment object or an empty
  body); an adapter that answers with a `SyncResult` of its own is not modelled,
  and a submit endpoint is taken as configured.
- A result recorded over the API is a report of the constant `Reports`: any
  decision, marked automated or not, citing any snapshot or none. The run has two: a person's
  "verified" and a pipeline's "rollback" that calls itself automated.
- A failure to resolve a provider and a failing call both end in
  `persistRuntimeFailure`; they are one action.
- Two workers' claims are ordered by their clocks: a loser that read its clock
  earlier gives up when the winner claims.
- Provider mutations are counted up to two.

### Outbox

A row has a status, a number of attempts, whether it is claimed and whether the
claim is older than two minutes, and whether its next attempt lies ahead.
`Claim` is the single UPDATE ... RETURNING; `Handle` runs the handlers of one
event of the batch (in any order: RETURNING promises none) with any outcome;
`Save` writes the whole row from the claimed copy; `Abandon` is a dispatcher that
dies or whose write fails. `RecoverRead` and `RecoverWrite` are the two halves
of retry and requeue. `ClaimAges` and `RetryComesDue` are time.

The handlers are outside the repository: only its tests call `Subscribe`, so an
event may be handled with any outcome.

### IntegrationSync

The row has five columns: enabled, scheduled, in control (mode is active control
and control is enabled), the claim and its age, and whether the next sync is
unset, lies ahead or is due. A process has a step, the copy of the row it read
and the run it will record. `trespassed` and `interrupted` are history: the
workers whose claim aged or was written over, and the deliveries whose handling
overlapped, was cut short or could not be looked up.

| Code | Steps |
|---|---|
| `ClaimIntegrationSync` | `ClaimSync`, one conditional UPDATE |
| `RunScheduledIntegrationSync` | `ReadRow`, `Persist` |
| `SyncIntegration`, `TestIntegrationConnection` | `RequestRun`, `Persist`: no claim |
| `UpdateIntegration` | `RequestUpdate`, `UpdateWrite` |
| `IngestIntegrationGraph` | `RequestGraph`, `GraphWrite`: the row as it was read, none of these columns assigned |
| `HandleGitHubWebhook`, `HandleGitLabWebhook` | `RequestWebhook`, `Lookup` or `LookupFails`, `Ingest`, `Persist` |
| a process dies, a statement fails | `Abort` at any step |
| time | `ClaimAges` (two minutes since the claim), `NextComesDue` |

`Persist` is `persistIntegrationRun`: the run and the whole row in one
transaction, the claim given up and the due time set anew, whatever kind of run
it was and however it ended.

Abstractions: status, health, freshness and failure counts are left out (they
move only the due time, which lies ahead in every case); a first due time is
"later or due", as it depends on when the last sync succeeded; a rejected
configuration writes nothing and is an `Abort`. A run is recorded as far as a
later lookup can find it, that is with an operation of two kinds: made of the
event header, or named by the parser. What a discovery finds is `Discovery`; the
GitHub onboarding (which writes the whole row, too) is not modelled, and neither
are deliveries without an id or with a bad signature.

### Discovery

A row is a repository, a Kubernetes workload or a Prometheus target with its
mapping, owner and status. `Hint` is what its name matches in the catalog.
`pinned` is history: the mapping an operator or an ingestion stored while nobody
else held a copy of the row.

| Code | Steps |
|---|---|
| a sync of one kind | `Sync`, per thing `Scan`, `Store` and, for a repository, `RefreshOwnership` (the second write, after the CODEOWNERS call); `EndScan`, `MarkMissing` per row, `Relate` per row |
| `ingestSCMWebhookChange` | `Webhook`, `Store`, `TakeIn` |
| `UpdateRepository`, `UpdateDiscoveredResource` | the action of that name, `StoreDecision`, `Relate` |
| `IngestIntegrationGraph` | the action of that name, `StoreDecision` |

The guesses keep the code's asymmetries: a workload's environment may come from
another project than its service, a target's template overrides what is stored,
an ingestion leaves the status empty. Relationships are never removed. A look-up
that fails does not end a sync: a workload or target whose row could not be read is
mapped from a blank one (`LookedUp`), the service or environment of a template that
could not be read is passed over (`Guesses`). A Prometheus collection without
snapshots marks nothing missing (`Missing`).

### Governance

One change may be assessed, planned, bundled into a release and executed by two
actors while policies, service and environment are edited. A request carries the
copies it read, the service and environment it judges with among them (`place`),
`standing` (the policies nobody touched since it began, while the service and the
environment are still those it judges with) and `known` (the blocking decisions
stored before it began).

| Code | Steps |
|---|---|
| `CreatePolicy`, `UpdatePolicy` | `BeginPolicyEdit`, `WritePolicy` |
| `AssessRisk` | `BeginAssessment`, `JudgeRisk`, `Persist` per decision |
| `CreateRolloutPlan` | the same, then `ReadPlace`, `JudgePlan`, `StorePlan`, `Persist` |
| `CreateRelease`, `UpdateRelease` | `BeginRelease`, `WriteRelease`, `ReadRelease`, `JudgeRelease` per stage, `Persist` |
| `CreateRolloutExecution` | `BeginExecution` (with the gate of the release), `JudgeExecution`, `StoreExecution`, `Persist` |
| `UpdateService`, `UpdateEnvironment`, the posture | `FactsChange` |

`ReadPlace` reads service and environment a second time and ignores the errors, as
the code does: a row that cannot be read is judged as an empty one (`NoService`,
`NoEnvironment`). The gate lists at most 200 decisions per change; that limit is not modelled. The
posture is a flag here and a function of the tables in `DatabasePosture`.

### DatabaseGovernance and DatabasePosture

A connection is its source and status, a check its shape (mode, phase, required),
connection and status, a change its facts and whether approval is demanded, the
environment its `production` flag. `probed`, `proved` and `lenient` (the changes
last written while the environment read was not a production one) are history.

| Code | Steps |
|---|---|
| edits of a connection or check | `BeginEditConnection`, `EditConnection`; `BeginEditCheck`, `EditCheck` |
| `TestDatabaseConnectionReference` | `BeginTest`, `AnnounceTest`, `Probe`, `StoreHealth` |
| `ExecuteDatabaseValidationCheck` | `BeginExecution`, `ExecuteValidation`, `StoreRunHealth`, `StoreCheck` |
| `CreateDatabaseChange`, `UpdateDatabaseChange` | `BeginCreateChange` or `BeginEditChange` (with the environment as it is read), `StoreChange` |
| `UpdateEnvironment` | the action of that name |

### Identity

One organization with one identity provider. Authentication is `ReadSession`,
`TouchSession` or `ReadToken`, `LoadAccount`, `StampToken`: read, judge, write
back whole. The sign-ins are `SignIn`; `BeginSignUp`, `Insert`, `Register`;
`BeginDevLogin`, `Bootstrap`; and the provider's
`StartIdentityProviderSignIn`, `ExchangeIdentityProviderCode` or `ExchangeFails`,
`FindPerson`, `Reconcile`, `Attribute`, each ending in `IssueBrowserSession`.
`Reconcile` is the transaction's writes; its reads are a step of their own
because READ COMMITTED locks nothing. An admitted request may create and
deactivate service accounts, issue, rotate and revoke tokens, revoke sessions and
switch or test the provider. `Reconcile` writes the columns it found, the password
among them. `withdrawn` is history: a credential that expired,
or was withdrawn while no authentication held its row.

### Catalog

`Create*` looks for the slug (`BeginCreate`) and inserts later (`Insert`);
`Update*` reads (`BeginUpdate`) and writes the whole row (`Store`);
`CreateChangeSet` reads its rows one by one (`CheckNext`) and stores
(`StoreChange`). Each goes on with `Audit`, `Status`, `Publish` (`PublishOnly`
where there is no status event), which are `record`. `trail` counts them per row.

In all of these `Abandon` is a request that ends after any statement, and
`MaxRequests` bounds how many requests may start.

## 3. Runs

`PROJECT.json` has the list. Every property of a passing run has a mutant, a
plausible slip in the code under which the run's own configuration finds it
violated.

**`runtime_races`** asks what no interleaving can break. One worker and one API
handler overlap freely on a Kubernetes-backed, Prometheus-watched execution that
needs approval; the integration starts in either mode and may switch. Three
requests, faults or switches may happen: enough for a request to commit in the
window of a pass, for a second one to meet the stale write it caused, and for a
fault or mode switch on top. Two snapshots and two results suffice for a signal
that arrives between the collection of another and the evaluation, for a verdict,
its repetition and a report of a client against it. The simulated pair of providers
differs only in answering without faults, so it is left to `runtime_serial`.

- `MutationsAreDecided`: no provider mutation is made for a desired status that
  nobody decided, even though stale rows are written and acted on.
- `ApprovalGate`: what needs approval is not submitted before it was approved,
  unless a client reported a result, which counts in any status.
- `AdvisoryHandsOff`: nothing mutates a cluster whose integration was never in
  active control.
- `TimestampsFollowStatus`: racing whole-row writes never separate a status from
  its timestamp.
- `VerdictsAreSupported`: a verdict of the control loop is borne out by the
  snapshot it cites, although signals arrive between collection and evaluation
  and clients report results that look like its own.

**`runtime_serial`** asks what holds when the operations on one execution do not
overlap, crashes included: the runtime implements `RolloutContract`
(`ImplementsContract`); no verdict is given twice running on the same snapshot;
the control loop pauses fewer times than the policy's budget counts failures
(`PatienceIsBounded`); and no critical signal is missed (`CriticalSignalIsHeeded`).
The policy gives the least reason to act: no action on critical signals and a
budget of three. Six disturbances, three snapshots and three results let a
critical signal be met by a pause, an operator resume what was paused, a second
signal say the same as the first, and the third failure roll back. What the
engine has judged it leaves to the operator (section 7), so the property asks for
a verdict on each newest critical snapshot, not for a pause that lasts.

**`runtime_converges`** asks whether the deployment ends up as desired when one
worker and an overlapping handler pause, resume and roll back with calls that
fail, are applied without an answer, or are made on a stale row. Three
disturbances allow two opposite requests and a fault between them. With two
workers it does not hold, in the code or in the model: two stale copies can be
written back alternately for ever, and `docs/architecture/control-loop.md:28`
says the claim is not a full distributed lock. The system is therefore checked
with the deployment the documentation describes, a single worker.

**`outbox_dispatch`** has two dispatchers, an operator, two events, a limit that
takes both in one batch, and two attempts: a batch can be abandoned halfway, a
claim overrun and reclaimed, and an event dead-lettered both by its last attempt
and by a permanent error. `ClaimMatchesStatus`, `ProcessedWasDelivered` and
`EventuallySettled` hold whatever overruns; `ClaimIsExclusive` and
`SettledStaysSettled` only for events whose claim was never overrun. Deadlock is
not checked: when every event is settled and the budget is spent the model stops.

**`integration_sync`** has two workers and two handlers on a GitHub integration
with one delivery, created in control or advisory and scheduled; three requests
(runs, configuration changes, reported graphs, deliveries) or faults. That is enough for two workers to meet at an aged claim while a
request writes in between, for one delivery to be handled twice at once or three
times in a row, and for a crash between its change set and its run.
`ScheduleIsConsistent` holds under every race; `SyncIsExclusive` for workers
whose claim is young and unwritten; `IngestedOnce` for deliveries that were not
handled twice at once or cut short; `DueSyncIsRun` whoever dies with the claim.
Deadlock is not checked: an integration without schedule and a spent budget
stops.

**`database_posture`** has two operators on one connection, one check of any of
three shapes and one change, which is harmless, locking, or destructive and
irreversible, in an environment that turns into a production one and back; four
edits, tests or executions. A test or an execution is overtaken by an edit of its
connection and of its check, twice; a change is created harmless and made risky, its
demand for approval is taken back, and the environment changes between the reading
and the write. Three sources, one of which resolves to nothing, tell an old probe
from a new one. A check is attested in two of the statuses, which stand for all. The
posture's inputs from the change sets (a schema touched without a database change)
are a constant, off here. `RiskIsReviewed` speaks of the changes last written for
production.

**`governance`** has two actors, one policy at a time of four kinds (a review of
risky plans, a freeze of blind services, a review of every execution, a freeze of
configuration changes in bundles; the first for production and high risk only), a
change with a schema, two services and two environments as facts, one release and
four requests: assess, plan and execute while one request edits the policy or the
facts, and plans of which either row cannot be read again. The stage of database
changes in a bundle is judged like that of config sets and is left out. `StandingPoliciesAreHeeded`
and `BlockedChangesStayBlocked` are properties of steps, the others of states.

**`identity`** has two concurrent requests of at most four, three users (one
with a password from the start), two persons of the provider, two addresses of
which one is in an allowed domain, one service account, two tokens, two
sessions: a revocation or deactivation in the middle of an authentication, a
rotation after it, and two sign-ins of one person, or of one address.

**`catalog`** has two concurrent requests of at most three on two rows of each
kind, of which one each stands, one of them archived: a creation that meets one
of the same slug, an update that meets an archive, a change set whose rows are
archived while they are read.

**`discovery`** has two at a time of five syncs, webhooks, ingestions and
updates over one repository, one workload and one target in two projects, with a
workload whose name and namespace match different projects. A mapping is decided
and then overtaken by a guess, a disappearance, a return and another decision, and
lost to a look-up that fails.

In these five runs deadlock is not checked: when the requests are spent, the
model stops.

Evaluated at the start of the runs are assumptions over bounded inputs. Those
that state what is promised: `NarrowestIsChosen` (`catalog`);
`RequiredKeysStay`, `BundleIsNoSafer`, `FindingsReachApprovers`,
`AcceptedChecksAreAnswered`, `NothingPassesUnproven`, `OddNamesAreRefused`
(`database_posture`); `WorstSignalDecides`, `OpenUntilRolledBack` (the runtime
runs); `RedeliveriesAreRecognised` (`discovery`); `TroubleIsShown`,
`AcceptedControlIsAllowed`, `KeptScheduleIsFresh` (`integration_sync`);
`ConfiguredEndpointsStay` (`identity`). The others record what the code does
where a reader might expect otherwise; section 7 lists them.

Two runs show where the code and its documentation part. Each checks the one
statement TLC refutes:

| Run | Statement | What happens |
|---|---|---|
| `decision_lost` | runtime writes leave manual decisions alone | a pass writes back the status it read before its provider call |
| `submission_missed` | what is started is submitted | while the execution waits for its approval a status request stores an execution id (`runtime.go:510`, `kubernetes.go:110`), and what has an id is not submitted (`runtime.go:427`). One approval, no fault and no overlap are needed |

### Fairness

Assumed: a worker keeps ticking and each tick goes on to its end
(`cmd/worker/main.go:29` is an endless ticker loop, a failed tick is followed by
the next, and the providers' HTTP clients time out after five seconds);
a request that was accepted is served to its end; the deployment controller
settles a rollout that is not paused; a dispatcher keeps dispatching, and time
passes (claims age, retries come due; that a sync comes due is not needed). Not assumed: that anybody sends a request,
switches a mode or recovers an event, or that any fault happens. Faults are
bounded by `MaxDisturbances`, which is the usual "once the faults stop".
In advisory mode every tick appends a result (neither deduplication applies);
`MaxResults` bounds that, and an operation at a bound ends as if the insert had
failed.

## 4. Proofs

All theorems hold for every value of the constants that meets the named
assumptions, which each module states where it declares the constants and TLC
evaluates on every run. They bound nothing: the number of workers, requests, rows,
things and people, the budgets, policies and facts are arbitrary. The assumptions
say no more than the types of the inputs (`RuntimeAssumption`, `OutboxAssumption`,
`SyncAssumption`, `DatabaseAssumption`, `PostureAssumption`, `GovernanceAssumption`,
`IdentityAssumption`, `DiscoveryAssumption`, `CatalogAssumption`), that ids of
different tables differ and that `Null` is neither an id nor a row (`NullIsNoRow`,
`IdentityValues`, `DiscoveryValues`, `CatalogValues`), which requests a client can
send (`DiscoveryRequests`), and that the rows a run starts from are ones the
catalog could have stored (`StandingIsConsistent`).

All invariants share one shape. A property of the stored rows is not inductive,
because what is written tomorrow is a copy that a request holds today; the
inductive invariant says of every held copy, and of what a request has yet to do,
what the property says of the rows. A `Type...` theorem comes first in each module
and carries the part of that which concerns shapes.

`RolloutRuntimeProofs`

- `TypeCorrect`: `Spec => []TypeOK`. `NextTypes` has one step per action.
- The other invariants follow from what any step may do to the data, stated once
  in `NextData`: a step changes the copies (`CopiesStep`), the row (`RowStep`) and
  the calls (`CallsStep`) only in one of a few ways. Each invariant is then
  preserved by these few ways, not by thirty actions.
- `MutationsDecided`: `MutationsAreDecided` alone is not inductive, since a call
  is made for the status of a *copy*. `DecidedInv` adds that the statuses of the
  row and of every held copy have been decided.
- `TimestampsConsistent`: likewise `StampedInv` says of every copy what the
  property says of the row; a stale write then stores a consistent pair.
- `ApprovalGateHolds`: `GateInv` says that, until an approval or a client's
  report, nothing but a rollback has been decided, and no process is about to
  record a verdict of the engine, which has no opinion on an execution that
  waits for approval or is rolled back (`NoOpinion`). With `MutationsDecided` this
  rules out a submit or a resume.
- `AdvisoryKeepsHandsOff`: `HandsOffInv` says that a process between context and
  provider call carries the advisory flag as long as active control was never
  seen.
- `VerdictsSupported`: `SupportInv` says of a verdict being recorded what the
  property says of the stored ones. `ProposalOrigin` lists where such a verdict can
  come from (a client's report, or the engine's opinion on what is stored at that moment),
  `OpinionIsSupported` that the engine's opinion follows the newest snapshot, and
  `SnapshotsGrow` that a snapshot, once stored, stays as it is.

The last three are about executions whose operations do not overlap (`Serial`),
with crashes and failing calls between any two steps. `AloneInv` says that one
process at most is under way, hence that nobody else steps while it is
(`OnlyStepper`), and `FreshInv` that no copy is stale. The hypothesis is needed:
TLC refutes each of the three properties on the instance of `runtime_serial` with
`Serial = FALSE`, where a stale copy is written back as in `decision_lost`.

- `PatienceBounded`: `PatienceInv` says of a verdict being recorded that, if it is
  one more pause, the verdicts stored so far leave room for it within the budget.
  The engine counted them in the context it read (`LenientWithinBudget`).
- `VerdictsAreNews`: `VerdictInv` says of a verdict being recorded that it is not the
  one recorded last and that the execution is still under way. It assumes that the
  integration can never be advisory (`AlwaysActive`), for both deduplications compare
  the decision and not its advisory form.
- `ContractImplemented`: the refinement of `RolloutContract`. `ContractInitially` maps
  the initial states; `ContractStep` maps every step to an action of the table, to a
  verdict, or to a stutter, again from the few ways of `RowStep`. It assumes that
  no client reports a result (no "verify" among `RequestKinds`), since a report is
  accepted in any status.

`OutboxProofs`

- `OutboxTypes`, `ClaimMatches`: `LocalInv` says that an outcome about to be
  written belongs to an event of the dispatcher's batch, and that a copy about to
  be recovered was in error or dead-lettered; the writes then produce rows whose
  status, claim and retry fit together.
- `ClaimExcludes`: `ClaimInv` says that, unless overrun, a claimed copy is the
  row, belongs to one dispatcher and carries a fresh claim.
- `SettledEventsStay`: the action property, from `ClaimInv`: an unconditional
  save can only meet its own claim, and a conditional recovery only the status
  it was read with.
- `ProcessedEventsWereDelivered`: `DeliveredInv` adds that a dispatcher holding
  outcome "ok" for an event has delivered it.

`IntegrationSyncProofs`

- `SyncTypes`, `ScheduleConsistent`: `TypeInv` asks of every held copy what the
  property asks of the row, so a stale write stores a consistent row.
- `SyncExclusive`: `ClaimInv` says that a worker nobody came between holds a
  fresh claim; a claim is granted only where there is none, and every whole-row
  write ends all the others (`WriteEndsClaims`).
- `GitHubIngestedOnce`: `OnceInv` relates the recorded runs, the handlers past
  the lookup and the change sets of a delivery. It needs that a run is recorded
  under the operation it is looked up by (`TaskInv`), which is what GitLab
  deliveries lack.

`DatabasePostureProofs`

- `TypeInvariance`: the tables are typed together with the copies (`CopyInv`) and the
  links of the checks (`LinkInv`).
- `ReadyConnectionsWereProbed`, `PassedChecksWereRun`: `ProbeInv` and `ProvenInv` say
  that a copy claims no more than what was probed or executed.
- `AdvisoryReleasesAreProven` follows from the two and the definition of the posture.
- `RiskyReleasesAreReviewed`: `ManualInv`; every write of a change decides again
  whether approval is demanded, by the environment it read. A change last written
  outside production is in `lenient` and outside the invariant.

`IdentityProofs`

- `OnePersonOneAccount`: from the unique keys of users and links, checked by the
  insert itself, and from the shape of a sign-in between look-up and write
  (`LocalInv`).
- `WithdrawnCredentialsStayOut`: `WithdrawalInv` relates three things: a withdrawn row
  reads withdrawn (`DeadRows`), nobody is about to write an older copy back
  (`NoLateCopies`), and a request that began after a withdrawal neither holds nor was
  admitted with that credential (`Unspent`). `CopiesStaySound` is the one lemma all
  steps of the authentication go through.

`DiscoveryProofs`

- `TypeInvariance`: the owner of a row is the team of its service, and a team is
  related to a thing only together with a service of that team, whoever wrote it.
- `DecisionsStand`: `PinInv` says that the row agrees with the mapping decided last and
  that no copy under way disagrees with it. Guesses only fill gaps of the copy they
  were made for; a look-up that fails ends what was decided (`Forget`).

`CatalogProofs`

- `TypeInvariance`: slugs stay unique although they are looked for in one statement and
  stored in a later one; the table's index decides (`UniqueSlug`).
- `SealedRowsStayArchived`: `SealInv` asks of every held copy of a sealed row that it is
  archived or was asked to be opened, and of every change intake that the sealed rows
  are among those still to be read. Intake is `CreateChangeSet`; the change sets of
  webhooks belong to `Discovery` and ask for no status.
- `WritesAreAccountedFor`: `CountInv` balances, per row, the writes against the trail and
  the requests that are still to write it, by cardinalities (`Counting`).

`GovernanceProofs`

- `TypeInvariance`: `TypeInv` has the tables, the references between them, and what every
  request holds at its step.
- `ReviewsComeFirst`: `ReviewInv` says where a review that was asked for has reached: its
  plan, or every request that is still to store that plan; its execution, or the request
  that is to insert it. It needs that nobody else plans for the same assessment
  (`Alone`).
- `StandingPoliciesHold`: the action property, from `HeedInv`: what still stands is
  judged with rows that are still the stored ones, has been heard at the stages the
  request has behind it, and a block has stopped it. A row that could not be read
  again leaves nothing standing.
  That a change has a latest assessment is shown by the least-number principle for sets
  (`LeastNumber`), as the library's induction theorems take an operator.
- `RefusalsStand`: the action property, from `ClearedInv`: the gate has asked for every
  refusal the request knows of.
- `RiskIsMonotone`: the score is a sum of named terms (`TypeScore`, `TouchScore`, ...),
  each of which is shown not to fall where the place is riskier.

Only model-checked: everything under fairness (`OperatorDecisionsConverge`,
`CriticalSignalIsHeeded`, `EventuallySettled`, `DueSyncIsRun`), which is out of
the prover's reach. What the modules without variables compute is evaluated over
bounded inputs and not proved, `RiskEngine` and the posture apart: most of it folds
over sequences, which are inductions over data. No module declares a recursive
operator.

## 5. Plan

Done: the modules above, and a theorem for every invariant and every action
property a passing run checks. Next:

1. Lemmas about the modules without variables whose statements need no induction:
   `RollbackPolicies` (`NarrowestIsChosen`), `PrometheusSignals`
   (`WorstSignalDecides`), `IntegrationHealth` (`AcceptedControlIsAllowed`,
   `KeptScheduleIsFresh`) and `ProviderConfiguration` (`ConfiguredEndpointsStay`), of
   which TLC evaluates bounded instances now.
2. An abstract specification of the outbox (an event is pending, then settled once) and
   of the sync schedule, which the detailed ones refine for dispatchers and workers that
   are not overrun.
3. The GitHub App onboarding and the webhook registration composed with the writes of
   `IntegrationSync`, which all share rows.

## 6. Not modelled, and why

- CLI, web console, live-proof tools and Python analysis: clients of the API
  without state of the control plane.
- HTTP routing, decoding and encoding, project roles and list queries: one
  request, no state; authorisation is modelled only where it decides who may
  withdraw a credential.
- The HTTP clients of GitHub, GitLab, Kubernetes, Prometheus and identity
  providers, signatures and password hashing: outside I/O and cryptography.
  Their effects are inputs.
- Queries, presentation and scope inference of audit and status events, evidence
  packs, redaction: pure functions of rows that nothing modelled reads.
- The in-memory store: its operations have the semantics of the SQL ones under a
  lock; where they differ the PostgreSQL store is the reference.
- Change windows: compared with the clock and only reported.
- Query building and scanning in `internal/storage`: pure I/O.

## 7. What the models show of the code

Behaviour a reader may not expect, which the models contain and no run states as
a property: no document denies it, the documents speak of something narrower, or
an assumption over bounded inputs says it in full (a document it differs from is
named).

Races and stale rows:

- A sync's end writes the integration row it began with, control mode included;
  an operator who made the integration advisory meanwhile is overruled
  (`integrations_live.go:541`).
- An authentication under way undoes a revocation of its token or session
  (`auth/service.go:198`); an update under way undoes an archive
  (`operations.go:121`); a stale policy row re-enables a policy; a sign-in
  through a provider, or a test of it, writes the provider's row whole and so
  undoes its being switched off.
- A rollback on Kubernetes is issued again on every other pass (`runtime.go:431`).
- An execution resumed after a pause goes on under the same critical snapshot: the
  engine's next verdict would repeat the last one (`engine.go:232`). And where passes
  overlap, each may count the failures before the other's verdict is stored, so the
  budget bounds the pauses only of executions whose operations do not overlap.
- A callback of an identity provider writes the user row it looked up, and a
  password that a sign-up stored in between is gone (`enterprise_auth.go:492`).
- A graph ingestion writes back the integration row it began with
  (`operations.go:988`), as a sync does.
- A risky database change written before its environment became a production one
  keeps its routine review until it is written again (`operations.go:336`).
- Two webhook registrations at once make two hooks (`OverlappingRegistrations`).

Failed reads:

- A sync that cannot read the stored row of a workload or a target goes on from a
  blank one, and its guesses replace what was decided (`discovery_helpers.go:132`,
  `282`).
- A plan whose service or environment cannot be read a second time is judged
  against empty rows, which a policy for production does not match
  (`application.go:1554`).

Decisions:

- A rollback policy for a service and one for an environment are equally
  specific (`runtime_history.go:264`, `ServiceAndEnvironmentTie`), where
  `docs/architecture/automatic-rollback.md:14-20` lists an order. A limit of 0
  unhealthy instances turns into "no limit" when a policy is created, not when it
  is updated.
- Outside production a change of high risk is recommended for self-service.
- Only the first entry of a repeated key of a config set is validated
  (`RepeatedKeyIsUnchecked`), and a revision turns blocked by its successor
  (`OldRevisionTurnsBlocked`). Such blockers are listed and not enforced.
- A sample that is not a number reads healthy, a throughput without samples
  breaches, one failed query loses a collection (`NotANumberReadsHealthy`,
  `MissingThroughputIsABreach`, `OneFailureLosesAll`).
- An incident disappears with the status it is derived from, and advice that is
  not carried out makes none (`IncidentsVanish`, `AdviceIsNoIncident`).

Integrations:

- A push to GitHub is judged by its head commit if that names files
  (`EarlierCommitsAreMissed`); a review whose files cannot be fetched looks
  routine (`LostFilesLookRoutine`); every action on a review becomes a change set
  (`EveryActionIsAChange`).
- A redelivery from GitLab is never recognised: it is looked up as
  `gitlab.webhook.push_hook` and its run is recorded as `gitlab.webhook.push`
  (`gitlab_webhook.go:56`, `gitlab_live.go:331`), so it makes a second change set
  (`GitLabRedeliveriesAreMissed`). `docs/architecture/gitlab-integration.md:55` says
  "dedupes by `X-Gitlab-Event-UUID` or fallback request id".
- A delivery makes a registration read "registered" without a hook, and the
  redelivery of a failed one clears its error (`RegisteredWithoutAHook`,
  `RedeliveryHidesFailure`).
- A longer interval makes an integration read stale between successful runs, and
  one that never succeeded is never stale (`LongerIntervalReadsStale`,
  `NeverSucceededIsNeverStale`).
- A guessed environment may belong to another project than the guessed service
  (`discovery_helpers.go:345`); webhooks store change sets for archived or mixed
  scopes; relationships are never removed.
- A discovery document that lacks endpoints tests healthy
  (`HealthyWithoutEndpoints`), and the first mapped group in the claim decides the
  role (`FirstMappedGroupDecides`).
