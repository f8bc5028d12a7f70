----------------------------- MODULE Governance -----------------------------
(***************************************************************************)
(* From a change set to a rollout execution: risk assessments, policy      *)
(* decisions, plans, releases and the gates between them, in one           *)
(* organization, project and environment.                                  *)
(*                                                                         *)
(* A request is a chain of statements without a transaction: rows are      *)
(* judged by the policies that are stored when the judging starts, with    *)
(* copies of the service and the environment read earlier; the subject and *)
(* its decisions are written after that, one by one, and any statement may *)
(* be the last one.                                                        *)
(*                                                                         *)
(*   policies, releases       a row or Null per id                         *)
(*   service, environment     the rows the changes are assessed against    *)
(*   databaseBlocked          the verdict of database governance           *)
(*   assessments, plans, executions, decisions    rows are only added      *)
(*   request                  per actor: its step and the copies it holds  *)
(*   budget                   how many more requests may start             *)
(***************************************************************************)
EXTENDS PolicyEvaluation

CONSTANTS
    Actors,         \* API requests in flight
    Policies,       \* ids of policies
    PolicyRows,     \* rows a policy is given
    NewModes,       \* modes a policy is switched to
    Changes,        \* ids of change sets
    Facts,          \* the row of each change set; no handler updates one
    Services,       \* rows the service is given
    Environments,   \* rows the environment is given
    Releases,       \* ids of releases
    Bundles,        \* the sets of changes a release is given
    Configs,        \* whether the releases carry config sets
    Migrating,      \* the changes with a stored database change
    Owner,          \* the service of all changes
    Null,           \* no row, no reference
    MaxRequests     \* bound on requests

ASSUME GovernanceAssumption ==
    /\ PolicyRows \subseteq PolicyShape({Owner})
    /\ NewModes \subseteq Modes
    /\ \A c \in Changes : ChangeShape(Facts[c])
    /\ Services \subseteq ServiceShape /\ Environments \subseteq EnvironmentShape
    /\ Bundles \subseteq (SUBSET Changes) \ {{}}
    /\ Migrating \subseteq Changes /\ Configs \in BOOLEAN
    /\ MaxRequests \in Nat

VARIABLES policies, releases, service, environment, databaseBlocked,
          assessments, plans, executions, decisions, request, budget

facts == <<service, environment, databaseBlocked>>
ledger == <<assessments, plans, executions>>
vars == <<policies, releases, facts, ledger, decisions, request, budget>>

Steps == {"idle", "write_policy", "write_release", "judge_risk", "read_place", "judge_plan",
          "store_plan", "judge_execution", "store_execution", "read_release", "judge_release",
          "persist"}

Kinds == {"none", "policy", "assess", "plan", "execute", "release"}

Idle ==
    [kind |-> "none", step |-> "idle", policy |-> Null, row |-> Null, change |-> Null,
     release |-> Null, assessment |-> 0, plan |-> 0, place |-> Null, judged |-> {},
     pending |-> {}, todo |-> {}, next |-> "idle", standing |-> {}, known |-> {}]

\* The service and the environment, as a request reads them, and the empty rows a
\* failed read leaves it with.
Here == [service |-> service, environment |-> environment]

NoService ==
    [criticality |-> "low", customerFacing |-> FALSE, observability |-> FALSE,
     slo |-> FALSE, regulated |-> FALSE, dependents |-> 0]

NoEnvironment == [production |-> FALSE, regulated |-> FALSE, kind |-> "other"]

\* What is recorded of a decision: who decided on what, and how.
Decision(p, stage, change, r) ==
    [policy |-> p, stage |-> stage, mode |-> policies[p].mode, change |-> change,
     assessment |-> r.assessment, plan |-> r.plan, execution |-> 0, release |-> r.release]

Init ==
    /\ policies \in [Policies -> PolicyRows \cup {Null}]
    /\ releases \in [Releases -> Bundles \cup {Null}]
    /\ service \in Services
    /\ environment \in Environments
    /\ databaseBlocked = FALSE
    /\ assessments = << >> /\ plans = << >> /\ executions = << >>
    /\ decisions = {}
    /\ request = [a \in Actors |-> Idle]
    /\ budget = MaxRequests

----------------------------------------------------------------------------
(* Requests. standing (history): the policies that no one has touched      *)
(* since the request started, nor the facts they judge; known (history):   *)
(* the blocking decisions that were stored before it started.              *)

Blocking == {d \in decisions : d.mode = "block"}

Begin(a, r) ==
    /\ request[a].step = "idle"
    /\ budget > 0
    /\ budget' = budget - 1
    /\ request' = [request EXCEPT ![a] =
          [r EXCEPT !.standing = {p \in Policies : policies[p] # Null},
                    !.known = Blocking]]

At(a, step) == request[a].step = step

Advance(a, r) == request' = [request EXCEPT ![a] = r] /\ UNCHANGED budget

\* Another actor's write ends the standing of a policy, or of all of them.
Unsettle(touched, reqs) ==
    [a \in Actors |-> [reqs[a] EXCEPT !.standing = @ \ touched]]

Finish(a) == Advance(a, Idle)

\* The process ends, the client goes away, a statement fails.
Abandon(a) ==
    /\ ~At(a, "idle")
    /\ Finish(a)
    /\ UNCHANGED <<policies, releases, facts, ledger, decisions>>

----------------------------------------------------------------------------
(* Policies, services, environments: rows are written whole.               *)

BeginPolicyEdit(a, p) ==
    /\ Begin(a, [Idle EXCEPT !.kind = "policy", !.step = "write_policy",
                             !.policy = p, !.row = policies[p]])
    /\ UNCHANGED <<policies, releases, facts, ledger, decisions>>

\* A new policy, or the copy with another mode or switch than it was read with.
Patched(row) ==
    IF row = Null THEN PolicyRows
    ELSE {[row EXCEPT !.enabled = ~@]} \cup {[row EXCEPT !.mode = m] : m \in NewModes \ {row.mode}}

WritePolicy(a) ==
    LET r == request[a] IN
    /\ At(a, "write_policy")
    /\ r.row # Null \/ policies[r.policy] = Null
    /\ \E row \in Patched(r.row) :
          policies' = [policies EXCEPT ![r.policy] = row]
    /\ request' = Unsettle({r.policy}, [request EXCEPT ![a] = Idle])
    /\ UNCHANGED <<releases, facts, ledger, decisions, budget>>

\* UpdateService, UpdateEnvironment and the writers of database governance.
FactsChange ==
    /\ budget > 0
    /\ \/ service' \in Services \ {service} /\ UNCHANGED <<environment, databaseBlocked>>
       \/ environment' \in Environments \ {environment} /\ UNCHANGED <<service, databaseBlocked>>
       \/ databaseBlocked' = ~databaseBlocked /\ UNCHANGED <<service, environment>>
    /\ budget' = budget - 1
    /\ request' = Unsettle(Policies, request)
    /\ UNCHANGED <<policies, releases, ledger, decisions>>

----------------------------------------------------------------------------
(* Judging and recording *)

\* The enabled policies of a stage that hold of a change with these types.
Matching(stage, change, types, level, place) ==
    {p \in Policies :
        /\ policies[p] # Null
        /\ InScope(policies[p], Owner)
        /\ EvaluatePolicy(policies[p], stage, [Facts[change] EXCEPT !.types = types],
                          place.service, place.environment, level)}

Judge(stage, change, types, level, r) ==
    {Decision(p, stage, change, r) : p \in Matching(stage, change, types, level, r.place)}

LevelOf(assessment) == assessments[assessment].level

\* Decisions are inserted one by one, then the request goes on; one that ends with
\* them needs its copies no more.
Persisting(r, left, next) ==
    CASE left # {} -> [(IF next = "idle" THEN [Idle EXCEPT !.kind = r.kind] ELSE r)
                          EXCEPT !.step = "persist", !.pending = left, !.next = next]
      [] left = {} /\ next # "idle" -> [r EXCEPT !.step = next, !.pending = {}]
      [] OTHER -> Idle

Persist(a) ==
    LET r == request[a] IN
    /\ At(a, "persist")
    /\ \E d \in r.pending :
          /\ decisions' = decisions \cup {d}
          /\ Advance(a, Persisting(r, r.pending \ {d}, r.next))
    /\ UNCHANGED <<policies, releases, facts, ledger>>

----------------------------------------------------------------------------
(* Assessments and plans *)

Assessment(change) ==
    LET a == Assess(Facts[change], service, environment)
    IN [change |-> change, service |-> service, environment |-> environment,
        score |-> a.score, level |-> a.level, approval |-> a.approval,
        strategy |-> a.strategy, window |-> a.window, scope |-> a.scope]

\* POST /risk-assessments, and the first half of POST /rollout-plans: the rows that are
\* assessed are the ones the policies are asked about.
BeginAssessment(a, kind, change) ==
    /\ kind \in {"assess", "plan"}
    /\ assessments' = Append(assessments, Assessment(change))
    /\ Begin(a, [Idle EXCEPT !.kind = kind, !.step = "judge_risk", !.change = change,
                             !.assessment = Len(assessments) + 1, !.place = Here])
    /\ UNCHANGED <<policies, releases, facts, plans, executions, decisions>>

JudgeRisk(a) ==
    LET r == request[a]
        found == Judge("risk_assessment", r.change, Facts[r.change].types,
                       LevelOf(r.assessment), r)
    IN
    /\ At(a, "judge_risk")
    /\ Advance(a, Persisting([r EXCEPT !.judged = found], found,
                             IF r.kind = "plan" THEN "read_place" ELSE "idle"))
    /\ UNCHANGED <<policies, releases, facts, ledger, decisions>>

\* The planning half reads the rows anew and drops the errors: a row that cannot be
\* read is judged as an empty one, and then nothing is said of the policies that stand.
ReadPlace(a) ==
    LET r == request[a] IN
    /\ At(a, "read_place")
    /\ \E s \in {service, NoService}, e \in {environment, NoEnvironment} :
          LET place == [service |-> s, environment |-> e]
          IN Advance(a, [r EXCEPT !.step = "judge_plan", !.place = place,
                                  !.standing = IF place = Here THEN @ ELSE {}])
    /\ UNCHANGED <<policies, releases, facts, ledger, decisions>>

\* Slip: only the decisions of the planning stage are asked.
JudgePlanAlone(a) ==
    LET r == request[a]
        found == Judge("rollout_plan", r.change, Facts[r.change].types,
                       LevelOf(r.assessment), r)
    IN
    /\ At(a, "judge_plan")
    /\ IF IsBlocked(found)
       THEN Advance(a, Persisting(r, found, "idle"))
       ELSE Advance(a, [r EXCEPT !.step = "store_plan", !.judged = @ \cup found,
                                 !.pending = found])
    /\ UNCHANGED <<policies, releases, facts, ledger, decisions>>

\* A refused plan leaves its decisions behind, without a plan.
JudgePlan(a) ==
    LET r == request[a]
        found == Judge("rollout_plan", r.change, Facts[r.change].types,
                       LevelOf(r.assessment), r)
    IN
    /\ At(a, "judge_plan")
    /\ IF IsBlocked(r.judged \cup found)
       THEN Advance(a, Persisting(r, found, "idle"))
       ELSE Advance(a, [r EXCEPT !.step = "store_plan", !.judged = @ \cup found,
                                 !.pending = found])
    /\ UNCHANGED <<policies, releases, facts, ledger, decisions>>

StorePlan(a) ==
    LET r == request[a]
        id == Len(plans) + 1
        plan == Plan(Facts[r.change], r.place.service, r.place.environment,
                     assessments[r.assessment], IsReviewRequired(r.judged))
    IN
    /\ At(a, "store_plan")
    /\ plans' = Append(plans, [change |-> r.change, assessment |-> r.assessment,
                               plan |-> plan])
    /\ Advance(a, Persisting([r EXCEPT !.plan = id],
                             {[d EXCEPT !.plan = id] : d \in r.pending}, "idle"))
    /\ UNCHANGED <<policies, releases, facts, assessments, executions, decisions>>

----------------------------------------------------------------------------
(* Releases *)

\* What release governance has to judge: each change as part of the bundle and
\* in its window, its config sets by the change that is listed first (all are of
\* one service), each database change. The order of the stages is left open. The third
\* part is the assessment of the change, 0 until it is looked up.
Agenda(bundle, first) ==
    ({"release_bundle", "change_window"} \X bundle \X {0})
      \cup (IF Configs THEN {<<"config_set", first, 0>>} ELSE {})
      \cup ({"database_governance"} \X (bundle \cap Migrating) \X {0})

\* POST /releases, and PATCH with the row read here.
BeginRelease(a, rel) ==
    /\ Begin(a, [Idle EXCEPT !.kind = "release", !.step = "write_release", !.release = rel])
    /\ UNCHANGED <<policies, releases, facts, ledger, decisions>>

WriteRelease(a) ==
    LET r == request[a] IN
    /\ At(a, "write_release")
    /\ \E bundle \in Bundles : \E first \in bundle :
          /\ releases' = [releases EXCEPT ![r.release] = bundle]
          /\ Advance(a, [r EXCEPT !.step = "read_release", !.todo = Agenda(bundle, first)])
    /\ UNCHANGED <<policies, facts, ledger, decisions>>

\* The newest assessment of the change, or one that is made up and not stored.
LatestAssessment(change) ==
    LET of == {i \in DOMAIN assessments : assessments[i].change = change}
    IN IF of = {} THEN 0 ELSE CHOOSE i \in of : \A j \in of : j <= i

\* The rows and the assessments the whole release is judged with.
ReadRelease(a) ==
    LET r == request[a] IN
    /\ At(a, "read_release")
    /\ Advance(a, [r EXCEPT !.step = "judge_release", !.place = Here,
                            !.todo = {<<item[1], item[2], LatestAssessment(item[2])>> : item \in @}])
    /\ UNCHANGED <<policies, releases, facts, ledger, decisions>>

JudgeRelease(a) ==
    LET r == request[a] IN
    /\ At(a, "judge_release")
    /\ \/ \E item \in r.todo :
            LET stage == item[1]
                change == item[2]
                latest == item[3]
                level == IF latest = 0
                         THEN Assess(Facts[change], r.place.service, r.place.environment).level
                         ELSE LevelOf(latest)
                types == IF stage = "config_set" /\ "config" \notin Range(Facts[change].types)
                         THEN Append(Facts[change].types, "config")
                         ELSE Facts[change].types
                found == Judge(stage, change, types, level, [r EXCEPT !.assessment = latest])
            IN Advance(a, Persisting([r EXCEPT !.todo = @ \ {item}], found, "judge_release"))
       \/ r.todo = {} /\ Finish(a)
    /\ UNCHANGED <<policies, releases, facts, ledger, decisions>>

----------------------------------------------------------------------------
(* Executions *)

\* What the analysis of a release collects: the decisions on the release itself,
\* on its changes and their plans and assessments, and on its executions.
ReleaseDecisions(rel) ==
    {d \in decisions :
        \/ d.release = rel
        \/ d.change \in releases[rel]
        \/ d.execution # 0 /\ executions[d.execution].release = rel}

\* Slip: the decisions on the release are asked, not those on its changes.
OwnDecisions(rel) == {d \in decisions : d.release = rel}

ReleaseIsClearItself(rel) == ~IsBlocked(OwnDecisions(rel))

ReleaseIsClear(rel) == ~IsBlocked(ReleaseDecisions(rel))

ReleaseGate(rel, change) ==
    /\ releases[rel] # Null
    /\ change \in releases[rel]
    /\ ~databaseBlocked
    /\ ReleaseIsClear(rel)

\* The rows are read once the gate is passed. A request the gate refuses has no effect
\* and is left out.
BeginExecution(a, p, rel) ==
    /\ p \in DOMAIN plans
    /\ rel # Null => ReleaseGate(rel, plans[p].change)
    /\ Begin(a, [Idle EXCEPT !.kind = "execute", !.step = "judge_execution",
                             !.change = plans[p].change, !.plan = p, !.release = rel,
                             !.assessment = plans[p].assessment, !.place = Here])
    /\ UNCHANGED <<policies, releases, facts, ledger, decisions>>

JudgeExecution(a) ==
    LET r == request[a]
        found == Judge("rollout_execution", r.change, Facts[r.change].types,
                       LevelOf(r.assessment), r)
    IN
    /\ At(a, "judge_execution")
    /\ IF IsBlocked(found)
       THEN Advance(a, Persisting(r, found, "idle"))
       ELSE Advance(a, [r EXCEPT !.step = "store_execution", !.judged = found,
                                 !.pending = found])
    /\ UNCHANGED <<policies, releases, facts, ledger, decisions>>

\* Slip: a review that is asked for at this stage is only recorded.
InitialStatusOfPlan(plan, reviewed) ==
    IF plan.approvalRequired THEN "awaiting_approval" ELSE "planned"

InitialStatus(plan, reviewed) ==
    IF plan.approvalRequired \/ reviewed THEN "awaiting_approval" ELSE "planned"

\* Slip: the error of the insert is dropped, and the decisions name a row that is not there.
StoreExecutionUnchecked(a) ==
    LET r == request[a]
        id == Len(executions) + 1
    IN
    /\ At(a, "store_execution")
    /\ Advance(a, Persisting(r, {[d EXCEPT !.execution = id] : d \in r.pending}, "idle"))
    /\ UNCHANGED <<policies, releases, facts, ledger, decisions>>

StoreExecution(a) ==
    LET r == request[a]
        id == Len(executions) + 1
    IN
    /\ At(a, "store_execution")
    /\ executions' = Append(executions,
          [plan |-> r.plan, change |-> r.change, release |-> r.release,
           status |-> InitialStatus(plans[r.plan].plan, IsReviewRequired(r.judged))])
    /\ Advance(a, Persisting(r, {[d EXCEPT !.execution = id] : d \in r.pending}, "idle"))
    /\ UNCHANGED <<policies, releases, facts, assessments, plans, decisions>>

----------------------------------------------------------------------------
Next ==
    \/ FactsChange
    \/ \E a \in Actors :
        \/ \E p \in Policies : BeginPolicyEdit(a, p)
        \/ WritePolicy(a)
        \/ \E kind \in {"assess", "plan"}, c \in Changes : BeginAssessment(a, kind, c)
        \/ JudgeRisk(a)
        \/ ReadPlace(a)
        \/ JudgePlan(a)
        \/ StorePlan(a)
        \/ \E rel \in Releases : BeginRelease(a, rel)
        \/ WriteRelease(a)
        \/ ReadRelease(a)
        \/ JudgeRelease(a)
        \/ \E p \in DOMAIN plans, rel \in Releases \cup {Null} : BeginExecution(a, p, rel)
        \/ JudgeExecution(a)
        \/ StoreExecution(a)
        \/ Persist(a)
        \/ Abandon(a)

Spec == Init /\ [][Next]_vars
=============================================================================
