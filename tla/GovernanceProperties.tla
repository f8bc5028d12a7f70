------------------------ MODULE GovernanceProperties ------------------------
(***************************************************************************)
(* What policies, assessments and release gates promise to the rollouts    *)
(* that come out of Governance.                                            *)
(***************************************************************************)
EXTENDS Governance

Ids(rows) == {0} \cup DOMAIN rows

\* Every stored row has its shape and refers to rows that are stored: an assessment,
\* a plan, an execution or a decision never names one that was not written before it.
TypeOK ==
    /\ policies \in [Policies -> PolicyShape({Owner}) \cup {Null}]
    /\ releases \in [Releases -> Bundles \cup {Null}]
    /\ service \in Services /\ environment \in Environments
    /\ databaseBlocked \in BOOLEAN /\ budget \in 0..MaxRequests
    /\ \A i \in DOMAIN assessments :
          assessments[i].change \in Changes /\ assessments[i].level \in Range(Levels)
    /\ \A i \in DOMAIN plans : plans[i].assessment \in DOMAIN assessments
    /\ \A i \in DOMAIN executions : executions[i].plan \in DOMAIN plans
    /\ \A d \in decisions :
          /\ d.policy \in Policies /\ d.stage \in Stages /\ d.mode \in Modes
          /\ d.change \in Changes /\ d.assessment \in Ids(assessments)
          /\ d.plan \in Ids(plans) /\ d.execution \in Ids(executions)
          /\ d.release \in Releases \cup {Null}
    /\ \A a \in Actors : request[a].step \in Steps /\ request[a].kind \in Kinds

----------------------------------------------------------------------------
\* The policies that stood, unedited and over unedited facts, while the request of
\* actor a ran, and that hold of its change at one of the stages.
StandingFor(a, stages, mode) ==
    LET r == request[a] IN
    \E p \in r.standing, stage \in stages :
        /\ policies[p].mode = mode
        /\ p \in Matching(stage, r.change, Facts[r.change].types, LevelOf(r.assessment), Here)

PlanStages == {"risk_assessment", "rollout_plan"}

\* evaluatePolicies reads the policies twice while a plan is made and once for an
\* execution, minutes may pass and other requests edit them in between. Whatever the
\* interleaving, a policy nobody touched meanwhile is heeded: a blocking one lets
\* neither a plan nor an execution through, one that asks for a review gets it. The
\* rows a plan is judged with are read without looking at the error
\* (application.go:1554): a plan for which that failed is exempt.
StandingPoliciesAreHeeded ==
    [][\A a \in Actors :
         /\ (Len(plans') > Len(plans) /\ At(a, "store_plan") /\ request'[a] # request[a]) =>
              /\ ~StandingFor(a, PlanStages, "block")
              /\ StandingFor(a, PlanStages, "require_manual_review") =>
                   plans'[Len(plans')].plan.approvalRequired
         /\ (Len(executions') > Len(executions) /\ At(a, "store_execution")
               /\ request'[a] # request[a]) =>
              /\ ~StandingFor(a, {"rollout_execution"}, "block")
              /\ StandingFor(a, {"rollout_execution"}, "require_manual_review") =>
                   executions'[Len(executions')].status = "awaiting_approval"]_vars

\* A decision that asks for a review and the plan or execution it was taken for are
\* written by different statements, and the risk stage knows neither: however they
\* are cut short, an execution any recorded review is about starts awaiting approval,
\* and so does one whose production change was assessed above low.
ReviewsPrecedeExecution ==
    \A i \in DOMAIN executions :
        LET e == executions[i]
            assessed == plans[e.plan].assessment
        IN (\/ \E d \in decisions :
                 /\ d.mode = "require_manual_review"
                 /\ \/ d.execution = i
                    \/ d.stage \in PlanStages /\ d.assessment = assessed
            \/ assessments[assessed].environment.production /\ LevelOf(assessed) # "low")
           => e.status = "awaiting_approval"

\* A refused plan leaves blocking decisions on its change, and they are never taken
\* back: the gate collects them by change, so a release never carries the change to
\* an execution in a request made after the refusal, whatever is done to the policy,
\* the plans or the bundle since.
BlockedChangesStayBlocked ==
    [][\A a \in Actors :
         (Len(executions') > Len(executions) /\ At(a, "store_execution")
            /\ request'[a] # request[a] /\ request[a].release # Null) =>
              \A d \in request[a].known : d.change # request[a].change]_vars

\* No fact about the environment or the service is safer in x than in y.
NoSaferThan(x, y) ==
    /\ x.environment.production = y.environment.production
    /\ KindPoints[x.environment.kind] >= KindPoints[y.environment.kind]
    /\ y.environment.regulated => x.environment.regulated
    /\ CriticalityPoints[x.service.criticality] >= CriticalityPoints[y.service.criticality]
    /\ y.service.customerFacing => x.service.customerFacing
    /\ x.service.observability => y.service.observability
    /\ x.service.slo => y.service.slo
    /\ y.service.regulated => x.service.regulated

Place(approval) == CHOOSE i \in 1..Len(Approvals) : Approvals[i] = approval

\* The score is a sum of a dozen hand-written terms: two assessments of a change that
\* were stored around an edit of its service or environment are ordered as the facts
\* are, and in production so are the approvers the engine recommends.
RiskFollowsFacts ==
    \A i, j \in DOMAIN assessments :
        LET x == assessments[i]
            y == assessments[j]
        IN (x.change = y.change /\ NoSaferThan(x, y)) =>
             /\ x.score >= y.score
             /\ x.environment.production => Place(x.approval) >= Place(y.approval)
=============================================================================
