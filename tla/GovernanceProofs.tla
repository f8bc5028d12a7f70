-------------------------- MODULE GovernanceProofs --------------------------
(***************************************************************************)
(* Theorems about Governance, for any policies, changes and facts, and for *)
(* any number of requests under way.                                       *)
(***************************************************************************)
EXTENDS GovernanceProperties, SequenceTheorems, FiniteSetTheorems, WellFoundedInduction, TLAPS

----------------------------------------------------------------------------
(* Numbers. The least-number principle for sets, by the well-foundedness   *)
(* of the order of the natural numbers.                                    *)

Below == OpToRel(<, Nat)

LEMMA LeastNumber ==
    ASSUME NEW T \in SUBSET Nat, T # {}
    PROVE \E x \in T : \A y \in T : x <= y
<1>1. IsWellFoundedOn(Below, Nat)
    BY NatLessThanWellFounded DEF Below
<1>2. \A x, y \in Nat : x < y => <<x, y>> \in Below
    BY DEF Below, OpToRel
<1> HIDE DEF Below
<1>3. PICK x \in T : \A y \in T : ~(<<y, x>> \in Below)
    BY <1>1, WFMin
<1>4. ASSUME NEW y \in T PROVE x <= y
    <2>1. ~(y < x)
        BY <1>2, <1>3, <1>4
    <2> QED BY <2>1
<1> QED BY <1>4

LEMMA GreatestNumber ==
    ASSUME NEW n \in Nat, NEW T, T # {}, T \subseteq 1..n
    PROVE \E x \in T : \A y \in T : y <= x
<1> DEFINE U == {m \in Nat : \A y \in T : y <= m}
<1>1. n \in U
    OBVIOUS
<1>2. PICK x \in U : \A y \in U : x <= y
    BY <1>1, LeastNumber
<1>3. x \in Nat /\ \A y \in T : y <= x
    BY <1>2
<1>4. x \in T
    <2> SUFFICES ASSUME x \notin T PROVE FALSE
        OBVIOUS
    <2>1. PICK t : t \in T
        OBVIOUS
    <2>2. x - 1 \in Nat
        BY <1>3, <2>1
    <2>3. ASSUME NEW y \in T PROVE y <= x - 1
        <3>1. y \in Nat /\ y <= x /\ y # x
            BY <1>3
        <3> QED BY <1>3, <3>1
    <2>4. x - 1 \in U
        BY <2>2, <2>3
    <2> QED BY <1>2, <1>3, <2>4
<1> QED BY <1>3, <1>4

----------------------------------------------------------------------------
(* Shapes. An assessment is one of some change against some facts, a plan  *)
(* one of some assessment.                                                 *)

AssessmentOf(c, s, e) ==
    LET a == Assess(Facts[c], s, e)
    IN [change |-> c, service |-> s, environment |-> e,
        score |-> a.score, level |-> a.level, approval |-> a.approval,
        strategy |-> a.strategy, window |-> a.window, scope |-> a.scope]

AssessmentRows == {AssessmentOf(c, s, e) : c \in Changes, s \in Services, e \in Environments}

PlaceRows ==
    [service : Services \cup {NoService}, environment : Environments \cup {NoEnvironment}]

PlanRows ==
    [change : Changes, assessment : Nat,
     plan : {Plan(Facts[c], place.service, place.environment, a, reviewed) :
               c \in Changes, place \in PlaceRows, a \in AssessmentRows, reviewed \in BOOLEAN}]

ExecutionRows ==
    [plan : Nat, change : Changes, release : Releases \cup {Null},
     status : {"awaiting_approval", "planned"}]

Judgements ==
    [policy : Policies, stage : Stages, mode : Modes, change : Changes, assessment : Nat,
     plan : Nat, execution : Nat, release : Releases \cup {Null}]

ReleaseStages == {"release_bundle", "change_window", "config_set", "database_governance"}

Requests ==
    [kind : Kinds, step : Steps, policy : Policies \cup {Null},
     row : PolicyShape({Owner}) \cup {Null}, change : Changes \cup {Null},
     release : Releases \cup {Null}, assessment : Nat, plan : Nat,
     place : PlaceRows \cup {Null}, judged : SUBSET Judgements, pending : SUBSET Judgements,
     todo : SUBSET (ReleaseStages \X Changes \X Nat), next : Steps, standing : SUBSET Policies,
     known : SUBSET Judgements]

LEMMA LevelNames == Range(Levels) = {"low", "medium", "high", "critical"}
BY DEF Levels, Range

LEMMA LevelTypes == ASSUME NEW score PROVE Classify(score) \in Range(Levels)
BY LevelNames DEF Classify

\* What an assessment holds.
LEMMA AssessmentShape ==
    ASSUME NEW row \in AssessmentRows
    PROVE /\ row.change \in Changes /\ row.service \in Services /\ row.environment \in Environments
          /\ row.score = Score(Facts[row.change], row.service, row.environment)
          /\ row.level = Classify(row.score) /\ row.level \in Range(Levels)
          /\ row.approval = RecommendedApproval(row.level, row.environment.production,
                                                Regulated(row.service, row.environment))
<1>1. PICK c \in Changes, s \in Services, e \in Environments : row = AssessmentOf(c, s, e)
    BY DEF AssessmentRows
<1> QED BY <1>1, LevelTypes DEF AssessmentOf, Assess

LEMMA PlanShape ==
    ASSUME NEW row \in PlanRows
    PROVE row.plan.approvalRequired \in BOOLEAN
<1>1. PICK c \in Changes, place \in PlaceRows, a \in AssessmentRows, reviewed \in BOOLEAN :
         row.plan = Plan(Facts[c], place.service, place.environment, a, reviewed)
    BY DEF PlanRows
<1> QED BY <1>1 DEF Plan, RequiresApproval

----------------------------------------------------------------------------
(* Types. What a request is going to write names stored rows.              *)

\* The ids of the assessments, plans and executions that are stored.
Stored == [assessments |-> DOMAIN assessments, plans |-> DOMAIN plans,
           executions |-> DOMAIN executions]

Names(d, stored) ==
    /\ d.assessment \in {0} \cup stored.assessments /\ d.plan \in {0} \cup stored.plans
    /\ d.execution \in {0} \cup stored.executions

\* On its way from an assessment to a plan of it.
Planning(r) ==
    \/ r.step \in {"judge_risk", "read_place", "judge_plan", "store_plan"}
    \/ r.step = "persist" /\ r.next = "read_place"

Executing(r) == r.step \in {"judge_execution", "store_execution"}

Sound(r, stored) ==
    /\ r \in Requests
    /\ \A d \in r.judged \cup r.pending : Names(d, stored)
    /\ r.assessment \in {0} \cup stored.assessments /\ r.plan \in {0} \cup stored.plans
    /\ Planning(r) \/ Executing(r) => r.change \in Changes /\ r.assessment \in stored.assessments
    /\ Planning(r) => r.place \in PlaceRows
    /\ Executing(r) => r.plan \in stored.plans
    /\ \A item \in r.todo : item[3] \in {0} \cup stored.assessments
    /\ r.step = "judge_risk" => r.judged = {}
    /\ r.step = "write_policy" => r.policy \in Policies
    /\ r.step = "write_release" => r.release \in Releases
    /\ r.step = "persist" => r.next \in {"idle", "read_place", "judge_release"}

Tables ==
    /\ policies \in [Policies -> PolicyShape({Owner}) \cup {Null}]
    /\ releases \in [Releases -> Bundles \cup {Null}]
    /\ service \in Services /\ environment \in Environments
    /\ databaseBlocked \in BOOLEAN /\ budget \in 0..MaxRequests

Ledger ==
    /\ assessments \in Seq(AssessmentRows)
    /\ plans \in Seq(PlanRows) /\ executions \in Seq(ExecutionRows)
    /\ \A i \in DOMAIN plans : plans[i].assessment \in DOMAIN assessments
    /\ \A i \in DOMAIN executions : executions[i].plan \in DOMAIN plans
    /\ decisions \subseteq Judgements /\ \A d \in decisions : Names(d, Stored)

InFlight == request \in [Actors -> Requests] /\ \A a \in Actors : Sound(request[a], Stored)

TypeInv == Tables /\ Ledger /\ InFlight

\* Rows are only added.
Grown ==
    /\ DOMAIN assessments \subseteq DOMAIN assessments'
    /\ DOMAIN plans \subseteq DOMAIN plans' /\ DOMAIN executions \subseteq DOMAIN executions'
    /\ \A i \in DOMAIN assessments : assessments'[i] = assessments[i]
    /\ \A i \in DOMAIN plans : plans'[i] = plans[i]
    /\ \A i \in DOMAIN executions : executions'[i] = executions[i]

LEMMA TypesHold == TypeInv => TypeOK
<1> SUFFICES ASSUME TypeInv PROVE TypeOK
    OBVIOUS
<1>1. \A i \in DOMAIN assessments : assessments[i] \in AssessmentRows
    BY ElementOfSeq, LenProperties DEF TypeInv, Ledger
<1>2. \A i \in DOMAIN assessments :
         assessments[i].change \in Changes /\ assessments[i].level \in Range(Levels)
    BY <1>1, AssessmentShape
<1>3. \A d \in decisions :
         /\ d.policy \in Policies /\ d.stage \in Stages /\ d.mode \in Modes
         /\ d.change \in Changes /\ d.release \in Releases \cup {Null} /\ Names(d, Stored)
    BY DEF TypeInv, Ledger, Judgements
<1>4. \A a \in Actors : request[a].step \in Steps /\ request[a].kind \in Kinds
    BY DEF TypeInv, InFlight, Requests
<1> QED BY <1>2, <1>3, <1>4 DEF TypeOK, TypeInv, Tables, Ledger, Names, Stored, Ids

LEMMA SoundStays ==
    ASSUME Grown, NEW r, Sound(r, Stored)
    PROVE Sound(r, Stored')
<1>1. /\ Stored.assessments \subseteq Stored'.assessments /\ Stored.plans \subseteq Stored'.plans
      /\ Stored.executions \subseteq Stored'.executions
    BY DEF Grown, Stored
<1>2. \A d \in r.judged \cup r.pending : Names(d, Stored')
    BY <1>1 DEF Sound, Names
<1> QED BY <1>1, <1>2 DEF Sound

LEMMA NamesStay ==
    ASSUME Grown, NEW d, Names(d, Stored)
    PROVE Names(d, Stored')
BY DEF Grown, Names, Stored

LEMMA InFlightStays ==
    ASSUME TypeInv, Grown, NEW a \in Actors, NEW q, Sound(q, Stored'),
           request' = [request EXCEPT ![a] = q]
    PROVE InFlight'
<1>1. request' \in [Actors -> Requests]
    BY DEF TypeInv, InFlight, Sound
<1>2. ASSUME NEW b \in Actors PROVE Sound(request'[b], Stored')
    <2>1. CASE b = a
        BY <2>1 DEF TypeInv, InFlight
    <2>2. CASE b # a
        <3>1. Sound(request[b], Stored) /\ request'[b] = request[b]
            BY <2>2 DEF TypeInv, InFlight
        <3> QED BY <3>1, SoundStays
    <2> QED BY <2>1, <2>2
<1> QED BY <1>1, <1>2 DEF InFlight

LEMMA SameGrown == UNCHANGED ledger => Grown /\ Stored' = Stored
BY DEF ledger, Grown, Stored

LEMMA IdleSound ==
    ASSUME NEW stored
    PROVE /\ Sound(Idle, stored) /\ Idle \in Requests /\ Idle.step = "idle" /\ Idle.next = "idle"
          /\ Idle.judged = {} /\ Idle.pending = {} /\ Idle.assessment = 0 /\ Idle.plan = 0
          /\ Idle.release = Null /\ Idle.todo = {} /\ Idle.place = Null
<1>1. Idle \in Requests
    BY DEF Idle, Requests, Kinds, Steps
<1> QED BY <1>1 DEF Idle, Sound, Planning, Executing

LEMMA InitTypes == Init => TypeInv
<1> SUFFICES ASSUME Init PROVE TypeInv
    OBVIOUS
<1>1. InFlight
    BY IdleSound DEF Init, InFlight
<1>2. Tables
    <2>1. policies \in [Policies -> PolicyShape({Owner}) \cup {Null}]
        BY GovernanceAssumption DEF Init
    <2>2. MaxRequests \in Nat
        BY GovernanceAssumption
    <2>3. releases \in [Releases -> Bundles \cup {Null}] /\ service \in Services
          /\ environment \in Environments /\ databaseBlocked = FALSE /\ budget = MaxRequests
        BY DEF Init
    <2>4. budget \in 0..MaxRequests
        <3>1. budget = MaxRequests
            BY <2>3
        <3> QED BY <2>2, <3>1
    <2>5. databaseBlocked \in BOOLEAN
        BY <2>3, Zenon
    <2> QED BY <2>1, <2>3, <2>4, <2>5, Zenon DEF Tables
<1> DEFINE none == << >>
<1>3. /\ none \in Seq(AssessmentRows) /\ none \in Seq(PlanRows)
      /\ none \in Seq(ExecutionRows) /\ DOMAIN none = {}
    OBVIOUS
<1>4. assessments = none /\ plans = none /\ executions = none /\ decisions = {}
    BY DEF Init
<1> HIDE DEF none
<1>5. Ledger
    BY <1>3, <1>4 DEF Ledger
<1> QED BY <1>1, <1>2, <1>5 DEF TypeInv

\* What a request that begins is given besides.
LEMMA BeginShape ==
    ASSUME TypeInv, NEW a \in Actors, NEW r, Sound(r, Stored), Begin(a, r),
           UNCHANGED <<policies, releases, facts>>
    PROVE /\ Sound([r EXCEPT !.standing = {p \in Policies : policies[p] # Null},
                             !.known = Blocking], Stored)
          /\ Tables'
<1> DEFINE q == [r EXCEPT !.standing = {p \in Policies : policies[p] # Null},
                          !.known = Blocking]
<1>1. budget' \in 0..MaxRequests
    <2>1. MaxRequests \in Nat /\ budget \in 0..MaxRequests /\ budget > 0 /\ budget' = budget - 1
        BY GovernanceAssumption DEF Begin, TypeInv, Tables
    <2> QED BY <2>1
<1>2. Tables'
    BY <1>1 DEF TypeInv, Tables, facts
<1>3. Blocking \subseteq Judgements
    BY DEF Blocking, TypeInv, Ledger
<1>4. /\ q \in Requests /\ q.step = r.step /\ q.next = r.next /\ q.change = r.change
      /\ q.assessment = r.assessment /\ q.plan = r.plan /\ q.place = r.place
      /\ q.judged = r.judged /\ q.pending = r.pending /\ q.todo = r.todo
      /\ q.policy = r.policy /\ q.release = r.release
    BY <1>3 DEF Sound, Requests
<1> HIDE DEF q
<1>5. Sound(q, Stored)
    BY <1>4 DEF Sound, Planning, Executing
<1> QED BY <1>2, <1>5 DEF q

----------------------------------------------------------------------------
(* Judging and recording                                                   *)

\* What a stage decides on a change, and that no matching policy is passed over.
LEMMA JudgeShape ==
    ASSUME TypeInv, NEW stage \in Stages, NEW change \in Changes, NEW types, NEW level,
           NEW r \in Requests, r.assessment \in {0} \cup Stored.assessments,
           r.plan \in {0} \cup Stored.plans,
           NEW found, found = Judge(stage, change, types, level, r)
    PROVE /\ found \subseteq Judgements
          /\ \A d \in found : /\ Names(d, Stored)
                              /\ d.stage = stage /\ d.change = change
                              /\ d.assessment = r.assessment /\ d.execution = 0
          /\ \A p \in Matching(stage, change, types, level, r.place) :
                \E d \in found : d.mode = policies[p].mode
<1>1. ASSUME NEW p \in Matching(stage, change, types, level, r.place)
      PROVE /\ Decision(p, stage, change, r) \in Judgements
            /\ Names(Decision(p, stage, change, r), Stored)
    <2>1. p \in Policies /\ policies[p] # Null
        BY <1>1 DEF Matching
    <2>2. policies[p].mode \in Modes
        BY <2>1 DEF TypeInv, Tables, PolicyShape
    <2>3. r.assessment \in Nat /\ r.plan \in Nat /\ r.release \in Releases \cup {Null}
        BY DEF Requests
    <2> QED BY <2>1, <2>2, <2>3 DEF Decision, Judgements, Names
<1>2. \A d \in found : \E p \in Matching(stage, change, types, level, r.place) :
         d = Decision(p, stage, change, r)
    BY DEF Judge
<1>3. \A p \in Matching(stage, change, types, level, r.place) :
         /\ Decision(p, stage, change, r) \in found
         /\ Decision(p, stage, change, r).mode = policies[p].mode
    BY DEF Judge, Decision
<1>4. \A d \in found : /\ d.stage = stage /\ d.change = change
                       /\ d.assessment = r.assessment /\ d.execution = 0
    BY <1>2 DEF Decision
<1> QED BY <1>1, <1>2, <1>3, <1>4

LEMMA PersistingShape ==
    ASSUME NEW r \in Requests, NEW left \in SUBSET Judgements,
           NEW next \in {"idle", "read_place", "judge_release"},
           NEW q, q = Persisting(r, left, next)
    PROVE /\ q \in Requests /\ q.pending = left /\ q.next \in {"idle", next, r.next}
          /\ next = "idle" => /\ q.step \in {"idle", "persist"} /\ q.next = "idle"
                              /\ q.judged = {} /\ q.assessment = 0 /\ q.plan = 0
                              /\ q.todo = {}
          /\ next # "idle" => /\ q.judged = r.judged /\ q.assessment = r.assessment
                              /\ q.plan = r.plan /\ q.change = r.change
                              /\ q.release = r.release /\ q.todo = r.todo
                              /\ q.place = r.place
                              /\ q.standing = r.standing /\ q.known = r.known
                              /\ \/ q.step = "persist" /\ q.next = next
                                 \/ q.step = next /\ q.pending = {}
<1> DEFINE idle == [Idle EXCEPT !.kind = r.kind]
           base == IF next = "idle" THEN idle ELSE r
<1>1. /\ idle \in Requests /\ idle.next = "idle" /\ idle.judged = {} /\ idle.assessment = 0
      /\ idle.plan = 0 /\ idle.todo = {}
    BY IdleSound DEF Requests
<1> HIDE DEF idle
<1>2. base \in Requests /\ (next = "idle" => base = idle) /\ (next # "idle" => base = r)
    BY <1>1
<1>3. CASE left # {}
    <2>1. q = [base EXCEPT !.step = "persist", !.pending = left, !.next = next]
        BY <1>3 DEF Persisting, idle
    <2>2. next \in Steps
        BY DEF Steps
    <2> HIDE DEF base
    <2>3. /\ q \in Requests /\ q.step = "persist" /\ q.pending = left /\ q.next = next
          /\ q.judged = base.judged /\ q.assessment = base.assessment /\ q.plan = base.plan
          /\ q.change = base.change /\ q.release = base.release /\ q.todo = base.todo
          /\ q.place = base.place
          /\ q.standing = base.standing /\ q.known = base.known
        BY ZenonT(60), <1>2, <2>1, <2>2 DEF Requests, Steps
    <2> QED BY <1>1, <1>2, <2>3
<1>4. CASE left = {} /\ next # "idle"
    <2>1. q = [r EXCEPT !.step = next, !.pending = {}]
        BY <1>4 DEF Persisting
    <2> QED BY <1>4, <2>1 DEF Requests, Steps
<1>5. CASE left = {} /\ next = "idle"
    <2>1. q = Idle
        BY <1>5 DEF Persisting
    <2> QED BY <1>5, <2>1, IdleSound
<1> QED BY <1>3, <1>4, <1>5

LEMMA PersistingSound ==
    ASSUME NEW stored, NEW r \in Requests, NEW left \in SUBSET Judgements,
           NEW next \in {"idle", "read_place", "judge_release"},
           \A d \in r.judged \cup left : Names(d, stored),
           r.assessment \in {0} \cup stored.assessments, r.plan \in {0} \cup stored.plans,
           \A item \in r.todo : item[3] \in {0} \cup stored.assessments,
           next = "read_place" => /\ r.change \in Changes /\ r.assessment \in stored.assessments
                                  /\ r.place \in PlaceRows
    PROVE Sound(Persisting(r, left, next), stored)
<1> DEFINE q == Persisting(r, left, next)
<1>1. /\ q \in Requests /\ q.pending = left
      /\ next = "idle" => /\ q.step \in {"idle", "persist"} /\ q.next = "idle"
                          /\ q.judged = {} /\ q.assessment = 0 /\ q.plan = 0 /\ q.todo = {}
      /\ next # "idle" => /\ q.judged = r.judged /\ q.assessment = r.assessment
                          /\ q.plan = r.plan /\ q.change = r.change
                          /\ q.todo = r.todo /\ q.place = r.place
                          /\ \/ q.step = "persist" /\ q.next = next
                             \/ q.step = next /\ q.pending = {}
    BY PersistingShape
<1> SUFFICES Sound(q, stored)
    OBVIOUS
<1> HIDE DEF q
<1>2. CASE next = "idle"
    <2>1. ~Planning(q) /\ ~Executing(q)
        BY <1>1, <1>2 DEF Planning, Executing
    <2>2. \A d \in q.judged \cup q.pending : Names(d, stored)
        BY <1>1, <1>2
    <2> QED BY <1>1, <1>2, <2>1, <2>2 DEF Sound
<1>3. CASE next # "idle"
    <2>1. /\ ~Executing(q) /\ (Planning(q) => next = "read_place")
          /\ q.step = "persist" => q.next = next
          /\ q.step \in {"persist", "read_place", "judge_release"}
        BY <1>1, <1>3 DEF Planning, Executing
    <2>2. \A d \in q.judged \cup q.pending : Names(d, stored)
        BY <1>1, <1>3
    <2> QED BY <1>1, <1>3, <2>1, <2>2 DEF Sound
<1> QED BY <1>2, <1>3

----------------------------------------------------------------------------
(* Reviews, standing policies, refusals                                    *)

\* A review that was asked for reaches the execution it was recorded for; asked for
\* while a plan was made, it reaches that plan.
Reviewed(d) == d.mode = "require_manual_review" =>
    /\ d.execution # 0 => executions[d.execution].status = "awaiting_approval"
    /\ d.stage \in PlanStages =>
         /\ \A i \in DOMAIN plans :
               plans[i].assessment = d.assessment => plans[i].plan.approvalRequired = TRUE
         /\ \A a \in Actors :
               Planning(request[a]) /\ request[a].assessment = d.assessment
                 => IsReviewRequired(request[a].judged)

\* Nobody else plans for the assessment, and nobody has.
Alone(a) ==
    /\ \A i \in DOMAIN plans : plans[i].assessment # request[a].assessment
    /\ \A b \in Actors \ {a} :
          Planning(request[b]) => request[b].assessment # request[a].assessment

AboveLow(assessment) ==
    assessments[assessment].environment.production = TRUE /\ LevelOf(assessment) # "low"

ReviewInv ==
    /\ \A d \in decisions : Reviewed(d)
    /\ \A a \in Actors : \A d \in request[a].pending : Reviewed(d)
    /\ \A a \in Actors : At(a, "store_execution") => request[a].pending \subseteq request[a].judged
    /\ \A a \in Actors : Planning(request[a]) => Alone(a)
    /\ \A i \in DOMAIN executions :
          plans[executions[i].plan].plan.approvalRequired = TRUE
            => executions[i].status = "awaiting_approval"
    /\ \A i \in DOMAIN plans :
          AboveLow(plans[i].assessment) => plans[i].plan.approvalRequired = TRUE

\* The stages a request has judged its change at.
Heard(r) ==
    IF r.step = "store_plan" THEN PlanStages
    ELSE IF r.step = "store_execution" THEN {"rollout_execution"}
    ELSE IF Planning(r) /\ r.step # "judge_risk" THEN {"risk_assessment"}
    ELSE {}

\* Whatever still stands has been heard, of the rows that still are, and what forbids
\* the next write has stopped it.
Heeding(r) ==
    /\ \A p \in r.standing, stage \in Heard(r) :
          p \in Matching(stage, r.change, Facts[r.change].types, LevelOf(r.assessment), r.place)
            => \E d \in r.judged : d.mode = policies[p].mode
    /\ Planning(r) \/ Executing(r) => r.standing = {} \/ r.place = Here
    /\ r.step \in {"store_plan", "store_execution"} => ~IsBlocked(r.judged)

HeedInv == \A a \in Actors : Heeding(request[a])

\* The gate has asked what the request knows.
Cleared(r) ==
    Executing(r) /\ r.release # Null => \A d \in r.known : d.change # r.change

ClearedInv == \A a \in Actors : Cleared(request[a])

Inv == TypeInv /\ ReviewInv /\ HeedInv /\ ClearedInv

\* A request goes on from x to y as another one writes: it keeps all but some standing.
Same(x, y) ==
    /\ y.step = x.step /\ y.next = x.next /\ y.change = x.change
    /\ y.assessment = x.assessment /\ y.judged = x.judged /\ y.pending = x.pending
    /\ y.place = x.place /\ y.release = x.release /\ y.known = x.known /\ y.standing \subseteq x.standing

\* It goes on planning only for the same assessment and forgets no review; what it is
\* going to record is of this assessment.
Follows(x, y) ==
    /\ Planning(y) => /\ Planning(x) /\ y.assessment = x.assessment
                      /\ IsReviewRequired(x.judged) => IsReviewRequired(y.judged)
    /\ \A d \in y.pending :
          \/ d \in x.pending
          \/ /\ d.execution = 0
             /\ d.stage \in PlanStages =>
                   /\ Planning(x) /\ d.assessment = x.assessment
                   /\ Planning(y) => d \in y.judged
    /\ y.step = "store_execution" => y.pending \subseteq y.judged

LEMMA SameFollows ==
    ASSUME NEW x, NEW y, Same(x, y), x.step = "store_execution" => x.pending \subseteq x.judged
    PROVE Follows(x, y)
BY DEF Same, Follows, Planning

LEMMA ReviewedStays ==
    ASSUME TypeInv, UNCHANGED <<plans, executions>>,
           \A b \in Actors : Follows(request[b], request'[b]), NEW d, Reviewed(d)
    PROVE Reviewed(d)'
<1>1. ASSUME NEW b \in Actors, Planning(request'[b])
      PROVE /\ Planning(request[b]) /\ request'[b].assessment = request[b].assessment
            /\ IsReviewRequired(request[b].judged) => IsReviewRequired(request'[b].judged)
    BY <1>1 DEF Follows
<1> QED BY <1>1 DEF Reviewed

LEMMA ReviewStep ==
    ASSUME TypeInv, ReviewInv, Grown, UNCHANGED <<plans, executions>>,
           \A b \in Actors : Follows(request[b], request'[b]),
           \A d \in decisions' : d \in decisions \/ \E b \in Actors : d \in request[b].pending
    PROVE ReviewInv'
<1>1. \A d : Reviewed(d) => Reviewed(d)'
    BY ReviewedStays
<1>2. \A d \in decisions' : Reviewed(d)'
    BY <1>1 DEF ReviewInv
<1>3. ASSUME NEW b \in Actors, Planning(request'[b])
      PROVE Planning(request[b]) /\ request'[b].assessment = request[b].assessment /\ Alone(b)
    BY <1>3 DEF Follows, ReviewInv
<1>4. ASSUME NEW b \in Actors, NEW d \in request'[b].pending PROVE Reviewed(d)'
    <2>1. CASE d \in request[b].pending
        BY <1>1, <2>1 DEF ReviewInv
    <2>2. CASE d \notin request[b].pending
        <3>1. /\ d.execution = 0
              /\ d.stage \in PlanStages =>
                    /\ Planning(request[b]) /\ d.assessment = request[b].assessment
                    /\ Planning(request'[b]) => d \in request'[b].judged
            BY <2>2 DEF Follows
        <3>2. ASSUME d.mode = "require_manual_review", d.stage \in PlanStages
              PROVE /\ \A i \in DOMAIN plans' : plans'[i].assessment # d.assessment
                    /\ \A c \in Actors :
                          Planning(request'[c]) /\ request'[c].assessment = d.assessment
                            => IsReviewRequired(request'[c].judged)
            <4>1. Planning(request[b]) /\ d.assessment = request[b].assessment /\ Alone(b)
                BY <3>1, <3>2 DEF ReviewInv
            <4>2. \A i \in DOMAIN plans' : plans'[i].assessment # d.assessment
                BY <4>1 DEF Alone
            <4>3. ASSUME NEW c \in Actors, Planning(request'[c]),
                         request'[c].assessment = d.assessment
                  PROVE IsReviewRequired(request'[c].judged)
                <5>1. Planning(request[c]) /\ request[c].assessment = d.assessment
                    BY <1>3, <4>3
                <5>2. c = b
                    BY <4>1, <5>1 DEF Alone
                <5> QED BY <3>1, <3>2, <4>3, <5>2 DEF IsReviewRequired, Outcome
            <4> QED BY <4>2, <4>3
        <3> QED BY <3>1, <3>2 DEF Reviewed
    <2> QED BY <2>1, <2>2
<1>5. ASSUME NEW b \in Actors, Planning(request'[b]) PROVE Alone(b)'
    <2>1. \A i \in DOMAIN plans' : plans'[i].assessment # request'[b].assessment
        BY <1>3, <1>5 DEF Alone
    <2>2. ASSUME NEW c \in Actors \ {b}, Planning(request'[c])
          PROVE request'[c].assessment # request'[b].assessment
        BY <1>3, <1>5, <2>2 DEF Alone
    <2> QED BY <2>1, <2>2 DEF Alone
<1>6. ASSUME NEW b \in Actors, request'[b].step = "store_execution"
      PROVE request'[b].pending \subseteq request'[b].judged
    BY <1>6 DEF Follows
<1>7. \A i \in DOMAIN plans : assessments'[plans[i].assessment] = assessments[plans[i].assessment]
    BY DEF Grown, TypeInv, Ledger
<1>8. (\A i \in DOMAIN plans :
          AboveLow(plans[i].assessment) => plans[i].plan.approvalRequired = TRUE)'
    BY <1>7 DEF ReviewInv, AboveLow, LevelOf
<1>9. (\A i \in DOMAIN executions :
          plans[executions[i].plan].plan.approvalRequired = TRUE
            => executions[i].status = "awaiting_approval")'
    BY DEF ReviewInv
<1> QED BY <1>2, <1>4, <1>5, <1>6, <1>8, <1>9 DEF ReviewInv, At

----------------------------------------------------------------------------
LEMMA HeedStays ==
    ASSUME TypeInv, Grown, NEW x, NEW y, Sound(x, Stored), Same(x, y), Heeding(x),
           \A p \in y.standing : policies'[p] = policies[p],
           y.standing # {} => UNCHANGED <<service, environment>>
    PROVE Heeding(y)'
<1>1. Heard(y) = Heard(x)
    BY DEF Heard, Planning, Same
<1>2. ASSUME NEW p \in y.standing, NEW stage \in Heard(y),
             p \in Matching(stage, y.change, Facts[y.change].types, LevelOf(y.assessment),
                            y.place)'
      PROVE \E d \in y.judged : d.mode = policies'[p].mode
    <2>1. Planning(x) \/ Executing(x)
        BY <1>1, <1>2 DEF Heard, Planning, Executing
    <2>2. assessments'[x.assessment] = assessments[x.assessment]
        BY <2>1 DEF Sound, Grown, Stored
    <2>3. /\ LevelOf(y.assessment)' = LevelOf(x.assessment) /\ y.change = x.change
          /\ y.place = x.place
        BY <2>2 DEF LevelOf, Same
    <2>4. policies'[p] = policies[p]
        BY <1>2
    <2>5. p \in Matching(stage, x.change, Facts[x.change].types, LevelOf(x.assessment), x.place)
        BY <1>2, <2>3, <2>4 DEF Matching
    <2>6. p \in x.standing /\ y.judged = x.judged
        BY DEF Same
    <2> QED BY <1>1, <2>4, <2>5, <2>6 DEF Heeding
<1>3. y.step \in {"store_plan", "store_execution"} => ~IsBlocked(y.judged)
    BY DEF Heeding, Same
<1>4. Planning(y) \/ Executing(y) => y.standing = {} \/ y.place = Here'
    BY DEF Heeding, Same, Planning, Executing, Here
<1> QED BY <1>2, <1>3, <1>4 DEF Heeding

LEMMA ClearedStays ==
    ASSUME NEW x, NEW y, Same(x, y), Cleared(x)
    PROVE Cleared(y)
BY DEF Same, Cleared, Executing

\* A request that is past judging owes nothing to the standing ones.
LEMMA QuietHeeds ==
    ASSUME NEW q, ~Executing(q), ~Planning(q)
    PROVE Heeding(q)
BY DEF Heeding, Heard, Planning, Executing

LEMMA SameReflexive == ASSUME NEW x PROVE Same(x, x)
BY DEF Same

----------------------------------------------------------------------------
(* Steps of a request                                                      *)

LEMMA HereFits == TypeInv => Here \in PlaceRows
BY DEF TypeInv, Tables, Here, PlaceRows

LEMMA OthersFollow ==
    ASSUME Inv, NEW a \in Actors, NEW q, request' = [request EXCEPT ![a] = q],
           Follows(request[a], q)
    PROVE \A b \in Actors : Follows(request[b], request'[b])
<1>1. ASSUME NEW b \in Actors, b # a PROVE Follows(request[b], request'[b])
    <2>1. request'[b] = request[b]
        BY <1>1 DEF Inv, TypeInv, InFlight
    <2>2. request[b].step = "store_execution" => request[b].pending \subseteq request[b].judged
        BY DEF Inv, ReviewInv, At
    <2> QED BY <2>1, <2>2, SameReflexive, SameFollows
<1>2. request'[a] = q
    BY DEF Inv, TypeInv, InFlight
<1> QED BY <1>1, <1>2

\* The other requests and what they stand by are left alone.
LEMMA OthersHeed ==
    ASSUME Inv, Grown, NEW a \in Actors, NEW q, request' = [request EXCEPT ![a] = q],
           UNCHANGED <<policies, service, environment>>, Heeding(q)', Cleared(q)
    PROVE HeedInv' /\ ClearedInv'
<1>1. request'[a] = q
    BY DEF Inv, TypeInv, InFlight
<1>2. ASSUME NEW b \in Actors, b # a PROVE Heeding(request[b])' /\ Cleared(request'[b])
    <2>1. ASSUME NEW x, x = request[b] PROVE Heeding(x)'
        <3>1. Sound(x, Stored) /\ Heeding(x)
            BY <2>1 DEF Inv, TypeInv, InFlight, HeedInv
        <3> QED BY <3>1, SameReflexive, HeedStays DEF Inv
    <2>2. ASSUME NEW x, x = request'[b] PROVE Heeding(x)'
        <3>1. x = request[b]
            BY <1>2, <2>2 DEF Inv, TypeInv, InFlight
        <3> QED BY <2>1, <3>1
    <2>3. Heeding(request[b])'
        BY <2>2
    <2>4. Cleared(request'[b])
        BY <1>2 DEF Inv, TypeInv, InFlight, ClearedInv
    <2> QED BY <2>3, <2>4
<1>3. Heeding(request[a])'
    <2>1. ASSUME NEW x, x = request'[a] PROVE Heeding(x)'
        BY <1>1, <2>1
    <2> QED BY <2>1
<1>4. HeedInv'
    BY <1>2, <1>3 DEF HeedInv
<1>5. ClearedInv'
    BY <1>1, <1>2 DEF ClearedInv
<1> QED BY <1>4, <1>5

\* A step that adds no assessment, plan or execution.
LEMMA StepInv ==
    ASSUME Inv, NEW a \in Actors, NEW q, request' = [request EXCEPT ![a] = q],
           Sound(q, Stored), UNCHANGED <<policies, service, environment, ledger>>, Tables',
           decisions' \subseteq decisions \cup request[a].pending,
           Follows(request[a], q), Heeding(q), Cleared(q)
    PROVE Inv'
<1>1. Grown /\ Stored' = Stored /\ UNCHANGED <<assessments, plans, executions>>
    BY SameGrown DEF ledger
<1>2. InFlight'
    BY <1>1, InFlightStays DEF Inv
<1>3. \A d \in decisions' : d \in Judgements /\ Names(d, Stored)
    <2>1. request[a] \in Requests /\ \A d \in request[a].pending : Names(d, Stored)
        BY DEF Inv, TypeInv, InFlight, Sound
    <2>2. request[a].pending \subseteq Judgements
        BY <2>1 DEF Requests
    <2> QED BY <2>1, <2>2 DEF Inv, TypeInv, Ledger
<1>4. Ledger'
    BY <1>1, <1>3 DEF Inv, TypeInv, Ledger
<1>5. ReviewInv'
    BY <1>1, OthersFollow, ReviewStep DEF Inv
<1>6. ASSUME NEW x, x = q PROVE Heeding(x)'
    BY <1>1, <1>6, SameReflexive, HeedStays DEF Inv
<1>7. Heeding(q)'
    BY <1>6
<1> QED BY <1>1, <1>2, <1>4, <1>5, <1>7, OthersHeed DEF Inv, TypeInv

\* A request that begins has judged and recorded nothing.
LEMMA BeginInv ==
    ASSUME Inv, NEW a \in Actors, NEW r, Sound(r, Stored), Begin(a, r),
           UNCHANGED <<policies, releases, facts, ledger, decisions>>,
           r.pending = {}, ~Planning(r), r.step # "store_execution",
           Executing(r) => /\ r.place = Here
                           /\ r.release # Null => \A d \in Blocking : d.change # r.change
    PROVE Inv'
<1>0. PICK q : q = [r EXCEPT !.standing = {p \in Policies : policies[p] # Null},
                             !.known = Blocking]
    OBVIOUS
<1>1. request' = [request EXCEPT ![a] = q]
    BY <1>0 DEF Begin
<1>2. Sound(q, Stored) /\ Tables'
    BY <1>0, BeginShape DEF Inv
<1>3. /\ q.pending = {} /\ q.step = r.step /\ q.next = r.next /\ q.release = r.release
      /\ q.change = r.change /\ q.known = Blocking /\ q.place = r.place
    BY <1>0 DEF Sound, Requests
<1>4. ~Planning(q) /\ q.step # "store_execution"
    BY <1>3 DEF Planning
<1>5. Follows(request[a], q)
    BY <1>3, <1>4 DEF Follows
<1>6. Cleared(q)
    BY <1>3 DEF Cleared, Executing
<1>7. Heeding(q)
    BY <1>3, <1>4 DEF Heeding, Heard, Planning, Executing
<1> QED BY <1>1, <1>2, <1>5, <1>6, <1>7, StepInv DEF facts

LEMMA BeginPolicyEditInv ==
    ASSUME Inv, NEW a \in Actors, NEW p \in Policies, BeginPolicyEdit(a, p)
    PROVE Inv'
<1> DEFINE r == [Idle EXCEPT !.kind = "policy", !.step = "write_policy",
                             !.policy = p, !.row = policies[p]]
<1>1. Begin(a, r) /\ UNCHANGED <<policies, releases, facts, ledger, decisions>>
    BY DEF BeginPolicyEdit
<1>2. Sound(Idle, Stored) /\ Idle \in Requests
    BY IdleSound
<1>3. policies[p] \in PolicyShape({Owner}) \cup {Null}
    BY DEF Inv, TypeInv, Tables
<1>4. /\ r \in Requests /\ r.step = "write_policy" /\ r.policy = p
      /\ r.judged = {} /\ r.pending = {} /\ r.assessment = 0 /\ r.plan = 0 /\ r.todo = {}
    BY <1>2, <1>3, IdleSound DEF Requests, Steps, Kinds
<1> HIDE DEF r
<1>5. ~Planning(r) /\ ~Executing(r)
    BY <1>4 DEF Planning, Executing
<1>6. Sound(r, Stored)
    BY <1>4, <1>5 DEF Sound
<1> QED BY <1>1, <1>4, <1>5, <1>6, BeginInv

LEMMA BeginReleaseInv ==
    ASSUME Inv, NEW a \in Actors, NEW rel \in Releases, BeginRelease(a, rel)
    PROVE Inv'
<1> DEFINE r == [Idle EXCEPT !.kind = "release", !.step = "write_release", !.release = rel]
<1>1. Begin(a, r) /\ UNCHANGED <<policies, releases, facts, ledger, decisions>>
    BY DEF BeginRelease
<1>2. /\ r \in Requests /\ r.step = "write_release" /\ r.release = rel
      /\ r.judged = {} /\ r.pending = {} /\ r.assessment = 0 /\ r.plan = 0 /\ r.todo = {}
    BY IdleSound DEF Requests, Steps, Kinds
<1> HIDE DEF r
<1>3. ~Planning(r) /\ ~Executing(r)
    BY <1>2 DEF Planning, Executing
<1>4. Sound(r, Stored)
    BY <1>2, <1>3 DEF Sound
<1> QED BY <1>1, <1>2, <1>3, <1>4, BeginInv

\* The gate has asked the decisions on the changes of the release.
LEMMA BeginExecutionInv ==
    ASSUME Inv, NEW a \in Actors, NEW p \in DOMAIN plans, NEW rel \in Releases \cup {Null},
           BeginExecution(a, p, rel)
    PROVE Inv'
<1> DEFINE r == [Idle EXCEPT !.kind = "execute", !.step = "judge_execution",
                             !.change = plans[p].change, !.plan = p, !.release = rel,
                             !.assessment = plans[p].assessment, !.place = Here]
<1>1. /\ Begin(a, r) /\ UNCHANGED <<policies, releases, facts, ledger, decisions>>
      /\ rel # Null => ReleaseGate(rel, plans[p].change)
    BY DEF BeginExecution
<1>2. /\ plans[p] \in PlanRows /\ p \in Nat /\ plans[p].assessment \in DOMAIN assessments
      /\ p \in Stored.plans /\ plans[p].assessment \in Stored.assessments
    BY ElementOfSeq, LenProperties DEF Inv, TypeInv, Ledger, Stored
<1>3. plans[p].change \in Changes /\ plans[p].assessment \in Nat
    BY <1>2 DEF PlanRows
<1>4. /\ r \in Requests /\ r.step = "judge_execution" /\ r.release = rel
      /\ r.change = plans[p].change /\ r.plan = p /\ r.assessment = plans[p].assessment
      /\ r.judged = {} /\ r.pending = {} /\ r.todo = {} /\ r.place = Here
    BY <1>2, <1>3, IdleSound, HereFits DEF Inv, Requests, Steps, Kinds
<1> HIDE DEF r
<1>5. ~Planning(r)
    BY <1>4 DEF Planning
<1>6. Sound(r, Stored)
    BY <1>2, <1>3, <1>4, <1>5 DEF Sound
<1>7. ASSUME rel # Null, NEW d \in Blocking PROVE d.change # plans[p].change
    BY <1>1, <1>7 DEF ReleaseGate, ReleaseIsClear, IsBlocked, Outcome, ReleaseDecisions, Blocking
<1> QED BY <1>1, <1>4, <1>5, <1>6, <1>7, BeginInv

LEMMA SameTables ==
    ASSUME TypeInv, UNCHANGED <<policies, releases, facts, budget>>
    PROVE Tables'
BY DEF TypeInv, Tables, facts

LEMMA AbandonInv ==
    ASSUME Inv, NEW a \in Actors, Abandon(a)
    PROVE Inv'
<1>1. /\ request' = [request EXCEPT ![a] = Idle]
      /\ UNCHANGED <<policies, releases, facts, ledger, decisions, budget>>
    BY DEF Abandon, Finish, Advance
<1>2. ~Planning(Idle) /\ ~Executing(Idle) /\ Idle.step # "store_execution"
    BY IdleSound DEF Planning, Executing
<1>3. Follows(request[a], Idle) /\ Cleared(Idle) /\ Heeding(Idle)
    BY <1>2, IdleSound, QuietHeeds DEF Follows, Cleared
<1>4. Tables'
    BY <1>1, SameTables DEF Inv
<1>5. Sound(Idle, Stored)
    BY IdleSound
<1> QED BY <1>1, <1>3, <1>4, <1>5, StepInv DEF facts

LEMMA JudgeRiskInv ==
    ASSUME Inv, NEW a \in Actors, JudgeRisk(a)
    PROVE Inv'
<1> DEFINE r == request[a]
           found == Judge("risk_assessment", r.change, Facts[r.change].types,
                          LevelOf(r.assessment), r)
           base == [r EXCEPT !.judged = found]
           next == IF r.kind = "plan" THEN "read_place" ELSE "idle"
           q == Persisting(base, found, next)
<1>1. /\ request' = [request EXCEPT ![a] = q] /\ r.step = "judge_risk"
      /\ UNCHANGED <<policies, releases, facts, ledger, decisions, budget>>
    BY DEF JudgeRisk, Advance, At
<1>2. r \in Requests /\ Sound(r, Stored) /\ Planning(r) /\ Heeding(r)
    BY <1>1 DEF Inv, TypeInv, InFlight, HeedInv, Sound, Planning
<1>3. /\ r.change \in Changes /\ r.assessment \in Stored.assessments /\ r.judged = {}
      /\ r.plan \in {0} \cup Stored.plans /\ r.place \in PlaceRows
      /\ \A item \in r.todo : item[3] \in {0} \cup Stored.assessments
    BY <1>1, <1>2 DEF Sound
<1>4. /\ found \subseteq Judgements
      /\ \A d \in found : Names(d, Stored) /\ d.assessment = r.assessment /\ d.execution = 0
      /\ \A p \in Matching("risk_assessment", r.change, Facts[r.change].types,
                           LevelOf(r.assessment), r.place) : \E d \in found : d.mode = policies[p].mode
    BY <1>2, <1>3, JudgeShape DEF Inv, Stages
<1> HIDE DEF found
<1>5. /\ base \in Requests /\ base.judged = found /\ base.change = r.change
      /\ base.assessment = r.assessment /\ base.plan = r.plan /\ base.standing = r.standing
      /\ base.todo = r.todo /\ base.place = r.place
    BY <1>2, <1>4 DEF Requests
<1>6. next \in {"idle", "read_place"}
    OBVIOUS
<1> HIDE DEF base, next
<1>7. Sound(q, Stored)
    BY <1>3, <1>4, <1>5, <1>6, PersistingSound
<1>8. /\ q.pending = found
      /\ next = "idle" => q.step \in {"idle", "persist"} /\ q.next = "idle"
      /\ next = "read_place" => /\ q.judged = found /\ q.assessment = r.assessment
                                /\ q.change = r.change /\ q.standing = r.standing
                                /\ q.place = r.place /\ q.step \in {"persist", "read_place"}
    BY <1>4, <1>5, <1>6, PersistingShape
<1> HIDE DEF q
<1>9. /\ ~Executing(q) /\ q.step \notin {"store_plan", "store_execution"}
      /\ Planning(q) => next = "read_place"
    BY <1>6, <1>8 DEF Planning, Executing
<1>10. Follows(r, q)
    <2>1. Planning(q) => q.assessment = r.assessment /\ q.judged = found
        BY <1>8, <1>9
    <2>2. ~IsReviewRequired(r.judged)
        BY <1>3 DEF IsReviewRequired, Outcome
    <2> QED BY <1>2, <1>4, <1>8, <1>9, <2>1, <2>2 DEF Follows
<1>11. Heeding(q)
    BY <1>2, <1>4, <1>8, <1>9 DEF Heeding, Heard
<1>12. Cleared(q) /\ Tables'
    BY <1>1, <1>9, SameTables DEF Cleared, Inv
<1> QED BY <1>1, <1>7, <1>10, <1>11, <1>12, StepInv DEF facts

\* What the planning half reads are the rows that are there, or nothing stands any more.
LEMMA ReadPlaceInv ==
    ASSUME Inv, NEW a \in Actors, ReadPlace(a)
    PROVE Inv'
<1> DEFINE r == request[a]
<1>1. /\ r.step = "read_place" /\ UNCHANGED <<policies, releases, facts, ledger, decisions, budget>>
      /\ \E s \in {service, NoService}, e \in {environment, NoEnvironment} :
            request' = [request EXCEPT ![a] =
               [r EXCEPT !.step = "judge_plan", !.place = [service |-> s, environment |-> e],
                         !.standing = IF [service |-> s, environment |-> e] = Here
                                      THEN @ ELSE {}]]
    BY DEF ReadPlace, Advance, At
<1>2. PICK s \in {service, NoService}, e \in {environment, NoEnvironment} :
         request' = [request EXCEPT ![a] =
            [r EXCEPT !.step = "judge_plan", !.place = [service |-> s, environment |-> e],
                      !.standing = IF [service |-> s, environment |-> e] = Here
                                   THEN @ ELSE {}]]
    BY <1>1
<1>3. PICK place : place = [service |-> s, environment |-> e]
    OBVIOUS
<1>4. PICK left : left = IF place = Here THEN r.standing ELSE {}
    OBVIOUS
<1> DEFINE q == [r EXCEPT !.step = "judge_plan", !.place = place, !.standing = left]
<1>5. request' = [request EXCEPT ![a] = q]
    BY <1>2, <1>3, <1>4
<1>6. place \in PlaceRows
    BY <1>3 DEF Inv, TypeInv, Tables, PlaceRows
<1>7. r \in Requests /\ Sound(r, Stored) /\ Planning(r) /\ Heeding(r)
    BY <1>1 DEF Inv, TypeInv, InFlight, HeedInv, Sound, Planning
<1>8. left \subseteq r.standing /\ left \in SUBSET Policies /\ (left = {} \/ place = Here)
    BY <1>4, <1>7 DEF Requests
<1>9. /\ q \in Requests /\ q.step = "judge_plan" /\ q.place = place /\ q.standing = left
      /\ q.judged = r.judged /\ q.pending = r.pending /\ q.assessment = r.assessment
      /\ q.plan = r.plan /\ q.change = r.change /\ q.todo = r.todo
    BY <1>6, <1>7, <1>8 DEF Requests, Steps
<1> HIDE DEF q
<1>10. Planning(q) /\ ~Executing(q)
    BY <1>9 DEF Planning, Executing
<1>11. Sound(q, Stored)
    BY <1>6, <1>7, <1>9, <1>10 DEF Sound
<1>12. Follows(r, q) /\ Cleared(q)
    BY <1>7, <1>9, <1>10 DEF Follows, Cleared
<1>13. Heeding(q)
    <2>1. Heard(q) = {"risk_assessment"} /\ Heard(r) = {"risk_assessment"}
        BY <1>1, <1>7, <1>9, <1>10 DEF Heard
    <2>2. ASSUME NEW p \in left PROVE r.place = q.place
        BY <1>7, <1>8, <1>9, <2>2 DEF Heeding
    <2> QED BY <1>7, <1>8, <1>9, <1>10, <2>1, <2>2 DEF Heeding
<1>14. Tables'
    BY <1>1, SameTables DEF Inv
<1> QED BY <1>1, <1>5, <1>11, <1>12, <1>13, <1>14, StepInv DEF facts

LEMMA JudgePlanInv ==
    ASSUME Inv, NEW a \in Actors, JudgePlan(a)
    PROVE Inv'
<1> DEFINE r == request[a]
           found == Judge("rollout_plan", r.change, Facts[r.change].types,
                          LevelOf(r.assessment), r)
           heard == r.judged \cup found
           q == [r EXCEPT !.step = "store_plan", !.judged = heard, !.pending = found]
<1>1. /\ r.step = "judge_plan"
      /\ UNCHANGED <<policies, releases, facts, ledger, decisions, budget>>
      /\ IF IsBlocked(heard) THEN request' = [request EXCEPT ![a] = Persisting(r, found, "idle")]
                             ELSE request' = [request EXCEPT ![a] = q]
    BY DEF JudgePlan, Advance, At
<1>2. r \in Requests /\ Sound(r, Stored) /\ Planning(r) /\ Heeding(r)
    BY <1>1 DEF Inv, TypeInv, InFlight, HeedInv, Sound, Planning
<1>3. /\ r.change \in Changes /\ r.assessment \in Stored.assessments
      /\ r.plan \in {0} \cup Stored.plans /\ r.assessment \in {0} \cup Stored.assessments
      /\ r.judged \subseteq Judgements /\ \A d \in r.judged : Names(d, Stored)
      /\ r.place \in PlaceRows /\ \A item \in r.todo : item[3] \in {0} \cup Stored.assessments
    BY <1>2 DEF Sound, Requests
<1>4. /\ found \subseteq Judgements
      /\ \A d \in found : Names(d, Stored) /\ d.assessment = r.assessment /\ d.execution = 0
      /\ \A p \in Matching("rollout_plan", r.change, Facts[r.change].types,
                           LevelOf(r.assessment), r.place) : \E d \in found : d.mode = policies[p].mode
    BY <1>2, <1>3, JudgeShape DEF Inv, Stages
<1>5. Tables'
    BY <1>1, SameTables DEF Inv
<1> HIDE DEF found
<1>6. CASE IsBlocked(heard)
    <2> DEFINE x == Persisting(r, found, "idle")
    <2>1. Sound(x, Stored)
        BY <1>2, <1>3, <1>4, PersistingSound
    <2>2. x.pending = found /\ x.step \in {"idle", "persist"} /\ x.next = "idle"
        BY <1>2, <1>4, PersistingShape
    <2> HIDE DEF x
    <2>3. ~Planning(x) /\ ~Executing(x)
        BY <2>2 DEF Planning, Executing
    <2>4. Follows(r, x) /\ Cleared(x) /\ Heeding(x)
        BY <1>2, <1>4, <2>2, <2>3, QuietHeeds DEF Follows, Cleared
    <2>5. request' = [request EXCEPT ![a] = x]
        BY <1>1, <1>6 DEF x
    <2> QED BY <1>1, <1>5, <2>1, <2>4, <2>5, StepInv DEF facts
<1>7. CASE ~IsBlocked(heard)
    <2>1. heard \subseteq Judgements /\ \A d \in heard : Names(d, Stored)
        BY <1>3, <1>4
    <2>2. r.judged \subseteq heard /\ found \subseteq heard
        OBVIOUS
    <2> HIDE DEF heard
    <2>3. /\ q \in Requests /\ q.step = "store_plan" /\ q.judged = heard /\ q.pending = found
          /\ q.assessment = r.assessment /\ q.plan = r.plan /\ q.change = r.change
          /\ q.standing = r.standing /\ q.place = r.place /\ q.todo = r.todo
        BY <1>2, <1>4, <2>1 DEF Requests, Steps
    <2>4. request' = [request EXCEPT ![a] = q]
        BY <1>1, <1>7
    <2> HIDE DEF q
    <2>5. Planning(q) /\ ~Executing(q)
        BY <2>3 DEF Planning, Executing
    <2>6. Sound(q, Stored)
        BY <1>2, <1>3, <1>4, <2>1, <2>3, <2>5 DEF Sound
    <2>7. Follows(r, q) /\ Cleared(q)
        BY <1>2, <1>4, <2>2, <2>3, <2>5 DEF Follows, Cleared, IsReviewRequired, Outcome
    <2>8. Heeding(q)
        <3>1. Heard(q) = PlanStages /\ Heard(r) = {"risk_assessment"}
            BY <1>1, <1>2, <2>3 DEF Heard
        <3>2. ASSUME NEW p \in r.standing, NEW stage \in PlanStages,
                     p \in Matching(stage, r.change, Facts[r.change].types,
                                    LevelOf(r.assessment), r.place)
              PROVE \E d \in heard : d.mode = policies[p].mode
            <4>1. CASE stage = "risk_assessment"
                BY <1>2, <2>2, <3>1, <3>2, <4>1 DEF Heeding
            <4>2. CASE stage = "rollout_plan"
                BY <1>4, <2>2, <3>2, <4>2
            <4> QED BY <4>1, <4>2 DEF PlanStages
        <3> QED BY <1>2, <1>7, <2>3, <3>1, <3>2 DEF Heeding
    <2> QED BY <1>1, <1>5, <2>4, <2>6, <2>7, <2>8, StepInv DEF facts
<1> QED BY <1>6, <1>7

LEMMA JudgeExecutionInv ==
    ASSUME Inv, NEW a \in Actors, JudgeExecution(a)
    PROVE Inv'
<1> DEFINE r == request[a]
           found == Judge("rollout_execution", r.change, Facts[r.change].types,
                          LevelOf(r.assessment), r)
           q == [r EXCEPT !.step = "store_execution", !.judged = found, !.pending = found]
<1>1. /\ r.step = "judge_execution"
      /\ UNCHANGED <<policies, releases, facts, ledger, decisions, budget>>
      /\ IF IsBlocked(found) THEN request' = [request EXCEPT ![a] = Persisting(r, found, "idle")]
                             ELSE request' = [request EXCEPT ![a] = q]
    BY DEF JudgeExecution, Advance, At
<1>2. r \in Requests /\ Sound(r, Stored) /\ Executing(r) /\ Cleared(r) /\ Heeding(r)
    BY <1>1 DEF Inv, TypeInv, InFlight, ClearedInv, HeedInv, Sound, Executing
<1>3. /\ r.change \in Changes /\ r.assessment \in Stored.assessments
      /\ r.plan \in Stored.plans /\ r.plan \in {0} \cup Stored.plans
      /\ r.assessment \in {0} \cup Stored.assessments
      /\ \A d \in r.judged : Names(d, Stored)
      /\ \A item \in r.todo : item[3] \in {0} \cup Stored.assessments
    BY <1>2 DEF Sound
<1>4. /\ found \subseteq Judgements
      /\ \A d \in found : /\ Names(d, Stored) /\ d.stage = "rollout_execution"
                          /\ d.execution = 0
      /\ \A p \in Matching("rollout_execution", r.change, Facts[r.change].types,
                           LevelOf(r.assessment), r.place) : \E d \in found : d.mode = policies[p].mode
    BY <1>2, <1>3, JudgeShape DEF Inv, Stages
<1>5. Tables' /\ \A d \in found : d.stage \notin PlanStages
    BY <1>1, <1>4, SameTables DEF Inv, PlanStages
<1> HIDE DEF found
<1>6. CASE IsBlocked(found)
    <2> DEFINE x == Persisting(r, found, "idle")
    <2>1. Sound(x, Stored)
        BY <1>2, <1>3, <1>4, PersistingSound
    <2>2. x.pending = found /\ x.step \in {"idle", "persist"} /\ x.next = "idle"
        BY <1>2, <1>4, PersistingShape
    <2> HIDE DEF x
    <2>3. ~Planning(x) /\ ~Executing(x)
        BY <2>2 DEF Planning, Executing
    <2>4. Follows(r, x) /\ Cleared(x) /\ Heeding(x)
        BY <1>4, <1>5, <2>2, <2>3, QuietHeeds DEF Follows, Cleared
    <2>5. request' = [request EXCEPT ![a] = x]
        BY <1>1, <1>6 DEF x
    <2> QED BY <1>1, <1>5, <2>1, <2>4, <2>5, StepInv DEF facts
<1>7. CASE ~IsBlocked(found)
    <2>1. /\ q \in Requests /\ q.step = "store_execution" /\ q.judged = found
          /\ q.pending = found /\ q.assessment = r.assessment /\ q.plan = r.plan
          /\ q.change = r.change /\ q.standing = r.standing /\ q.known = r.known
          /\ q.release = r.release /\ q.place = r.place /\ q.todo = r.todo
        BY <1>2, <1>4 DEF Requests, Steps
    <2>2. request' = [request EXCEPT ![a] = q]
        BY <1>1, <1>7
    <2> HIDE DEF q
    <2>3. ~Planning(q) /\ Executing(q)
        BY <2>1 DEF Planning, Executing
    <2>4. Sound(q, Stored)
        BY <1>3, <1>4, <2>1, <2>3 DEF Sound
    <2>5. Follows(r, q)
        BY <1>4, <1>5, <2>1, <2>3 DEF Follows
    <2>6. Cleared(q)
        BY <1>2, <2>1 DEF Cleared
    <2>7. Heeding(q)
        <3>1. Heard(q) = {"rollout_execution"}
            BY <2>1 DEF Heard
        <3> QED BY <1>2, <1>4, <1>7, <2>1, <3>1 DEF Heeding
    <2> QED BY <1>1, <1>5, <2>2, <2>4, <2>5, <2>6, <2>7, StepInv DEF facts
<1> QED BY <1>6, <1>7

LEMMA PersistInv ==
    ASSUME Inv, NEW a \in Actors, Persist(a)
    PROVE Inv'
<1> DEFINE r == request[a]
<1>1. /\ r.step = "persist" /\ UNCHANGED <<policies, releases, facts, ledger, budget>>
      /\ \E d \in r.pending :
            /\ decisions' = decisions \cup {d}
            /\ request' = [request EXCEPT ![a] = Persisting(r, r.pending \ {d}, r.next)]
    BY DEF Persist, Advance, At
<1>2. PICK d \in r.pending :
         /\ decisions' = decisions \cup {d}
         /\ request' = [request EXCEPT ![a] = Persisting(r, r.pending \ {d}, r.next)]
    BY <1>1
<1> DEFINE left == r.pending \ {d}
           q == Persisting(r, left, r.next)
<1>3. r \in Requests /\ Sound(r, Stored) /\ Heeding(r)
    BY DEF Inv, TypeInv, InFlight, HeedInv, Sound
<1>4. r.next \in {"idle", "read_place", "judge_release"}
    BY <1>1, <1>3 DEF Sound
<1>5. left \in SUBSET Judgements /\ \A x \in r.judged \cup left : Names(x, Stored)
    BY <1>3 DEF Sound, Requests
<1>6. /\ r.next = "read_place" => /\ r.change \in Changes /\ r.assessment \in Stored.assessments
                                  /\ Planning(r) /\ r.place \in PlaceRows
      /\ \A item \in r.todo : item[3] \in {0} \cup Stored.assessments
      /\ r.assessment \in {0} \cup Stored.assessments /\ r.plan \in {0} \cup Stored.plans
    BY <1>1, <1>3 DEF Sound, Planning
<1>7. left \subseteq r.pending
    OBVIOUS
<1> HIDE DEF left
<1>8. Sound(q, Stored)
    BY <1>3, <1>4, <1>5, <1>6, PersistingSound
<1>9. /\ q.pending = left
      /\ r.next = "idle" => q.step \in {"idle", "persist"} /\ q.next = "idle"
      /\ r.next # "idle" => /\ q.judged = r.judged /\ q.assessment = r.assessment
                            /\ q.change = r.change /\ q.standing = r.standing
                            /\ q.place = r.place
                            /\ \/ q.step = "persist" /\ q.next = r.next
                               \/ q.step = r.next
    BY <1>3, <1>4, <1>5, PersistingShape
<1>10. request' = [request EXCEPT ![a] = q] /\ decisions' \subseteq decisions \cup r.pending
    BY <1>2 DEF left
<1> HIDE DEF q
<1>11. /\ ~Executing(q) /\ q.step \notin {"store_plan", "store_execution", "judge_risk"}
       /\ Planning(q) => r.next = "read_place"
    BY <1>4, <1>9 DEF Planning, Executing
<1>12. Follows(r, q)
    BY <1>6, <1>7, <1>9, <1>11 DEF Follows
<1>13. Heeding(q)
    <2>1. CASE Planning(q)
        <3>1. Heard(q) = {"risk_assessment"} /\ Heard(r) = {"risk_assessment"}
            BY <1>1, <1>6, <1>11, <2>1 DEF Heard
        <3> QED BY <1>3, <1>6, <1>9, <1>11, <2>1, <3>1 DEF Heeding
    <2>2. CASE ~Planning(q)
        BY <1>11, <2>2, QuietHeeds
    <2> QED BY <2>1, <2>2
<1>14. Cleared(q) /\ Tables'
    BY <1>1, <1>11, SameTables DEF Cleared, Inv
<1> QED BY <1>1, <1>8, <1>10, <1>12, <1>13, <1>14, StepInv DEF facts

LEMMA WriteReleaseInv ==
    ASSUME Inv, NEW a \in Actors, WriteRelease(a)
    PROVE Inv'
<1> DEFINE r == request[a]
<1>1. /\ r.step = "write_release" /\ UNCHANGED <<policies, facts, ledger, decisions, budget>>
      /\ \E bundle \in Bundles : \E first \in bundle :
            /\ releases' = [releases EXCEPT ![r.release] = bundle]
            /\ request' = [request EXCEPT ![a] = [r EXCEPT !.step = "read_release",
                                                          !.todo = Agenda(bundle, first)]]
    BY DEF WriteRelease, Advance, At
<1>2. PICK bundle \in Bundles : \E first \in bundle :
         /\ releases' = [releases EXCEPT ![r.release] = bundle]
         /\ request' = [request EXCEPT ![a] = [r EXCEPT !.step = "read_release",
                                                       !.todo = Agenda(bundle, first)]]
    BY <1>1
<1>3. PICK first \in bundle :
         /\ releases' = [releases EXCEPT ![r.release] = bundle]
         /\ request' = [request EXCEPT ![a] = [r EXCEPT !.step = "read_release",
                                                       !.todo = Agenda(bundle, first)]]
    BY <1>2
<1> DEFINE todo == Agenda(bundle, first)
           q == [r EXCEPT !.step = "read_release", !.todo = todo]
<1>4. bundle \subseteq Changes
    BY GovernanceAssumption
<1>5. todo \in SUBSET (ReleaseStages \X Changes \X Nat) /\ \A item \in todo : item[3] = 0
    BY <1>4 DEF Agenda, ReleaseStages
<1>6. request' = [request EXCEPT ![a] = q]
    BY <1>3
<1> HIDE DEF todo
<1>7. r \in Requests /\ Sound(r, Stored)
    BY DEF Inv, TypeInv, InFlight, Sound
<1>8. /\ q \in Requests /\ q.step = "read_release" /\ q.judged = r.judged
      /\ q.pending = r.pending /\ q.assessment = r.assessment /\ q.plan = r.plan
      /\ q.todo = todo
    BY <1>5, <1>7 DEF Requests, Steps
<1> HIDE DEF q
<1>9. ~Planning(q) /\ ~Executing(q)
    BY <1>8 DEF Planning, Executing
<1>10. Sound(q, Stored)
    BY <1>5, <1>7, <1>8, <1>9 DEF Sound
<1>11. Follows(r, q) /\ Cleared(q) /\ Heeding(q)
    BY <1>8, <1>9, QuietHeeds DEF Follows, Cleared
<1>12. Tables'
    BY <1>1, <1>3 DEF Inv, TypeInv, Tables, facts
<1> QED BY <1>1, <1>6, <1>10, <1>11, <1>12, StepInv DEF facts

LEMMA LatestShape ==
    ASSUME TypeInv, NEW change
    PROVE /\ LatestAssessment(change) \in {0} \cup Stored.assessments
          /\ LatestAssessment(change) \in Nat
<1> DEFINE of == {i \in DOMAIN assessments : assessments[i].change = change}
<1>1. Len(assessments) \in Nat /\ DOMAIN assessments = 1..Len(assessments)
    BY LenProperties DEF TypeInv, Ledger
<1>2. CASE of = {}
    BY <1>2 DEF LatestAssessment
<1>3. CASE of # {}
    <2>1. \E i \in of : \A j \in of : j <= i
        BY <1>1, <1>3, GreatestNumber
    <2>2. LatestAssessment(change) \in of
        BY <1>3, <2>1 DEF LatestAssessment
    <2> QED BY <1>1, <2>2 DEF Stored
<1> QED BY <1>2, <1>3

LEMMA ReadReleaseInv ==
    ASSUME Inv, NEW a \in Actors, ReadRelease(a)
    PROVE Inv'
<1> DEFINE r == request[a]
           todo == {<<item[1], item[2], LatestAssessment(item[2])>> : item \in r.todo}
           q == [r EXCEPT !.step = "judge_release", !.place = Here, !.todo = todo]
<1>1. /\ r.step = "read_release" /\ request' = [request EXCEPT ![a] = q]
      /\ UNCHANGED <<policies, releases, facts, ledger, decisions, budget>>
    BY DEF ReadRelease, Advance, At
<1>2. r \in Requests /\ Sound(r, Stored) /\ Here \in PlaceRows
    BY HereFits DEF Inv, TypeInv, InFlight, Sound
<1>3. ASSUME NEW x \in todo
      PROVE x \in ReleaseStages \X Changes \X Nat /\ x[3] \in {0} \cup Stored.assessments
    <2>1. PICK item \in r.todo : x = <<item[1], item[2], LatestAssessment(item[2])>>
        BY <1>3
    <2>2. item[1] \in ReleaseStages /\ item[2] \in Changes
        BY <1>2 DEF Requests
    <2> QED BY <2>1, <2>2, LatestShape DEF Inv
<1> HIDE DEF todo
<1>4. todo \in SUBSET (ReleaseStages \X Changes \X Nat)
    BY <1>3
<1>5. /\ q \in Requests /\ q.step = "judge_release" /\ q.judged = r.judged
      /\ q.pending = r.pending /\ q.assessment = r.assessment /\ q.plan = r.plan
      /\ q.todo = todo
    BY <1>2, <1>4 DEF Requests, Steps
<1> HIDE DEF q
<1>6. ~Planning(q) /\ ~Executing(q)
    BY <1>5 DEF Planning, Executing
<1>7. Sound(q, Stored)
    BY <1>2, <1>3, <1>5, <1>6 DEF Sound
<1>8. Follows(r, q) /\ Cleared(q) /\ Heeding(q)
    BY <1>5, <1>6, QuietHeeds DEF Follows, Cleared
<1>9. Tables'
    BY <1>1, SameTables DEF Inv
<1> QED BY <1>1, <1>7, <1>8, <1>9, StepInv DEF facts

LEMMA JudgeReleaseInv ==
    ASSUME Inv, NEW a \in Actors, JudgeRelease(a)
    PROVE Inv'
<1> DEFINE r == request[a]
<1>1. /\ r.step = "judge_release"
      /\ UNCHANGED <<policies, releases, facts, ledger, decisions, budget>>
    BY DEF JudgeRelease, Advance, Finish, At
<1>2. r \in Requests /\ Sound(r, Stored)
    BY DEF Inv, TypeInv, InFlight, Sound
<1>3. Tables'
    BY <1>1, SameTables DEF Inv
<1>4. CASE r.todo = {} /\ Finish(a)
    <2>1. Follows(r, Idle) /\ Cleared(Idle) /\ Heeding(Idle)
        BY IdleSound, QuietHeeds DEF Follows, Cleared, Planning, Executing
    <2>2. request' = [request EXCEPT ![a] = Idle] /\ Sound(Idle, Stored)
        BY <1>4, IdleSound DEF Finish, Advance
    <2> QED BY <1>1, <1>3, <2>1, <2>2, StepInv DEF facts
<1>5. CASE ~(r.todo = {} /\ Finish(a))
    <2>1. PICK item \in r.todo : \E types, level :
             request' = [request EXCEPT ![a] =
                Persisting([r EXCEPT !.todo = @ \ {item}],
                           Judge(item[1], item[2], types, level,
                                 [r EXCEPT !.assessment = item[3]]),
                           "judge_release")]
        BY <1>5 DEF JudgeRelease, Advance
    <2>2. PICK types, level :
             request' = [request EXCEPT ![a] =
                Persisting([r EXCEPT !.todo = @ \ {item}],
                           Judge(item[1], item[2], types, level,
                                 [r EXCEPT !.assessment = item[3]]),
                           "judge_release")]
        BY <2>1
    <2> DEFINE base == [r EXCEPT !.todo = @ \ {item}]
               about == [r EXCEPT !.assessment = item[3]]
               found == Judge(item[1], item[2], types, level, about)
               q == Persisting(base, found, "judge_release")
    <2>3. /\ item[1] \in ReleaseStages /\ item[2] \in Changes /\ item[3] \in Nat
          /\ item[3] \in {0} \cup Stored.assessments
        BY <1>2 DEF Requests, Sound
    <2>4. item[1] \in Stages /\ item[1] \notin PlanStages
        BY <2>3 DEF ReleaseStages, Stages, PlanStages
    <2>5. /\ r.assessment \in {0} \cup Stored.assessments /\ r.plan \in {0} \cup Stored.plans
          /\ \A d \in r.judged : Names(d, Stored)
          /\ \A x \in r.todo : x[3] \in {0} \cup Stored.assessments
        BY <1>2 DEF Sound
    <2>6. /\ about \in Requests /\ about.plan = r.plan
          /\ about.assessment \in {0} \cup Stored.assessments
        BY <1>2, <2>3 DEF Requests
    <2> HIDE DEF about
    <2>7. /\ found \subseteq Judgements
          /\ \A d \in found : Names(d, Stored) /\ d.stage \notin PlanStages /\ d.execution = 0
        BY <2>3, <2>4, <2>5, <2>6, JudgeShape DEF Inv
    <2>8. request' = [request EXCEPT ![a] = q]
        BY <2>2 DEF about
    <2> HIDE DEF found
    <2>9. /\ base \in Requests /\ base.judged = r.judged /\ base.assessment = r.assessment
          /\ base.plan = r.plan /\ base.todo \subseteq r.todo
        BY <1>2 DEF Requests
    <2> HIDE DEF base
    <2>10. Sound(q, Stored)
        BY <2>5, <2>7, <2>9, PersistingSound
    <2>11. /\ q.pending = found
           /\ (q.step = "persist" /\ q.next = "judge_release") \/ q.step = "judge_release"
        BY <2>7, <2>9, PersistingShape
    <2> HIDE DEF q
    <2>12. ~Planning(q) /\ ~Executing(q)
        BY <2>11 DEF Planning, Executing
    <2>13. Follows(r, q) /\ Cleared(q) /\ Heeding(q)
        BY <2>7, <2>11, <2>12, QuietHeeds DEF Follows, Cleared
    <2> QED BY <1>1, <1>3, <2>8, <2>10, <2>13, StepInv DEF facts
<1> QED BY <1>4, <1>5

----------------------------------------------------------------------------
(* Steps that add a row                                                    *)

LEMMA GrownNames ==
    ASSUME TypeInv, Grown, UNCHANGED decisions
    PROVE decisions' \subseteq Judgements /\ \A d \in decisions' : Names(d, Stored')
BY NamesStay DEF TypeInv, Ledger

LEMMA AppendGrown ==
    ASSUME NEW S, NEW rows \in Seq(S), NEW row \in S, NEW more, more = Append(rows, row)
    PROVE /\ more \in Seq(S) /\ Len(more) = Len(rows) + 1 /\ Len(rows) \in Nat
          /\ DOMAIN rows = 1..Len(rows) /\ DOMAIN more = 1..(Len(rows) + 1)
          /\ DOMAIN rows \subseteq DOMAIN more
          /\ \A i \in DOMAIN rows : more[i] = rows[i]
          /\ more[Len(rows) + 1] = row
          /\ \A i \in DOMAIN more : i \in DOMAIN rows \/ i = Len(rows) + 1
          /\ Len(rows) + 1 \notin DOMAIN rows /\ Len(rows) + 1 # 0
BY AppendProperties, LenProperties

LEMMA BeginAssessmentInv ==
    ASSUME Inv, NEW a \in Actors, NEW kind \in {"assess", "plan"}, NEW change \in Changes,
           BeginAssessment(a, kind, change)
    PROVE Inv'
<1> DEFINE n == Len(assessments) + 1
           row == Assessment(change)
           r == [Idle EXCEPT !.kind = kind, !.step = "judge_risk", !.change = change,
                             !.assessment = n, !.place = Here]
<1>1. /\ Begin(a, r) /\ assessments' = Append(assessments, row)
      /\ UNCHANGED <<policies, releases, facts, plans, executions, decisions>>
    BY DEF BeginAssessment
<1>2. row \in AssessmentRows
    BY DEF Assessment, AssessmentRows, AssessmentOf, Inv, TypeInv, Tables
<1> HIDE DEF row
<1>3. /\ assessments' \in Seq(AssessmentRows) /\ n \in Nat /\ n # 0 /\ n \notin DOMAIN assessments
      /\ n \in DOMAIN assessments' /\ DOMAIN assessments \subseteq DOMAIN assessments'
      /\ \A i \in DOMAIN assessments : assessments'[i] = assessments[i]
    BY <1>1, <1>2, AppendGrown DEF Inv, TypeInv, Ledger
<1>4. Grown
    BY <1>1, <1>3 DEF Grown
<1> HIDE DEF n
<1>5. Ledger'
    <2>1. decisions' \subseteq Judgements /\ \A d \in decisions' : Names(d, Stored')
        BY <1>1, <1>4, GrownNames DEF Inv
    <2>2. \A i \in DOMAIN plans : plans[i].assessment \in DOMAIN assessments'
        BY <1>3 DEF Inv, TypeInv, Ledger
    <2> QED BY <1>1, <1>3, <2>1, <2>2 DEF Inv, TypeInv, Ledger
<1>6. PICK q : q = [r EXCEPT !.standing = {p \in Policies : policies[p] # Null},
                             !.known = Blocking]
    OBVIOUS
<1>7. request' = [request EXCEPT ![a] = q] /\ budget > 0 /\ budget' = budget - 1
    BY <1>1, <1>6 DEF Begin
<1>8. /\ r \in Requests /\ r.step = "judge_risk" /\ r.judged = {} /\ r.pending = {}
      /\ r.assessment = n /\ r.plan = 0 /\ r.change = change /\ r.place = Here /\ r.todo = {}
      /\ r.place \in PlaceRows
    BY <1>3, IdleSound, HereFits DEF Inv, Requests, Steps, Kinds
<1> HIDE DEF r
<1>9. /\ q \in Requests /\ q.step = "judge_risk" /\ q.judged = {} /\ q.pending = {}
      /\ q.assessment = n /\ q.plan = 0 /\ q.change = change /\ q.place = Here /\ q.todo = {}
      /\ q.place \in PlaceRows
    <2>1. Blocking \subseteq Judgements
        BY DEF Blocking, Inv, TypeInv, Ledger
    <2> QED BY <1>6, <1>8, <2>1 DEF Requests
<1>10. ~Executing(q) /\ Planning(q)
    BY <1>9 DEF Executing, Planning
<1>11. Sound(q, Stored')
    BY <1>3, <1>9, <1>10 DEF Sound, Stored
<1>12. Tables'
    <2>1. MaxRequests \in Nat /\ budget \in 0..MaxRequests
        BY GovernanceAssumption DEF Inv, TypeInv, Tables
    <2>2. budget' \in 0..MaxRequests
        BY <1>7, <2>1
    <2> QED BY <1>1, <2>2 DEF Inv, TypeInv, Tables, facts
<1>13. InFlight'
    BY <1>4, <1>7, <1>11, InFlightStays DEF Inv
<1>14. Heeding(q)' /\ Cleared(q)
    <2>1. Here' = Here
        BY <1>1 DEF facts, Here
    <2> QED BY <1>9, <1>10, <2>1 DEF Heeding, Heard, Cleared
<1>15. HeedInv' /\ ClearedInv'
    BY <1>1, <1>4, <1>7, <1>14, OthersHeed DEF facts
<1>16. \A b \in Actors : request'[b] = IF b = a THEN q ELSE request[b]
    BY <1>7 DEF Inv, TypeInv, InFlight
\* No one has heard of the new assessment.
<1>17. /\ \A d \in decisions : d.assessment # n
       /\ \A b \in Actors : \A d \in request[b].pending : d.assessment # n
       /\ \A b \in Actors : Planning(request[b]) => request[b].assessment # n
       /\ \A i \in DOMAIN plans : plans[i].assessment # n
    <2>1. \A b \in Actors : Sound(request[b], Stored)
        BY DEF Inv, TypeInv, InFlight
    <2> QED BY <1>3, <2>1 DEF Inv, TypeInv, Ledger, Sound, Names, Stored
<1>18. ASSUME NEW d, Reviewed(d), d.assessment # n PROVE Reviewed(d)'
    BY <1>1, <1>9, <1>16, <1>18 DEF Reviewed
<1>19. ReviewInv'
    <2>1. \A d \in decisions' : Reviewed(d)'
        BY <1>1, <1>17, <1>18 DEF Inv, ReviewInv
    <2>2. ASSUME NEW b \in Actors, NEW d \in request'[b].pending PROVE Reviewed(d)'
        BY <1>9, <1>16, <1>17, <1>18 DEF Inv, ReviewInv
    <2>3. ASSUME NEW b \in Actors, request'[b].step = "store_execution"
          PROVE request'[b].pending \subseteq request'[b].judged
        BY <1>9, <1>16, <2>3 DEF Inv, ReviewInv, At
    <2>4. ASSUME NEW b \in Actors, Planning(request'[b]) PROVE Alone(b)'
        BY <1>1, <1>9, <1>10, <1>16, <1>17, <2>4 DEF Inv, ReviewInv, Alone
    <2>5. \A i \in DOMAIN plans :
            assessments'[plans[i].assessment] = assessments[plans[i].assessment]
        BY <1>3 DEF Inv, TypeInv, Ledger
    <2>6. (\A i \in DOMAIN plans :
              AboveLow(plans[i].assessment) => plans[i].plan.approvalRequired = TRUE)'
        BY <1>1, <2>5 DEF Inv, ReviewInv, AboveLow, LevelOf
    <2>7. (\A i \in DOMAIN executions :
              plans[executions[i].plan].plan.approvalRequired = TRUE
                => executions[i].status = "awaiting_approval")'
        BY <1>1 DEF Inv, ReviewInv
    <2> QED BY <2>1, <2>2, <2>3, <2>4, <2>6, <2>7 DEF ReviewInv, At
<1> QED BY <1>5, <1>12, <1>13, <1>15, <1>19 DEF Inv, TypeInv

\* A decision that is told which row it was taken for.
LEMMA Told ==
    ASSUME NEW d \in Judgements, NEW n \in Nat
    PROVE /\ [d EXCEPT !.plan = n] \in Judgements /\ [d EXCEPT !.execution = n] \in Judgements
          /\ \A x \in {[d EXCEPT !.plan = n], [d EXCEPT !.execution = n]} :
                x.stage = d.stage /\ x.mode = d.mode /\ x.assessment = d.assessment
          /\ [d EXCEPT !.plan = n].plan = n /\ [d EXCEPT !.plan = n].execution = d.execution
          /\ [d EXCEPT !.execution = n].execution = n /\ [d EXCEPT !.execution = n].plan = d.plan
BY DEF Judgements

LEMMA ApprovalShape ==
    ASSUME NEW c \in Changes, NEW s, NEW e, NEW row \in AssessmentRows, NEW reviewed \in BOOLEAN
    PROVE /\ reviewed = TRUE => Plan(Facts[c], s, e, row, reviewed).approvalRequired = TRUE
          /\ row.environment.production = TRUE /\ row.level # "low"
               => Plan(Facts[c], s, e, row, reviewed).approvalRequired = TRUE
<1>1. /\ row.level \in {"low", "medium", "high", "critical"}
      /\ row.approval = RecommendedApproval(row.level, row.environment.production,
                                            Regulated(row.service, row.environment))
    BY AssessmentShape, LevelNames
<1>2. row.environment.production = TRUE /\ row.level # "low" => row.approval # "self-serve"
    <2>1. Regulated(row.service, row.environment) \in BOOLEAN
        <3>1. row.service \in ServiceShape /\ row.environment \in EnvironmentShape
            BY AssessmentShape, GovernanceAssumption
        <3> QED BY <3>1 DEF Regulated, ServiceShape, EnvironmentShape
    <2> QED BY <1>1, <2>1 DEF RecommendedApproval
<1>3. Plan(Facts[c], s, e, row, reviewed).approvalRequired
        = (row.approval # "self-serve" \/ reviewed)
    BY DEF Plan, RequiresApproval
<1> QED BY <1>2, <1>3

LEMMA StorePlanInv ==
    ASSUME Inv, NEW a \in Actors, StorePlan(a)
    PROVE Inv'
<1> DEFINE r == request[a]
           n == Len(plans) + 1
           reviewed == IsReviewRequired(r.judged)
           plan == Plan(Facts[r.change], r.place.service, r.place.environment,
                        assessments[r.assessment], reviewed)
           row == [change |-> r.change, assessment |-> r.assessment, plan |-> plan]
           base == [r EXCEPT !.plan = n]
           left == {[d EXCEPT !.plan = n] : d \in r.pending}
           q == Persisting(base, left, "idle")
<1>1. /\ r.step = "store_plan" /\ plans' = Append(plans, row)
      /\ request' = [request EXCEPT ![a] = q]
      /\ UNCHANGED <<policies, releases, facts, assessments, executions, decisions, budget>>
    BY DEF StorePlan, Advance, At
<1>2. r \in Requests /\ Sound(r, Stored) /\ Planning(r) /\ Alone(a)
    BY <1>1 DEF Inv, TypeInv, InFlight, Sound, Planning, ReviewInv
<1>3. /\ r.change \in Changes /\ r.assessment \in DOMAIN assessments /\ r.assessment \in Nat
      /\ r.pending \subseteq Judgements /\ r.judged \subseteq Judgements
      /\ \A d \in r.pending \cup r.judged : Names(d, Stored)
    BY <1>2 DEF Sound, Requests, Stored
<1>4. assessments[r.assessment] \in AssessmentRows
    BY <1>3, ElementOfSeq, LenProperties DEF Inv, TypeInv, Ledger
<1>5. reviewed \in BOOLEAN
    BY DEF IsReviewRequired, Outcome
<1>6. r.place \in PlaceRows /\ \A item \in r.todo : item[3] \in {0} \cup Stored.assessments
    BY <1>2 DEF Sound
<1>7. /\ reviewed = TRUE => plan.approvalRequired = TRUE
      /\ AboveLow(r.assessment) => plan.approvalRequired = TRUE
    BY <1>3, <1>4, <1>5, ApprovalShape DEF AboveLow, LevelOf
<1>8. row \in PlanRows
    BY <1>3, <1>4, <1>5, <1>6 DEF PlanRows
<1> HIDE DEF plan
<1>9. row.assessment = r.assessment /\ row.plan = plan
    OBVIOUS
<1> HIDE DEF row
<1>10. /\ plans' \in Seq(PlanRows) /\ n \in Nat /\ n \in DOMAIN plans'
       /\ DOMAIN plans \subseteq DOMAIN plans' /\ n # 0
       /\ \A i \in DOMAIN plans : plans'[i] = plans[i]
       /\ plans'[n] = row /\ \A i \in DOMAIN plans' : i \in DOMAIN plans \/ i = n
    BY <1>1, <1>8, AppendGrown DEF Inv, TypeInv, Ledger
<1>11. Grown
    BY <1>1, <1>10 DEF Grown
<1> HIDE DEF n
<1>12. /\ left \in SUBSET Judgements
       /\ \A x \in left : \E d \in r.pending :
             /\ x.stage = d.stage /\ x.mode = d.mode /\ x.assessment = d.assessment
             /\ x.execution = d.execution /\ x.plan = n
    <2>1. ASSUME NEW x \in left
          PROVE /\ x \in Judgements
                /\ \E d \in r.pending :
                      /\ x.stage = d.stage /\ x.mode = d.mode /\ x.assessment = d.assessment
                      /\ x.execution = d.execution /\ x.plan = n
        <3>1. PICK d \in r.pending : x = [d EXCEPT !.plan = n]
            BY <2>1
        <3>2. d \in Judgements /\ n \in Nat
            BY <1>3, <1>10
        <3> QED BY <3>1, <3>2, Told
    <2> QED BY <2>1
<1> HIDE DEF left
<1>13. /\ base \in Requests /\ base.judged = r.judged /\ base.assessment = r.assessment
       /\ base.plan = n /\ base.todo = r.todo
    BY <1>2, <1>10 DEF Requests
<1> HIDE DEF base
<1>14. Sound(q, Stored')
    <2>1. \A d \in r.pending \cup r.judged : Names(d, Stored')
        BY <1>3, <1>11, NamesStay
    <2>2. n \in {0} \cup Stored'.plans /\ r.assessment \in {0} \cup Stored'.assessments
        BY <1>1, <1>3, <1>10 DEF Stored
    <2>3. \A d \in base.judged \cup left : Names(d, Stored')
        BY <1>12, <1>13, <2>1, <2>2 DEF Names
    <2> QED BY <1>1, <1>6, <1>12, <1>13, <2>2, <2>3, PersistingSound DEF Stored
<1>15. q.pending = left /\ q.step \in {"idle", "persist"} /\ q.next = "idle"
    BY <1>12, <1>13, PersistingShape
<1>16. PICK y : y = q
    OBVIOUS
<1> HIDE DEF q
<1>17. ~Planning(y) /\ ~Executing(y)
    BY <1>15, <1>16 DEF Planning, Executing
<1>18. Heeding(y)' /\ Cleared(y)
    BY <1>15, <1>16, <1>17 DEF Heeding, Heard, Cleared
<1>19. HeedInv' /\ ClearedInv'
    BY <1>1, <1>11, <1>16, <1>18, OthersHeed DEF facts
<1>20. InFlight'
    BY <1>1, <1>11, <1>14, InFlightStays DEF Inv
<1>21. Ledger'
    <2>1. decisions' \subseteq Judgements /\ \A d \in decisions' : Names(d, Stored')
        BY <1>1, <1>11, GrownNames DEF Inv
    <2>2. \A i \in DOMAIN plans' : plans'[i].assessment \in DOMAIN assessments'
        BY <1>1, <1>3, <1>9, <1>10 DEF Inv, TypeInv, Ledger
    <2>3. \A i \in DOMAIN executions' : executions'[i].plan \in DOMAIN plans'
        BY <1>1, <1>10 DEF Inv, TypeInv, Ledger
    <2> QED BY <1>1, <1>10, <2>1, <2>2, <2>3 DEF Inv, TypeInv, Ledger
<1>22. Tables'
    BY <1>1, SameTables DEF Inv
<1>23. \A b \in Actors : request'[b] = IF b = a THEN y ELSE request[b]
    BY <1>1, <1>16 DEF Inv, TypeInv, InFlight
\* A review asked for this assessment is one the plan was made with.
<1>24. ASSUME NEW d, Reviewed(d) PROVE Reviewed(d)'
    <2>1. ASSUME d.mode = "require_manual_review", d.stage \in PlanStages,
                 NEW i \in DOMAIN plans', plans'[i].assessment = d.assessment
          PROVE plans'[i].plan.approvalRequired = TRUE
        <3>1. CASE i \in DOMAIN plans
            BY <1>10, <1>24, <2>1, <3>1 DEF Reviewed
        <3>2. CASE i = n
            <4>1. Planning(request[a]) /\ request[a].assessment = d.assessment
                BY <1>2, <1>9, <1>10, <2>1, <3>2
            <4>2. reviewed
                BY <1>24, <2>1, <4>1 DEF Reviewed
            <4> QED BY <1>5, <1>7, <1>9, <1>10, <3>2, <4>2
        <3> QED BY <1>10, <3>1, <3>2
    <2>2. ASSUME NEW c \in Actors, Planning(request'[c])
          PROVE request'[c] = request[c]
        BY <1>17, <1>23, <2>2
    <2> QED BY <1>1, <1>24, <2>1, <2>2 DEF Reviewed
<1>25. ASSUME NEW x \in left PROVE Reviewed(x)'
    <2>1. PICK d \in r.pending : /\ x.stage = d.stage /\ x.mode = d.mode
                                 /\ x.assessment = d.assessment /\ x.execution = d.execution
        BY <1>12
    <2>2. Reviewed(d)
        BY DEF Inv, ReviewInv
    <2>3. Reviewed(d)'
        BY <1>24, <2>2
    <2> QED BY <2>1, <2>3 DEF Reviewed
<1>26. ReviewInv'
    <2>1. \A d \in decisions' : Reviewed(d)'
        BY <1>1, <1>24 DEF Inv, ReviewInv
    <2>2. ASSUME NEW b \in Actors, NEW d \in request'[b].pending PROVE Reviewed(d)'
        <3>1. CASE b = a
            BY <1>15, <1>16, <1>23, <1>25, <3>1
        <3>2. CASE b # a
            BY <1>23, <1>24, <3>2 DEF Inv, ReviewInv
        <3> QED BY <3>1, <3>2
    <2>3. ASSUME NEW b \in Actors, request'[b].step = "store_execution"
          PROVE request'[b].pending \subseteq request'[b].judged
        BY <1>15, <1>16, <1>23, <2>3 DEF Inv, ReviewInv, At
    <2>4. ASSUME NEW b \in Actors, Planning(request'[b]) PROVE Alone(b)'
        <3>1. b # a /\ request'[b] = request[b] /\ Alone(b)
            BY <1>17, <1>23, <2>4 DEF Inv, ReviewInv
        <3>2. request[b].assessment # r.assessment
            BY <1>2, <2>4, <3>1 DEF Alone
        <3>3. \A i \in DOMAIN plans' : plans'[i].assessment # request[b].assessment
            BY <1>9, <1>10, <3>1, <3>2 DEF Alone
        <3>4. \A c \in Actors \ {b} :
                 Planning(request'[c]) => request'[c].assessment # request[b].assessment
            BY <1>17, <1>23, <3>1 DEF Alone
        <3> QED BY <3>1, <3>3, <3>4 DEF Alone
    <2>5. (\A i \in DOMAIN plans :
              AboveLow(plans[i].assessment) => plans[i].plan.approvalRequired = TRUE)'
        <3>1. \A k : AboveLow(k)' = AboveLow(k)
            BY <1>1 DEF AboveLow, LevelOf
        <3> QED BY <1>7, <1>9, <1>10, <3>1 DEF Inv, ReviewInv
    <2>6. (\A i \in DOMAIN executions :
              plans[executions[i].plan].plan.approvalRequired = TRUE
                => executions[i].status = "awaiting_approval")'
        BY <1>1, <1>10 DEF Inv, TypeInv, Ledger, ReviewInv
    <2> QED BY <2>1, <2>2, <2>3, <2>4, <2>5, <2>6 DEF ReviewInv, At
<1> QED BY <1>19, <1>20, <1>21, <1>22, <1>26 DEF Inv, TypeInv

LEMMA StatusShape ==
    ASSUME NEW plan, NEW reviewed \in BOOLEAN
    PROVE /\ InitialStatus(plan, reviewed) \in {"awaiting_approval", "planned"}
          /\ plan.approvalRequired = TRUE => InitialStatus(plan, reviewed) = "awaiting_approval"
          /\ reviewed = TRUE => InitialStatus(plan, reviewed) = "awaiting_approval"
BY DEF InitialStatus

LEMMA StoreExecutionInv ==
    ASSUME Inv, NEW a \in Actors, StoreExecution(a)
    PROVE Inv'
<1> DEFINE r == request[a]
           n == Len(executions) + 1
           reviewed == IsReviewRequired(r.judged)
           status == InitialStatus(plans[r.plan].plan, reviewed)
           row == [plan |-> r.plan, change |-> r.change, release |-> r.release,
                   status |-> status]
           left == {[d EXCEPT !.execution = n] : d \in r.pending}
           q == Persisting(r, left, "idle")
<1>1. /\ r.step = "store_execution" /\ executions' = Append(executions, row)
      /\ request' = [request EXCEPT ![a] = q]
      /\ UNCHANGED <<policies, releases, facts, assessments, plans, decisions, budget>>
    BY DEF StoreExecution, Advance, At
<1>2. /\ r \in Requests /\ Sound(r, Stored) /\ Executing(r)
      /\ r.pending \subseteq r.judged
    BY <1>1 DEF Inv, TypeInv, InFlight, Sound, Executing, ReviewInv, At
<1>3. /\ r.change \in Changes /\ r.plan \in DOMAIN plans /\ r.plan \in Nat
      /\ r.release \in Releases \cup {Null}
      /\ r.pending \subseteq Judgements /\ r.judged \subseteq Judgements
      /\ \A d \in r.pending \cup r.judged : Names(d, Stored)
      /\ r.assessment \in {0} \cup Stored.assessments
      /\ \A item \in r.todo : item[3] \in {0} \cup Stored.assessments
    BY <1>2 DEF Sound, Requests, Stored
<1>4. reviewed \in BOOLEAN
    BY DEF IsReviewRequired, Outcome
<1>5. /\ status \in {"awaiting_approval", "planned"}
      /\ plans[r.plan].plan.approvalRequired = TRUE => status = "awaiting_approval"
      /\ reviewed = TRUE => status = "awaiting_approval"
    BY <1>4, StatusShape
<1> HIDE DEF status
<1>6. row \in ExecutionRows /\ row.plan = r.plan /\ row.status = status
    BY <1>3, <1>5 DEF ExecutionRows
<1> HIDE DEF row
<1>7. /\ executions' \in Seq(ExecutionRows) /\ n \in Nat /\ n \in DOMAIN executions'
      /\ DOMAIN executions \subseteq DOMAIN executions' /\ n # 0
      /\ n \notin DOMAIN executions
      /\ \A i \in DOMAIN executions : executions'[i] = executions[i]
      /\ executions'[n] = row /\ \A i \in DOMAIN executions' : i \in DOMAIN executions \/ i = n
    BY <1>1, <1>6, AppendGrown DEF Inv, TypeInv, Ledger
<1>8. Grown
    BY <1>1, <1>7 DEF Grown
<1> HIDE DEF n
<1>9. /\ left \in SUBSET Judgements
      /\ \A x \in left : \E d \in r.pending :
            /\ x.stage = d.stage /\ x.mode = d.mode /\ x.assessment = d.assessment
            /\ x.execution = n /\ x.plan = d.plan
    <2>1. ASSUME NEW x \in left
          PROVE /\ x \in Judgements
                /\ \E d \in r.pending :
                      /\ x.stage = d.stage /\ x.mode = d.mode /\ x.assessment = d.assessment
                      /\ x.execution = n /\ x.plan = d.plan
        <3>1. PICK d \in r.pending : x = [d EXCEPT !.execution = n]
            BY <2>1
        <3>2. d \in Judgements /\ n \in Nat
            BY <1>3, <1>7
        <3> QED BY ZenonT(60), <3>1, <3>2, Told
    <2> QED BY <2>1
<1> HIDE DEF left
<1>10. Sound(q, Stored')
    <2>1. \A d \in r.pending \cup r.judged : Names(d, Stored')
        BY <1>3, <1>8, NamesStay
    <2>2. /\ n \in {0} \cup Stored'.executions /\ r.assessment \in {0} \cup Stored'.assessments
          /\ r.plan \in {0} \cup Stored'.plans
        BY <1>1, <1>3, <1>7 DEF Stored
    <2>3. \A d \in r.judged \cup left : Names(d, Stored')
        BY <1>9, <2>1, <2>2 DEF Names
    <2> QED BY <1>1, <1>2, <1>3, <1>9, <2>2, <2>3, PersistingSound DEF Stored
<1>11. q.pending = left /\ q.step \in {"idle", "persist"} /\ q.next = "idle"
    BY <1>2, <1>9, PersistingShape
<1>12. PICK y : y = q
    OBVIOUS
<1> HIDE DEF q
<1>13. ~Planning(y) /\ ~Executing(y)
    BY <1>11, <1>12 DEF Planning, Executing
<1>14. Heeding(y)' /\ Cleared(y)
    BY <1>11, <1>12, <1>13 DEF Heeding, Heard, Cleared
<1>15. HeedInv' /\ ClearedInv'
    BY <1>1, <1>8, <1>12, <1>14, OthersHeed DEF facts
<1>16. InFlight'
    BY <1>1, <1>8, <1>10, InFlightStays DEF Inv
<1>17. Ledger'
    <2>1. decisions' \subseteq Judgements /\ \A d \in decisions' : Names(d, Stored')
        BY <1>1, <1>8, GrownNames DEF Inv
    <2>2. \A i \in DOMAIN executions' : executions'[i].plan \in DOMAIN plans'
        BY <1>1, <1>3, <1>6, <1>7 DEF Inv, TypeInv, Ledger
    <2> QED BY <1>1, <1>7, <2>1, <2>2 DEF Inv, TypeInv, Ledger
<1>18. Tables'
    BY <1>1, SameTables DEF Inv
<1>19. \A b \in Actors : request'[b] = IF b = a THEN y ELSE request[b]
    BY <1>1, <1>12 DEF Inv, TypeInv, InFlight
\* A decision that was taken before names no row, or one that is stored.
<1>20. ASSUME NEW d, Names(d, Stored), Reviewed(d) PROVE Reviewed(d)'
    <2>1. d.execution # 0 => executions'[d.execution] = executions[d.execution]
        BY <1>7, <1>20 DEF Names, Stored
    <2>2. ASSUME NEW c \in Actors, Planning(request'[c])
          PROVE request'[c] = request[c]
        BY <1>13, <1>19, <2>2
    <2> QED BY <1>1, <1>20, <2>1, <2>2 DEF Reviewed
\* What is recorded of the new execution asked for a review that it was given.
<1>21. ASSUME NEW x \in left PROVE Reviewed(x)'
    <2>1. PICK d \in r.pending : /\ x.stage = d.stage /\ x.mode = d.mode
                                 /\ x.assessment = d.assessment /\ x.execution = n
        BY <1>9
    <2>2. Reviewed(d)
        BY DEF Inv, ReviewInv
    <2>3. Reviewed(d)'
        BY <1>3, <1>20, <2>2
    <2>4. x.mode = "require_manual_review" => executions'[n].status = "awaiting_approval"
        <3>1. x.mode = "require_manual_review" => reviewed = TRUE
            BY <1>2, <2>1 DEF IsReviewRequired, Outcome
        <3> QED BY <1>5, <1>6, <1>7, <3>1
    <2> QED BY <2>1, <2>3, <2>4 DEF Reviewed
<1>22. ReviewInv'
    <2>1. \A d \in decisions' : Reviewed(d)'
        BY <1>1, <1>20 DEF Inv, TypeInv, Ledger, ReviewInv
    <2>2. ASSUME NEW b \in Actors, NEW d \in request'[b].pending PROVE Reviewed(d)'
        <3>1. CASE b = a
            BY <1>11, <1>12, <1>19, <1>21, <3>1
        <3>2. CASE b # a
            <4>1. d \in request[b].pending
                BY <1>19, <2>2, <3>2
            <4>2. Names(d, Stored) /\ Reviewed(d)
                BY <4>1 DEF Inv, TypeInv, InFlight, Sound, ReviewInv
            <4> QED BY <1>20, <4>2
        <3> QED BY <3>1, <3>2
    <2>3. ASSUME NEW b \in Actors, request'[b].step = "store_execution"
          PROVE request'[b].pending \subseteq request'[b].judged
        BY <1>11, <1>12, <1>19, <2>3 DEF Inv, ReviewInv, At
    <2>4. ASSUME NEW b \in Actors, Planning(request'[b]) PROVE Alone(b)'
        <3>1. b # a /\ request'[b] = request[b] /\ Alone(b)
            BY <1>13, <1>19, <2>4 DEF Inv, ReviewInv
        <3>2. \A c \in Actors \ {b} :
                 Planning(request'[c]) => request'[c].assessment # request[b].assessment
            BY <1>13, <1>19, <3>1 DEF Alone
        <3> QED BY <1>1, <3>1, <3>2 DEF Alone
    <2>5. (\A i \in DOMAIN plans :
              AboveLow(plans[i].assessment) => plans[i].plan.approvalRequired = TRUE)'
        <3>1. \A k : AboveLow(k)' = AboveLow(k)
            BY <1>1 DEF AboveLow, LevelOf
        <3> QED BY <1>1, <3>1 DEF Inv, ReviewInv
    <2>6. (\A i \in DOMAIN executions :
              plans[executions[i].plan].plan.approvalRequired = TRUE
                => executions[i].status = "awaiting_approval")'
        BY <1>1, <1>5, <1>6, <1>7 DEF Inv, ReviewInv
    <2> QED BY <2>1, <2>2, <2>3, <2>4, <2>5, <2>6 DEF ReviewInv, At
<1> QED BY <1>15, <1>16, <1>17, <1>18, <1>22 DEF Inv, TypeInv

----------------------------------------------------------------------------
(* Steps that end the standing of policies                                 *)

LEMMA SoundAlike ==
    ASSUME NEW stored, NEW x, Sound(x, stored), NEW left, left \subseteq x.standing, NEW y,
           y = [x EXCEPT !.standing = left]
    PROVE Sound(y, stored) /\ Same(x, y) /\ y.standing = left /\ left \subseteq Policies
<1>1. x \in Requests
    BY DEF Sound
<1>2. /\ y \in Requests /\ y.standing = left /\ left \subseteq Policies /\ Same(x, y)
      /\ y.plan = x.plan /\ y.policy = x.policy /\ y.todo = x.todo
    BY <1>1 DEF Requests, Same
<1>3. Planning(y) = Planning(x) /\ Executing(y) = Executing(x)
    BY <1>2 DEF Same, Planning, Executing
<1> QED BY <1>2, <1>3 DEF Sound, Same

LEMMA FollowsSame ==
    ASSUME NEW x, NEW y, NEW z, Follows(x, y), Same(y, z)
    PROVE Follows(x, z)
<1>1. Planning(z) = Planning(y)
    BY DEF Same, Planning
<1> QED BY <1>1 DEF Follows, Same

LEMMA UnsettleInv ==
    ASSUME Inv, NEW touched, NEW f, f \in [Actors -> Requests], request' = Unsettle(touched, f),
           \A b \in Actors : /\ Sound(f[b], Stored) /\ Heeding(f[b]) /\ Cleared(f[b])
                             /\ Follows(request[b], f[b]),
           UNCHANGED <<ledger, decisions>>, Tables',
           \A p \in Policies \ touched : policies'[p] = policies[p],
           touched = Policies \/ UNCHANGED <<service, environment>>
    PROVE Inv'
<1>1. Grown /\ Stored' = Stored /\ UNCHANGED <<assessments, plans, executions, decisions>>
    BY SameGrown DEF ledger
<1>2. ASSUME NEW b \in Actors, NEW y, y = request'[b]
      PROVE /\ Sound(y, Stored) /\ Follows(request[b], y) /\ Heeding(y)' /\ Cleared(y)
            /\ y \in Requests
    <2>1. y = [f[b] EXCEPT !.standing = @ \ touched]
        BY <1>2 DEF Unsettle
    <2>2. PICK x : x = f[b]
        OBVIOUS
    <2>3. Sound(x, Stored) /\ Heeding(x) /\ Cleared(x) /\ Follows(request[b], x)
        BY <2>2
    <2>4. Sound(y, Stored) /\ Same(x, y) /\ y.standing \subseteq Policies \ touched
        <3>1. PICK left : left = x.standing \ touched
            OBVIOUS
        <3>2. y = [x EXCEPT !.standing = left] /\ left \subseteq x.standing
            BY <2>1, <2>2, <3>1
        <3>3. Sound(y, Stored) /\ Same(x, y) /\ y.standing = left /\ left \subseteq Policies
            BY <2>3, <3>2, SoundAlike
        <3> QED BY <3>1, <3>3
    <2>5. \A p \in y.standing : policies'[p] = policies[p]
        BY <2>4
    <2>6. y.standing # {} => UNCHANGED <<service, environment>>
        BY <2>4
    <2>7. Heeding(y)'
        BY <1>1, <2>3, <2>4, <2>5, <2>6, HeedStays DEF Inv
    <2> QED BY <2>3, <2>4, <2>7, FollowsSame, ClearedStays DEF Sound
<1>3. InFlight'
    <2>1. request' \in [Actors -> Requests]
        <3>1. \A b \in Actors : request'[b] \in Requests
            BY <1>2
        <3> QED BY <3>1 DEF Unsettle
    <2> QED BY <1>1, <1>2, <2>1 DEF InFlight
<1>4. Ledger'
    BY <1>1 DEF Inv, TypeInv, Ledger
<1>5. ReviewInv'
    <2>1. \A b \in Actors : Follows(request[b], request'[b])
        BY <1>2
    <2> QED BY <1>1, <2>1, ReviewStep DEF Inv
<1>6. \A b \in Actors : Heeding(request[b])'
    <2>1. ASSUME NEW b \in Actors PROVE Heeding(request[b])'
        <3>1. ASSUME NEW y, y = request'[b] PROVE Heeding(y)'
            BY <1>2, <3>1
        <3> QED BY <3>1
    <2> QED BY <2>1
<1>7. \A b \in Actors : Cleared(request'[b])
    BY <1>2
<1> QED BY <1>3, <1>4, <1>5, <1>6, <1>7 DEF Inv, TypeInv, HeedInv, ClearedInv

LEMMA PatchedShape ==
    ASSUME NEW row \in PolicyShape({Owner}) \cup {Null}, NEW new \in Patched(row)
    PROVE new \in PolicyShape({Owner})
<1>1. CASE row = Null
    BY <1>1, GovernanceAssumption DEF Patched
<1>2. CASE row # Null
    <2>1. row \in PolicyShape({Owner}) /\ NewModes \subseteq Modes
        BY <1>2, GovernanceAssumption
    <2>2. CASE new = [row EXCEPT !.enabled = ~@]
        <3>1. PICK on : on = ~row.enabled
            OBVIOUS
        <3>2. on \in BOOLEAN
            BY <3>1
        <3>3. new = [row EXCEPT !.enabled = on]
            BY <2>2, <3>1
        <3> QED BY <2>1, <3>2, <3>3 DEF PolicyShape
    <2>3. CASE new # [row EXCEPT !.enabled = ~@]
        <3>1. PICK m \in NewModes : new = [row EXCEPT !.mode = m]
            BY <1>2, <2>3 DEF Patched
        <3> QED BY <2>1, <3>1 DEF PolicyShape
    <2> QED BY <2>2, <2>3
<1> QED BY <1>1, <1>2

LEMMA WritePolicyInv ==
    ASSUME Inv, NEW a \in Actors, WritePolicy(a)
    PROVE Inv'
<1> DEFINE r == request[a]
           f == [request EXCEPT ![a] = Idle]
<1>1. /\ r.step = "write_policy" /\ request' = Unsettle({r.policy}, f)
      /\ UNCHANGED <<releases, facts, ledger, decisions, budget>>
      /\ \E row \in Patched(r.row) : policies' = [policies EXCEPT ![r.policy] = row]
    BY DEF WritePolicy, At
<1>2. PICK row \in Patched(r.row) : policies' = [policies EXCEPT ![r.policy] = row]
    BY <1>1
<1>3. r \in Requests /\ r.policy \in Policies /\ r.row \in PolicyShape({Owner}) \cup {Null}
    BY <1>1 DEF Inv, TypeInv, InFlight, Sound, Requests
<1>4. row \in PolicyShape({Owner})
    BY <1>3, PatchedShape
<1>5. Tables'
    BY <1>1, <1>2, <1>3, <1>4 DEF Inv, TypeInv, Tables, facts
<1>6. \A p \in Policies \ {r.policy} : policies'[p] = policies[p]
    BY <1>2, <1>3 DEF Inv, TypeInv, Tables
<1>7. f \in [Actors -> Requests] /\ \A b \in Actors : f[b] = IF b = a THEN Idle ELSE request[b]
    BY IdleSound DEF Inv, TypeInv, InFlight
<1> HIDE DEF f
<1>8. ASSUME NEW b \in Actors
      PROVE Sound(f[b], Stored) /\ Heeding(f[b]) /\ Cleared(f[b]) /\ Follows(request[b], f[b])
    <2>1. CASE b = a
        <3>1. ~Planning(Idle) /\ ~Executing(Idle) /\ Idle.step # "store_execution"
            BY IdleSound DEF Planning, Executing
        <3>2. Follows(request[a], Idle) /\ Cleared(Idle) /\ Heeding(Idle) /\ Sound(Idle, Stored)
            BY <3>1, IdleSound, QuietHeeds DEF Follows, Cleared
        <3> QED BY <1>7, <2>1, <3>2
    <2>2. CASE b # a
        <3>1. f[b] = request[b]
            BY <1>7, <2>2
        <3>2. request[b].step = "store_execution" => request[b].pending \subseteq request[b].judged
            BY DEF Inv, ReviewInv, At
        <3>3. Follows(request[b], request[b])
            BY <3>2, SameReflexive, SameFollows
        <3>4. Sound(request[b], Stored) /\ Heeding(request[b]) /\ Cleared(request[b])
            BY DEF Inv, TypeInv, InFlight, HeedInv, ClearedInv
        <3> QED BY <3>1, <3>3, <3>4
    <2> QED BY <2>1, <2>2
<1>9. UNCHANGED <<ledger, decisions, service, environment>>
    BY <1>1 DEF facts
<1> QED BY <1>1, <1>5, <1>6, <1>7, <1>8, <1>9, UnsettleInv

LEMMA FactsChangeInv ==
    ASSUME Inv, FactsChange
    PROVE Inv'
<1>1. /\ request' = Unsettle(Policies, request) /\ budget > 0 /\ budget' = budget - 1
      /\ UNCHANGED <<policies, releases, ledger, decisions>>
    BY DEF FactsChange
<1>2. service' \in Services /\ environment' \in Environments /\ databaseBlocked' \in BOOLEAN
    <2>1. service \in Services /\ environment \in Environments /\ databaseBlocked \in BOOLEAN
        BY DEF Inv, TypeInv, Tables
    <2> QED BY <2>1, Zenon DEF FactsChange
<1>3. Tables'
    <2>1. MaxRequests \in Nat /\ budget \in 0..MaxRequests
        BY GovernanceAssumption DEF Inv, TypeInv, Tables
    <2>2. budget' \in 0..MaxRequests
        BY <1>1, <2>1
    <2> QED BY <1>1, <1>2, <2>2 DEF Inv, TypeInv, Tables
<1>4. ASSUME NEW b \in Actors
      PROVE /\ Sound(request[b], Stored) /\ Heeding(request[b]) /\ Cleared(request[b])
            /\ Follows(request[b], request[b])
    <2>1. request[b].step = "store_execution" => request[b].pending \subseteq request[b].judged
        BY DEF Inv, ReviewInv, At
    <2>2. Follows(request[b], request[b])
        BY <2>1, SameReflexive, SameFollows
    <2> QED BY <2>2 DEF Inv, TypeInv, InFlight, HeedInv, ClearedInv
<1>5. request \in [Actors -> Requests]
    BY DEF Inv, TypeInv, InFlight
<1> QED BY <1>1, <1>3, <1>4, <1>5, UnsettleInv

----------------------------------------------------------------------------
LEMMA InitInv == Init => Inv
<1> SUFFICES ASSUME Init PROVE Inv
    OBVIOUS
<1>1. TypeInv
    BY InitTypes
<1>2. decisions = {} /\ \A a \in Actors : request[a] = Idle
    BY DEF Init
<1>3. ~Planning(Idle) /\ ~Executing(Idle) /\ Idle.step # "store_execution"
    BY IdleSound DEF Planning, Executing
<1> DEFINE none == << >>
<1>4. DOMAIN none = {}
    OBVIOUS
<1>5. plans = none /\ executions = none
    BY DEF Init
<1> HIDE DEF none
<1>6. ReviewInv
    BY <1>2, <1>3, <1>4, <1>5, IdleSound DEF ReviewInv, At
<1>7. HeedInv /\ ClearedInv
    BY <1>2, <1>3, QuietHeeds DEF HeedInv, ClearedInv, Cleared
<1> QED BY <1>1, <1>6, <1>7 DEF Inv

LEMMA StutterInv == Inv /\ UNCHANGED vars => Inv'
<1> SUFFICES ASSUME Inv, UNCHANGED vars PROVE Inv'
    OBVIOUS
<1>1. /\ UNCHANGED <<policies, releases, service, environment, databaseBlocked, assessments,
                     plans, executions, decisions, request, budget>>
    BY DEF vars, facts, ledger
<1>2. Tables' /\ InFlight' /\ Ledger'
    BY <1>1 DEF Inv, TypeInv, Tables, InFlight, Ledger, Stored
<1>3. ReviewInv'
    BY <1>1 DEF Inv, ReviewInv, Reviewed, Alone, AboveLow, LevelOf, At
<1>4. HeedInv' /\ ClearedInv'
    BY <1>1 DEF Inv, HeedInv, ClearedInv, Heeding, Matching, LevelOf, Here
<1> QED BY <1>2, <1>3, <1>4 DEF Inv, TypeInv

LEMMA NextInv == Inv /\ [Next]_vars => Inv'
<1> SUFFICES ASSUME Inv, [Next]_vars PROVE Inv'
    OBVIOUS
<1>1. CASE FactsChange
    BY <1>1, FactsChangeInv
<1>2. ASSUME NEW a \in Actors, NEW p \in Policies, BeginPolicyEdit(a, p) PROVE Inv'
    BY <1>2, BeginPolicyEditInv
<1>3. ASSUME NEW a \in Actors, WritePolicy(a) PROVE Inv'
    BY <1>3, WritePolicyInv
<1>4. ASSUME NEW a \in Actors, NEW kind \in {"assess", "plan"}, NEW c \in Changes,
             BeginAssessment(a, kind, c)
      PROVE Inv'
    BY <1>4, BeginAssessmentInv
<1>5. ASSUME NEW a \in Actors, JudgeRisk(a) \/ ReadPlace(a) \/ JudgePlan(a) \/ StorePlan(a)
      PROVE Inv'
    BY <1>5, JudgeRiskInv, ReadPlaceInv, JudgePlanInv, StorePlanInv
<1>6. ASSUME NEW a \in Actors, NEW rel \in Releases, BeginRelease(a, rel) PROVE Inv'
    BY <1>6, BeginReleaseInv
<1>7. ASSUME NEW a \in Actors, WriteRelease(a) \/ ReadRelease(a) \/ JudgeRelease(a) PROVE Inv'
    BY <1>7, WriteReleaseInv, ReadReleaseInv, JudgeReleaseInv
<1>8. ASSUME NEW a \in Actors, NEW p \in DOMAIN plans, NEW rel \in Releases \cup {Null},
             BeginExecution(a, p, rel)
      PROVE Inv'
    BY <1>8, BeginExecutionInv
<1>9. ASSUME NEW a \in Actors, JudgeExecution(a) \/ StoreExecution(a) PROVE Inv'
    BY <1>9, JudgeExecutionInv, StoreExecutionInv
<1>10. ASSUME NEW a \in Actors, Persist(a) \/ Abandon(a) PROVE Inv'
    BY <1>10, PersistInv, AbandonInv
<1>11. CASE UNCHANGED vars
    BY <1>11, StutterInv
<1> QED BY <1>1, <1>2, <1>3, <1>4, <1>5, <1>6, <1>7, <1>8, <1>9, <1>10, <1>11 DEF Next

----------------------------------------------------------------------------
(* The theorems                                                            *)

\* Every stored row has its shape and refers to rows that are stored: the handlers of
\* application.go and release_management.go write an assessment before a plan of it, a
\* plan before an execution of it, and a decision after what it names.
THEOREM TypeInvariance == Spec => []TypeOK
<1>1. Inv => TypeOK
    BY TypesHold DEF Inv
<1> QED BY <1>1, InitInv, NextInv, PTL DEF Spec

LEMMA ReviewsHold == Inv => ReviewsPrecedeExecution
<1> SUFFICES ASSUME Inv, NEW i \in DOMAIN executions
             PROVE (\/ \E d \in decisions :
                          /\ d.mode = "require_manual_review"
                          /\ \/ d.execution = i
                             \/ /\ d.stage \in PlanStages
                                /\ d.assessment = plans[executions[i].plan].assessment
                    \/ /\ assessments[plans[executions[i].plan].assessment].environment.production
                       /\ LevelOf(plans[executions[i].plan].assessment) # "low")
                   => executions[i].status = "awaiting_approval"
    BY DEF ReviewsPrecedeExecution
<1> DEFINE e == executions[i]
           assessed == plans[e.plan].assessment
<1>1. e.plan \in DOMAIN plans /\ i # 0 /\ assessed \in DOMAIN assessments
    BY ElementOfSeq, LenProperties DEF Inv, TypeInv, Ledger
<1>2. ASSUME plans[e.plan].plan.approvalRequired = TRUE PROVE e.status = "awaiting_approval"
    BY <1>2 DEF Inv, ReviewInv
<1>3. ASSUME NEW d \in decisions, d.mode = "require_manual_review", d.execution = i
      PROVE e.status = "awaiting_approval"
    BY <1>1, <1>3 DEF Inv, ReviewInv, Reviewed
<1>4. ASSUME NEW d \in decisions, d.mode = "require_manual_review", d.stage \in PlanStages,
             d.assessment = assessed
      PROVE e.status = "awaiting_approval"
    BY <1>1, <1>2, <1>4 DEF Inv, ReviewInv, Reviewed
<1>5. ASSUME assessments[assessed].environment.production, LevelOf(assessed) # "low"
      PROVE e.status = "awaiting_approval"
    <2>1. assessments[assessed].environment.production = TRUE
        <3>1. assessments[assessed] \in AssessmentRows
            BY <1>1, ElementOfSeq, LenProperties DEF Inv, TypeInv, Ledger
        <3>2. assessments[assessed].environment \in EnvironmentShape
            BY <3>1, AssessmentShape, GovernanceAssumption
        <3> QED BY <1>5, <3>2 DEF EnvironmentShape
    <2>2. AboveLow(assessed)
        BY <1>5, <2>1 DEF AboveLow
    <2> QED BY <1>1, <1>2, <2>2 DEF Inv, ReviewInv
<1> QED BY <1>3, <1>4, <1>5

\* The decision and the row it was taken for are written by different statements, and
\* any of them may be the last one; the flag is on the plan before the plan can be
\* executed, and on the execution with its insert (CreateRolloutPlan and
\* CreateRolloutExecution).
THEOREM ReviewsComeFirst == Spec => []ReviewsPrecedeExecution
BY InitInv, NextInv, ReviewsHold, PTL DEF Spec

----------------------------------------------------------------------------
\* Who stores a plan or an execution.
LEMMA WhoStores ==
    ASSUME Inv, [Next]_vars, NEW a \in Actors, request'[a] # request[a]
    PROVE /\ Len(plans') > Len(plans) => StorePlan(a)
          /\ Len(executions') > Len(executions) => StoreExecution(a)
<1>1. Len(plans) \in Nat /\ Len(executions) \in Nat
    BY LenProperties DEF Inv, TypeInv, Ledger
<1>2. ASSUME NEW b \in Actors, StorePlan(b) PROVE b = a /\ UNCHANGED executions
    <2>1. PICK q : request' = [request EXCEPT ![b] = q] /\ UNCHANGED executions
        BY <1>2 DEF StorePlan, Advance
    <2> QED BY <2>1 DEF Inv, TypeInv, InFlight
<1>3. ASSUME NEW b \in Actors, StoreExecution(b) PROVE b = a /\ UNCHANGED plans
    <2>1. PICK q : request' = [request EXCEPT ![b] = q] /\ UNCHANGED plans
        BY <1>3 DEF StoreExecution, Advance
    <2> QED BY <2>1 DEF Inv, TypeInv, InFlight
<1>4. \/ UNCHANGED <<plans, executions>>
      \/ \E b \in Actors : StorePlan(b) \/ StoreExecution(b)
    <2>1. CASE FactsChange
        BY <2>1 DEF FactsChange, ledger
    <2>2. CASE \E b \in Actors, p \in Policies : BeginPolicyEdit(b, p)
        BY <2>2 DEF BeginPolicyEdit, ledger
    <2>3. CASE \E b \in Actors : WritePolicy(b)
        BY <2>3 DEF WritePolicy, ledger
    <2>4. CASE \E b \in Actors, kind \in {"assess", "plan"}, c \in Changes :
                  BeginAssessment(b, kind, c)
        BY <2>4 DEF BeginAssessment
    <2>5. CASE \E b \in Actors : JudgeRisk(b) \/ ReadPlace(b) \/ JudgePlan(b)
        BY <2>5 DEF JudgeRisk, ReadPlace, JudgePlan, ledger
    <2>6. CASE \E b \in Actors, rel \in Releases : BeginRelease(b, rel)
        BY <2>6 DEF BeginRelease, ledger
    <2>7. CASE \E b \in Actors : WriteRelease(b) \/ ReadRelease(b) \/ JudgeRelease(b)
        BY <2>7 DEF WriteRelease, ReadRelease, JudgeRelease, ledger
    <2>8. CASE \E b \in Actors, p \in DOMAIN plans, rel \in Releases \cup {Null} :
                  BeginExecution(b, p, rel)
        BY <2>8 DEF BeginExecution, ledger
    <2>9. CASE \E b \in Actors : JudgeExecution(b) \/ Persist(b) \/ Abandon(b)
        BY <2>9 DEF JudgeExecution, Persist, Abandon, ledger
    <2>10. CASE UNCHANGED vars
        BY <2>10 DEF vars, ledger
    <2> QED BY <2>1, <2>2, <2>3, <2>4, <2>5, <2>6, <2>7, <2>8, <2>9, <2>10 DEF Next
<1>5. CASE UNCHANGED <<plans, executions>>
    BY <1>1, <1>5
<1>6. CASE \E b \in Actors : StorePlan(b)
    <2>1. StorePlan(a) /\ UNCHANGED executions
        BY <1>2, <1>6
    <2> QED BY <1>1, <2>1
<1>7. CASE \E b \in Actors : StoreExecution(b)
    <2>1. StoreExecution(a) /\ UNCHANGED plans
        BY <1>3, <1>7
    <2> QED BY <1>1, <2>1
<1> QED BY <1>4, <1>5, <1>6, <1>7

\* A policy that stands has been heard.
LEMMA StandingIsHeard ==
    ASSUME Inv, NEW a \in Actors, NEW stages, stages \subseteq Heard(request[a]), NEW mode,
           StandingFor(a, stages, mode)
    PROVE Outcome(request[a].judged, mode)
<1> DEFINE r == request[a]
<1>1. PICK p \in r.standing, stage \in stages :
         /\ policies[p].mode = mode
         /\ p \in Matching(stage, r.change, Facts[r.change].types, LevelOf(r.assessment), Here)
    BY DEF StandingFor
<1>2. Heeding(r) /\ (Planning(r) \/ Executing(r))
    BY <1>1 DEF Inv, HeedInv, Heard, Planning, Executing
<1>3. r.place = Here
    BY <1>1, <1>2 DEF Heeding
<1>4. \E d \in r.judged : d.mode = policies[p].mode
    BY <1>1, <1>2, <1>3 DEF Heeding
<1> QED BY <1>1, <1>4 DEF Outcome

LEMMA StoredPlanHeeds ==
    ASSUME Inv, NEW a \in Actors, StorePlan(a)
    PROVE /\ ~StandingFor(a, PlanStages, "block")
          /\ StandingFor(a, PlanStages, "require_manual_review")
               => plans'[Len(plans')].plan.approvalRequired
<1> DEFINE r == request[a]
           reviewed == IsReviewRequired(r.judged)
           plan == Plan(Facts[r.change], r.place.service, r.place.environment,
                        assessments[r.assessment], reviewed)
           row == [change |-> r.change, assessment |-> r.assessment, plan |-> plan]
<1>1. r.step = "store_plan" /\ plans' = Append(plans, row) /\ plans \in Seq(PlanRows)
    BY DEF StorePlan, At, Inv, TypeInv, Ledger
<1>2. r.change \in Changes /\ r.assessment \in DOMAIN assessments
    BY <1>1 DEF Inv, TypeInv, InFlight, Sound, Planning, Stored
<1>3. assessments[r.assessment] \in AssessmentRows /\ reviewed \in BOOLEAN
    BY <1>2, ElementOfSeq, LenProperties DEF Inv, TypeInv, Ledger, IsReviewRequired, Outcome
<1>4. reviewed = TRUE => plan.approvalRequired = TRUE
    BY <1>2, <1>3, ApprovalShape
<1> HIDE DEF plan
<1>5. plans'[Len(plans')].plan = plan
    BY <1>1, AppendProperties, LenProperties
<1>6. Heard(r) = PlanStages /\ ~IsBlocked(r.judged)
    BY <1>1 DEF Heard, Inv, HeedInv, Heeding
<1>7. ~StandingFor(a, PlanStages, "block")
    BY <1>6, StandingIsHeard DEF IsBlocked
<1>8. StandingFor(a, PlanStages, "require_manual_review") => reviewed = TRUE
    BY <1>6, StandingIsHeard DEF IsReviewRequired
<1> QED BY <1>4, <1>5, <1>7, <1>8

LEMMA StoredExecutionHeeds ==
    ASSUME Inv, NEW a \in Actors, StoreExecution(a)
    PROVE /\ ~StandingFor(a, {"rollout_execution"}, "block")
          /\ StandingFor(a, {"rollout_execution"}, "require_manual_review")
               => executions'[Len(executions')].status = "awaiting_approval"
<1> DEFINE r == request[a]
           reviewed == IsReviewRequired(r.judged)
           row == [plan |-> r.plan, change |-> r.change, release |-> r.release,
                   status |-> InitialStatus(plans[r.plan].plan, reviewed)]
<1>1. /\ r.step = "store_execution" /\ executions' = Append(executions, row)
      /\ executions \in Seq(ExecutionRows)
    BY DEF StoreExecution, At, Inv, TypeInv, Ledger
<1>2. reviewed \in BOOLEAN
    BY DEF IsReviewRequired, Outcome
<1>3. reviewed = TRUE => row.status = "awaiting_approval"
    BY <1>2, StatusShape
<1> HIDE DEF row
<1>4. executions'[Len(executions')] = row
    BY <1>1, AppendProperties, LenProperties
<1>5. Heard(r) = {"rollout_execution"} /\ ~IsBlocked(r.judged)
    BY <1>1 DEF Heard, Inv, HeedInv, Heeding
<1>6. ~StandingFor(a, {"rollout_execution"}, "block")
    BY <1>5, StandingIsHeard DEF IsBlocked
<1>7. StandingFor(a, {"rollout_execution"}, "require_manual_review") => reviewed = TRUE
    BY <1>5, StandingIsHeard DEF IsReviewRequired
<1> QED BY <1>3, <1>4, <1>6, <1>7

\* The policies are read at each stage and may be edited before the plan or the execution
\* they were read for is stored (evaluatePolicies), and so may the rows they are asked
\* about: one that nobody touched meanwhile, over rows nobody touched and that could be
\* read, has been heard at its stage, and the handler neither goes on after a block nor
\* drops the flag of a review.
THEOREM StandingPoliciesHold == Spec => StandingPoliciesAreHeeded
<1>1. ASSUME Inv, [Next]_vars, NEW a \in Actors, request'[a] # request[a]
      PROVE /\ Len(plans') > Len(plans) =>
                 /\ ~StandingFor(a, PlanStages, "block")
                 /\ StandingFor(a, PlanStages, "require_manual_review") =>
                      plans'[Len(plans')].plan.approvalRequired
            /\ Len(executions') > Len(executions) =>
                 /\ ~StandingFor(a, {"rollout_execution"}, "block")
                 /\ StandingFor(a, {"rollout_execution"}, "require_manual_review") =>
                      executions'[Len(executions')].status = "awaiting_approval"
    <2>1. CASE Len(plans') > Len(plans)
        <3>1. StorePlan(a)
            BY <1>1, <2>1, WhoStores
        <3>2. ~(Len(executions') > Len(executions))
            <4>1. UNCHANGED executions /\ Len(executions) \in Nat
                BY <3>1, <1>1, LenProperties DEF StorePlan, Inv, TypeInv, Ledger
            <4> QED BY <4>1
        <3> QED BY <1>1, <3>1, <3>2, StoredPlanHeeds
    <2>2. CASE Len(executions') > Len(executions)
        <3>1. StoreExecution(a)
            BY <1>1, <2>2, WhoStores
        <3>2. ~(Len(plans') > Len(plans))
            <4>1. UNCHANGED plans /\ Len(plans) \in Nat
                BY <3>1, <1>1, LenProperties DEF StoreExecution, Inv, TypeInv, Ledger
            <4> QED BY <4>1
        <3> QED BY <1>1, <3>1, <3>2, StoredExecutionHeeds
    <2> QED BY <2>1, <2>2
<1>2. Inv /\ [Next]_vars =>
        [\A a \in Actors :
         /\ (Len(plans') > Len(plans) /\ At(a, "store_plan") /\ request'[a] # request[a]) =>
              /\ ~StandingFor(a, PlanStages, "block")
              /\ StandingFor(a, PlanStages, "require_manual_review") =>
                   plans'[Len(plans')].plan.approvalRequired
         /\ (Len(executions') > Len(executions) /\ At(a, "store_execution")
               /\ request'[a] # request[a]) =>
              /\ ~StandingFor(a, {"rollout_execution"}, "block")
              /\ StandingFor(a, {"rollout_execution"}, "require_manual_review") =>
                   executions'[Len(executions')].status = "awaiting_approval"]_vars
    BY <1>1
<1> QED BY <1>2, InitInv, NextInv, PTL DEF Spec, StandingPoliciesAreHeeded

\* The gate of POST /rollout-executions collects the blocking decisions by change
\* (ReleaseDecisions): a release carries no change to an execution in a request that was
\* made after a decision to refuse it, whatever was edited since.
THEOREM RefusalsStand == Spec => BlockedChangesStayBlocked
<1>1. ASSUME Inv, [Next]_vars, NEW a \in Actors, Len(executions') > Len(executions),
             request'[a] # request[a], request[a].release # Null
      PROVE \A d \in request[a].known : d.change # request[a].change
    <2>1. StoreExecution(a)
        BY <1>1, WhoStores
    <2>2. Executing(request[a])
        BY <2>1 DEF StoreExecution, At, Executing
    <2> QED BY <1>1, <2>2 DEF Inv, ClearedInv, Cleared
<1>2. Inv /\ [Next]_vars =>
        [\A a \in Actors :
         (Len(executions') > Len(executions) /\ At(a, "store_execution")
            /\ request'[a] # request[a] /\ request[a].release # Null) =>
              \A d \in request[a].known : d.change # request[a].change]_vars
    BY <1>1
<1> QED BY <1>2, InitInv, NextInv, PTL DEF Spec, BlockedChangesStayBlocked

----------------------------------------------------------------------------
(* The order of the scores                                                 *)

LEMMA TypeScoreType == ASSUME NEW types \in Seq(STRING) PROVE TypeScore(types) \in Nat
<1> DEFINE Named(names) == Cardinality({i \in DOMAIN types : types[i] \in names})
<1>1. ASSUME NEW names PROVE Named(names) \in Nat
    <2>1. IsFiniteSet(DOMAIN types)
        BY LenProperties, FS_Interval
    <2>2. IsFiniteSet({i \in DOMAIN types : types[i] \in names})
        BY <2>1, FS_Subset
    <2> QED BY <2>2, FS_CardinalityType
<1> DEFINE code == Named({"code"})
           config == Named({"config", "database"})
           dependency == Named({"dependency", "dependencies"})
           secret == Named({"secret", "secrets"})
           infra == Named({"infra", "infrastructure"})
           schema == Named({"schema"})
           iam == Named({"iam"})
<1>2. TypeScore(types) = 6 * code + 8 * config + 9 * dependency + 14 * secret
                           + 15 * infra + 16 * schema + 18 * iam
    BY DEF TypeScore
<1> HIDE DEF Named
<1>3. /\ code \in Nat /\ config \in Nat /\ dependency \in Nat /\ secret \in Nat
      /\ infra \in Nat /\ schema \in Nat /\ iam \in Nat
    BY <1>1
<1> HIDE DEF code, config, dependency, secret, infra, schema, iam
<1> QED BY <1>2, <1>3

LEMMA ChangeScoreType == ASSUME NEW c \in Changes PROVE ChangeScore(Facts[c]) \in Nat
<1> DEFINE f == Facts[c]
<1>1. /\ f.types \in Seq(STRING) /\ f.files \in Nat /\ f.resources \in Nat /\ f.incidents \in Nat
      /\ f.poorRollback \in BOOLEAN
    BY GovernanceAssumption DEF ChangeShape
<1>2. TypeScore(f.types) \in Nat
    BY <1>1, TypeScoreType
<1>3. TouchScore(f.touches) \in Nat
    BY DEF TouchScore, When
<1>4. /\ When(f.files > 0, AtMost(12, f.files \div 5 + 1)) \in Nat
      /\ AtMost(10, f.resources * 2) \in Nat /\ AtMost(12, f.incidents * 2) \in Nat
    <2>1. f.files \div 5 + 1 \in Nat /\ f.resources * 2 \in Nat /\ f.incidents * 2 \in Nat
        BY <1>1
    <2>2. \A limit, m \in Nat : AtMost(limit, m) \in Nat
        BY DEF AtMost
    <2> QED BY <2>1, <2>2 DEF When
<1>5. When(f.poorRollback, 10) \in Nat
    BY DEF When
<1> QED BY <1>2, <1>3, <1>4, <1>5 DEF ChangeScore

LEMMA WhenGrows ==
    ASSUME NEW points \in Nat, NEW x, NEW y, y => x
    PROVE When(x, points) \in Nat /\ When(y, points) \in Nat /\ When(x, points) >= When(y, points)
BY DEF When

LEMMA BlindnessGrows ==
    ASSUME NEW x \in ServiceShape, NEW y \in ServiceShape,
           x.observability => y.observability, x.slo => y.slo
    PROVE Blindness(x) \in Nat /\ Blindness(y) \in Nat /\ Blindness(x) >= Blindness(y)
<1>1. (~y.observability => ~x.observability) /\ (~y.slo => ~x.slo)
    OBVIOUS
<1>2. /\ When(~x.observability, 9) \in Nat /\ When(~y.observability, 9) \in Nat
      /\ When(~x.observability, 9) >= When(~y.observability, 9)
    BY <1>1, WhenGrows
<1>3. /\ When(~x.slo, 7) \in Nat /\ When(~y.slo, 7) \in Nat
      /\ When(~x.slo, 7) >= When(~y.slo, 7)
    BY <1>1, WhenGrows
<1> QED BY <1>2, <1>3 DEF Blindness

LEMMA PlaceScoreGrows ==
    ASSUME NEW x, NEW y, x.service \in ServiceShape, y.service \in ServiceShape,
           x.environment \in EnvironmentShape, y.environment \in EnvironmentShape,
           NoSaferThan(x, y)
    PROVE /\ PlaceScore(x.service, x.environment) \in Nat
          /\ PlaceScore(y.service, y.environment) \in Nat
          /\ PlaceScore(x.service, x.environment) >= PlaceScore(y.service, y.environment)
          /\ Regulated(y.service, y.environment) => Regulated(x.service, x.environment)
<1> DEFINE Where(e) == IF e.production THEN 20 ELSE KindPoints[e.kind]
<1>1. \A e \in EnvironmentShape : KindPoints[e.kind] \in Nat
    BY DEF EnvironmentShape, KindPoints
<1>2. \A s \in ServiceShape : CriticalityPoints[s.criticality] \in Nat
    BY DEF ServiceShape, CriticalityPoints
<1>3. /\ Where(x.environment) \in Nat /\ Where(y.environment) \in Nat
      /\ Where(x.environment) >= Where(y.environment)
    BY <1>1 DEF NoSaferThan
<1>4. /\ CriticalityPoints[x.service.criticality] \in Nat
      /\ CriticalityPoints[y.service.criticality] \in Nat
      /\ CriticalityPoints[x.service.criticality] >= CriticalityPoints[y.service.criticality]
    BY <1>2 DEF NoSaferThan
<1>5. Regulated(y.service, y.environment) => Regulated(x.service, x.environment)
    BY Zenon DEF NoSaferThan, Regulated
<1>6. /\ When(x.service.customerFacing, 8) \in Nat /\ When(y.service.customerFacing, 8) \in Nat
      /\ When(x.service.customerFacing, 8) >= When(y.service.customerFacing, 8)
    <2>1. y.service.customerFacing => x.service.customerFacing
        BY Zenon DEF NoSaferThan
    <2> QED BY <2>1, WhenGrows
<1>7. /\ When(Regulated(x.service, x.environment), 12) \in Nat
      /\ When(Regulated(y.service, y.environment), 12) \in Nat
      /\ When(Regulated(x.service, x.environment), 12)
           >= When(Regulated(y.service, y.environment), 12)
    BY <1>5, WhenGrows
<1>8. /\ Blindness(x.service) \in Nat /\ Blindness(y.service) \in Nat
      /\ Blindness(x.service) >= Blindness(y.service)
    <2>1. /\ x.service.observability => y.service.observability
          /\ x.service.slo => y.service.slo
        BY Zenon DEF NoSaferThan
    <2> QED BY <2>1, BlindnessGrows
<1>9. \A s, e : PlaceScore(s, e) = Where(e) + CriticalityPoints[s.criticality]
                  + When(s.customerFacing, 8) + Blindness(s) + When(Regulated(s, e), 12)
    BY DEF PlaceScore
<1> HIDE DEF Where
<1> QED BY <1>3, <1>4, <1>5, <1>6, <1>7, <1>8, <1>9

LEMMA Places ==
    /\ Place("self-serve") = 1 /\ Place("team-lead") = 3 /\ Place("platform-owner") = 4
    /\ Place("change-advisory-board") = 5
<1>1. /\ Len(Approvals) = 5 /\ Approvals[1] = "self-serve" /\ Approvals[2] = "policy-review"
      /\ Approvals[3] = "team-lead" /\ Approvals[4] = "platform-owner"
      /\ Approvals[5] = "change-advisory-board"
    BY DEF Approvals
<1>2. \A i \in 1..5 : i = 1 \/ i = 2 \/ i = 3 \/ i = 4 \/ i = 5
    OBVIOUS
<1>3. ASSUME NEW k \in 1..5 PROVE Place(Approvals[k]) = k
    <2>1. \A i, j \in 1..5 : Approvals[i] = Approvals[j] => i = j
        BY <1>1, <1>2
    <2> QED BY <1>1, <2>1 DEF Place
<1> QED BY <1>1, <1>3

\* In production a higher score never asks for less approval.
LEMMA ApprovalsGrow ==
    ASSUME NEW m \in Nat, NEW n \in Nat, m >= n, NEW g \in BOOLEAN, NEW h \in BOOLEAN, h => g
    PROVE Place(RecommendedApproval(Classify(m), TRUE, g))
            >= Place(RecommendedApproval(Classify(n), TRUE, h))
<1> DEFINE Asked(k, regulated) == Place(RecommendedApproval(Classify(k), TRUE, regulated))
<1>1. ASSUME NEW k \in Nat, NEW regulated \in BOOLEAN
      PROVE /\ regulated \/ k >= 80 => Asked(k, regulated) = 5
            /\ ~regulated /\ k >= 55 /\ k < 80 => Asked(k, regulated) = 4
            /\ ~regulated /\ k >= 30 /\ k < 55 => Asked(k, regulated) = 3
            /\ ~regulated /\ k < 30 => Asked(k, regulated) = 1
    <2>1. /\ k >= 80 => Classify(k) = "critical"
          /\ k >= 55 /\ k < 80 => Classify(k) = "high"
          /\ k >= 30 /\ k < 55 => Classify(k) = "medium"
          /\ k < 30 => Classify(k) = "low"
        BY DEF Classify
    <2>2. \A level : /\ regulated \/ level = "critical" =>
                          RecommendedApproval(level, TRUE, regulated) = "change-advisory-board"
                     /\ ~regulated /\ level = "high" =>
                          RecommendedApproval(level, TRUE, regulated) = "platform-owner"
                     /\ ~regulated /\ level = "medium" =>
                          RecommendedApproval(level, TRUE, regulated) = "team-lead"
                     /\ ~regulated /\ level = "low" =>
                          RecommendedApproval(level, TRUE, regulated) = "self-serve"
        BY DEF RecommendedApproval
    <2> QED BY ZenonT(60), <2>1, <2>2, Places
<1> HIDE DEF Asked
<1>2. Asked(m, g) >= Asked(n, h)
    <2>1. CASE g \/ m >= 80
        <3>1. Asked(m, g) = 5
            BY <1>1, <2>1
        <3>2. Asked(n, h) \in {5, 4, 3, 1}
            BY <1>1
        <3> QED BY <3>1, <3>2
    <2>2. CASE ~g /\ m < 80
        <3>1. ~h
            BY <2>2
        <3>2. Asked(m, g) = IF m >= 55 THEN 4 ELSE IF m >= 30 THEN 3 ELSE 1
            BY <1>1, <2>2
        <3>3. Asked(n, h) = IF n >= 55 THEN 4 ELSE IF n >= 30 THEN 3 ELSE 1
            BY <1>1, <2>2, <3>1
        <3> QED BY <3>2, <3>3
    <2> QED BY <2>1, <2>2
<1> QED BY <1>2 DEF Asked

LEMMA RiskHolds == Inv => RiskFollowsFacts
<1> SUFFICES ASSUME Inv, NEW i \in DOMAIN assessments, NEW j \in DOMAIN assessments,
                    assessments[i].change = assessments[j].change,
                    NoSaferThan(assessments[i], assessments[j])
             PROVE /\ assessments[i].score >= assessments[j].score
                   /\ assessments[i].environment.production =>
                        Place(assessments[i].approval) >= Place(assessments[j].approval)
    BY DEF RiskFollowsFacts
<1>1. PICK x, y : x = assessments[i] /\ y = assessments[j]
    OBVIOUS
<1>2. x \in AssessmentRows /\ y \in AssessmentRows /\ NoSaferThan(x, y) /\ x.change = y.change
    BY <1>1, ElementOfSeq, LenProperties DEF Inv, TypeInv, Ledger
<1>3. /\ x.service \in ServiceShape /\ x.environment \in EnvironmentShape
      /\ y.service \in ServiceShape /\ y.environment \in EnvironmentShape
      /\ x.change \in Changes
    BY <1>2, AssessmentShape, GovernanceAssumption
<1>4. /\ x.score = 5 + ChangeScore(Facts[x.change]) + PlaceScore(x.service, x.environment)
      /\ y.score = 5 + ChangeScore(Facts[x.change]) + PlaceScore(y.service, y.environment)
    BY <1>2, AssessmentShape DEF Score
<1>5. ChangeScore(Facts[x.change]) \in Nat
    BY <1>3, ChangeScoreType
<1>6. /\ PlaceScore(x.service, x.environment) \in Nat
      /\ PlaceScore(y.service, y.environment) \in Nat
      /\ PlaceScore(x.service, x.environment) >= PlaceScore(y.service, y.environment)
      /\ Regulated(y.service, y.environment) => Regulated(x.service, x.environment)
    BY <1>2, <1>3, PlaceScoreGrows
<1>7. x.score \in Nat /\ y.score \in Nat /\ x.score >= y.score
    BY <1>4, <1>5, <1>6
<1>8. ASSUME x.environment.production PROVE Place(x.approval) >= Place(y.approval)
    <2>1. x.environment.production = TRUE /\ y.environment.production = TRUE
        BY <1>2, <1>3, <1>8 DEF EnvironmentShape, NoSaferThan
    <2>2. /\ x.approval = RecommendedApproval(Classify(x.score), TRUE,
                                              Regulated(x.service, x.environment))
          /\ y.approval = RecommendedApproval(Classify(y.score), TRUE,
                                              Regulated(y.service, y.environment))
        BY <1>2, <2>1, AssessmentShape
    <2>3. /\ Regulated(x.service, x.environment) \in BOOLEAN
          /\ Regulated(y.service, y.environment) \in BOOLEAN
        BY DEF Regulated
    <2> QED BY <1>6, <1>7, <2>2, <2>3, ApprovalsGrow
<1> QED BY <1>1, <1>7, <1>8

\* The terms of RiskEngine.AssessChange are written one by one: whatever the services,
\* environments and changes, none of them makes a change to a riskier place score lower,
\* and in production the recommended approval follows the score.
THEOREM RiskIsMonotone == Spec => []RiskFollowsFacts
BY InitInv, NextInv, RiskHolds, PTL DEF Spec

=============================================================================
