-------------------------- MODULE ReleaseAnalysis --------------------------
(***************************************************************************)
(* What a release is told about itself: the validation of its config sets, *)
(* its combined risk and blast radius, the readiness review and the        *)
(* rollback guidance. All of it is computed from the rows anew with every  *)
(* read, and only listed: the gate of an execution asks the policy         *)
(* decisions and the database posture (Governance, DatabasePosture).       *)
(*                                                                         *)
(* An entry of a config set has key, value, kind, source and two flags; a  *)
(* set has id, name, version, service and the sequence of its entries.     *)
(*                                                                         *)
(* A bundle is the release with what is read for it: the sequences of its  *)
(* changes, assessments, config sets' findings and linked executions'      *)
(* statuses, the services by id, the outcomes of the policy decisions, the *)
(* service dependencies of the organization, the database posture and the  *)
(* environment.                                                            *)
(***************************************************************************)
EXTENDS RiskEngine, FiniteSets, TLC
LOCAL INSTANCE FiniteSetsExt

CONSTANTS
    SensitiveKeys,  \* keys that look like those of a secret
    References,     \* values that look like a reference to a secret
    Blank,          \* the empty text
    NoService       \* a config set of the whole environment

----------------------------------------------------------------------------
(* Config sets *)

\* A sequence with at least one entry, each a literal or a reference to a secret.
ValidEntries(entries) ==
    entries # << >> /\ \A i \in DOMAIN entries : entries[i].kind \in {"literal", "secret_ref"}

KeysOf(entries) == {entries[i].key : i \in DOMAIN entries}

Positions(entries, key) == {i \in DOMAIN entries : entries[i].key = key}

\* Of a key that is repeated the set being validated counts the first entry,
\* the revision before it the last.
FirstByKey(entries) == [k \in KeysOf(entries) |-> entries[Min(Positions(entries, k))]]

LastByKey(entries) == [k \in KeysOf(entries) |-> entries[Max(Positions(entries, k))]]

\* The newest other set of that name that the query finds: a set of a service is
\* compared with those of the service, a set without one with all of the
\* environment. Newer revisions are not told from older ones.
Predecessors(set, history) ==
    {i \in DOMAIN history :
        /\ history[i].id # set.id /\ history[i].name = set.name
        /\ set.service = NoService \/ history[i].service = set.service}

InvalidReference(key, entry) ==
    IF entry.kind = "secret_ref" THEN entry.value \notin References ELSE key \in SensitiveKeys

Differs(old, new) ==
    \/ old.kind # new.kind
    \/ old.source # new.source /\ new.source # Blank
    \/ old.value # new.value

Validation(set, history) ==
    LET now == FirstByKey(set.entries)
        earlier == Predecessors(set, history)
        previous == history[Max(earlier)]
        before == IF earlier = {} THEN << >> ELSE LastByKey(previous.entries)
        removed == DOMAIN before \ DOMAIN now
        invalid == {k \in DOMAIN now : InvalidReference(k, now[k])}
        missing == {k \in DOMAIN now : now[k].required /\ now[k].value = Blank}
                     \cup {k \in removed : before[k].required}
        warned == \/ Cardinality(DOMAIN now) # Len(set.entries)
                  \/ earlier # {} /\ previous.version = set.version
    IN [invalid |-> invalid, missing |-> missing,
        deprecated |-> {k \in DOMAIN now : now[k].deprecated},
        references |-> {k \in DOMAIN now : now[k].kind = "secret_ref"},
        diff |-> removed \cup {k \in DOMAIN now :
                    earlier # {} /\ (k \in DOMAIN before => Differs(before[k], now[k]))},
        warned |-> warned]

ValidationStatus(v) ==
    CASE v.invalid # {} \/ v.missing # {} -> "blocked"
      [] v.invalid = {} /\ v.missing = {} /\ (v.deprecated # {} \/ v.warned) -> "warning"
      [] OTHER -> "valid"

NotBlocked(set, history) == ValidationStatus(Validation(set, history)) # "blocked"

\* POST /config-sets stores the set or refuses it.
Accepted(set, history) == ValidEntries(set.entries) /\ NotBlocked(set, history)

\* PATCH changes name, version, status or entries, and validates the result anew, even
\* when it only retires the set.
AcceptedUpdate(set, changes, history) ==
    /\ "entries" \in DOMAIN changes => ValidEntries(changes.entries)
    /\ NotBlocked(changes @@ set, history)

----------------------------------------------------------------------------
(* Combined risk and blast radius *)

Total(points) == FoldFunction(LAMBDA m, n : m + n, 0, points)

Extra(limit, factor, n) == AtMost(limit, factor * n)

\* The average of the scores, which the engine looks at, too, never exceeds the greatest.
CombinedScore(scores, services, configs) ==
    IF scores = << >> THEN 0
    ELSE AtMost(100, Max(Range(scores))
                     + Extra(24, 6, Len(scores) - 1)
                     + Extra(12, 4, When(services > 0, services - 1))
                     + Extra(8, 2, configs))

CombinedLevel(b) ==
    Classify(CombinedScore([i \in DOMAIN b.assessments |-> b.assessments[i].score],
                           Cardinality(DOMAIN b.services), Len(b.configs)))

FacesCustomers(b) == \E s \in DOMAIN b.services : b.services[s].customerFacing

CombinedBlastRadius(b) ==
    LET many == Cardinality(DOMAIN b.services) > 1
    IN [scope |-> CASE b.environment.production /\ FacesCustomers(b) /\ many -> "broad"
                    [] ~b.environment.production /\ ~many -> "contained"
                    [] OTHER -> "moderate",
        resources |-> Total([i \in DOMAIN b.changes |->
                               IF b.changes[i].resources = 0 THEN 1 ELSE b.changes[i].resources]),
        customers |-> FacesCustomers(b), production |-> b.environment.production,
        regulated |-> \/ b.environment.regulated
                      \/ \E s \in DOMAIN b.services : b.services[s].regulated]

----------------------------------------------------------------------------
(* Findings *)

\* The dependencies between two services of the bundle, in the order of their names.
DependencyPlan(b) ==
    {d \in b.dependencies : d.from \in DOMAIN b.services /\ d.to \in DOMAIN b.services}

PolicyFindings(b) ==
    [blockers |-> {o \in b.outcomes : o = "block"},
     warnings |-> {o \in b.outcomes : o \in {"require_manual_review", "require_approval"}}]

Touching(b) == {i \in DOMAIN b.changes : b.changes[i].schema}

DatabaseFindings(b) ==
    \/ b.database.findings
    \/ ~b.database.recorded /\ Touching(b) # {}
    \/ b.database.status # "none"

Active(b) ==
    {i \in DOMAIN b.executions :
        b.executions[i] \notin {"completed", "verified", "failed", "rolled_back"}}

\* An assessment recommends a window always.
WindowFindings(b) == b.environment.production \/ b.assessments # << >> \/ Active(b) # {}

Found(condition, what) == IF condition THEN {what} ELSE {}

BlockedBy(b) ==
    Found(PolicyFindings(b).blockers # {}, "policy")
      \cup Found(b.database.status = "blocked", "database")
      \cup Found(\E i \in DOMAIN b.configs : b.configs[i].status = "blocked", "config")

IsWarned(b) ==
    \/ PolicyFindings(b).warnings # {}
    \/ b.database.warned
    \/ Cardinality(DOMAIN b.services) > 1
    \/ b.executions # << >>
    \/ \E i \in DOMAIN b.configs : b.configs[i].status = "warning"
    \/ DatabaseFindings(b) /\ b.environment.production

----------------------------------------------------------------------------
(* Readiness review, rollback guidance and the summary for operators *)

Item(category, severity, acknowledge) ==
    [category |-> category, severity |-> severity, acknowledge |-> acknowledge]

ReadinessReview(b) ==
    LET production == b.environment.production
        known == b.database.status # "none"
        unsafe == b.database.safety = "unsafe"
        risky == {"high", "critical"} \cap
                   {b.assessments[i].level : i \in DOMAIN b.assessments}
    IN Found(BlockedBy(b) # {}, Item("policy", "critical", TRUE))
       \cup {Item("configuration", IF c.status = "blocked" THEN "high" ELSE "medium",
                  c.status = "blocked" \/ production) :
                c \in {x \in Range(b.configs) : x.status \in {"blocked", "warning"}}}
       \cup Found(known \/ DatabaseFindings(b),
                  Item("database", "high", production \/ b.database.manual \/ unsafe))
       \cup Found(DependencyPlan(b) # {}, Item("dependencies", "medium", production))
       \cup Found(risky # {}, Item("risk", "high", TRUE))
       \cup Found(WindowFindings(b),
                  Item("change_window", IF production THEN "medium" ELSE "low", production))

\* The drafts for approvers list what has to be acknowledged.
ApproverSummary(b) == {item.category : item \in {i \in ReadinessReview(b) : i.acknowledge}}

\* Without a posture no change touches the schema, so the second case is never met.
RollbackBlockers(b) ==
    IF b.database.status # "none" THEN {b.database.safety} \cap {"unsafe", "manual_review"}
    ELSE IF Touching(b) # {} THEN {"schema"} ELSE {}

RollbackGuidance(b) ==
    LET safe == RollbackBlockers(b) = {}
    IN [safe |-> safe,
        strategy |-> CASE safe -> "rollback_previous_bundle"
                       [] ~safe /\ b.database.safety = "manual_review" -> "guarded_manual_rollback"
                       [] OTHER -> "fix_forward_preferred",
        steps |-> {"revert", "previous_config"}
                    \cup Found(\E i \in DOMAIN b.configs : b.configs[i].references # {},
                               "previous_references")
                    \cup Found(DependencyPlan(b) # {}, "reverse_order")]

OpsStatus(b) ==
    IF BlockedBy(b) # {} THEN "blocked" ELSE IF IsWarned(b) THEN "warning" ELSE "ready"

Analysis(b) ==
    [level |-> CombinedLevel(b), radius |-> CombinedBlastRadius(b),
     dependencies |-> DependencyPlan(b), blockers |-> BlockedBy(b),
     readiness |-> ReadinessReview(b), rollback |-> RollbackGuidance(b),
     status |-> OpsStatus(b)]
=============================================================================
