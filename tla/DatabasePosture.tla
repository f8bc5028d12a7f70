-------------------------- MODULE DatabasePosture --------------------------
(***************************************************************************)
(* The database posture of a release (buildDatabaseGovernanceSnapshot), a  *)
(* function of the tables, and what it may be relied on for: the creation  *)
(* of a rollout execution for a release is refused while the posture is    *)
(* "blocked", and only then.                                               *)
(***************************************************************************)
EXTENDS DatabaseGovernance

CONSTANT TouchesSchema      \* whether the change set says it touches the schema

ASSUME PostureAssumption == TouchesSchema \in BOOLEAN

PresentChecks == {k \in Checks : checks[k] # Null}
PresentChanges == {d \in Changes : changes[d] # Null}

RequiredIn(k, phase) == checks[k].shape.required /\ checks[k].shape.phase = phase

\* A required check that runs before the deployment must have passed, one that
\* runs later must not have failed.
StatusBlocks(k) ==
    /\ checks[k].shape.required
    /\ IF RequiredIn(k, "pre_deploy")
       THEN checks[k].status # "passed"
       ELSE checks[k].status \in {"failed", "blocked"}

\* Those that run before the deployment block instead, and so do failed ones.
StatusWarns(k) ==
    /\ checks[k].shape.required
    /\ ~RequiredIn(k, "pre_deploy")
    /\ checks[k].status \notin {"passed", "failed", "blocked"}

TestIsMissing(c) == tests[c] = Null \/ tests[c].status # "passed"

ConnectionBlocks(k) ==
    LET c == checks[k].connection
    IN  /\ Runtime(checks[k])
        /\ \/ ~Resolvable(connections[c].source)
           \/ connections[c].status \in {"unresolved", "error"}
           \/ /\ RequiredIn(k, "pre_deploy")
              /\ connections[c].status = "defined" \/ TestIsMissing(c)

\* Slip: a connection that is being tested is as good as a tested one.
TrustingConnectionWarns(k) ==
    LET c == checks[k].connection
    IN  /\ Runtime(checks[k])
        /\ \/ /\ ~RequiredIn(k, "pre_deploy")
              /\ connections[c].status = "defined" \/ TestIsMissing(c)
           \/ runs[k] = Null

\* What blocks a required check before the deployment is a warning about others.
ConnectionWarns(k) ==
    LET c == checks[k].connection
    IN  /\ Runtime(checks[k])
        /\ \/ connections[c].status = "testing"
           \/ /\ ~RequiredIn(k, "pre_deploy")
              /\ connections[c].status = "defined" \/ TestIsMissing(c)
           \/ runs[k] = Null

NeedsPreDeployCheck(f) ==
    \/ f.operation \in {"schema_change", "destructive_change"}
    \/ f.compatibility = "forward_incompatible"
    \/ f.lockRisk

NeedsPostDeployCheck(f) == f.operation # "index_change"

HasRequiredCheck(phase) == \E k \in PresentChecks : RequiredIn(k, phase)

ChangeBlocks(d) ==
    NeedsPreDeployCheck(changes[d].facts) /\ ~HasRequiredCheck("pre_deploy")

ChangeWarns(d) ==
    LET f == changes[d].facts
    IN  \/ f.lockRisk \/ changes[d].manual
        \/ f.reversibility \in {"irreversible", "manual_only"}
        \/ f.compatibility = "forward_incompatible"
        \/ NeedsPostDeployCheck(f) /\ ~HasRequiredCheck("post_deploy")

\* Without a database change the flag of the change set is all there is to go by.
Guessed == PresentChanges = {} /\ TouchesSchema

Blocked ==
    \/ \E k \in PresentChecks : StatusBlocks(k) \/ ConnectionBlocks(k)
    \/ \E d \in PresentChanges : ChangeBlocks(d)

Warned ==
    \/ Guessed
    \/ \E k \in PresentChecks : StatusWarns(k) \/ ConnectionWarns(k)
    \/ \E d \in PresentChanges : ChangeWarns(d)

\* A release without database changes has no posture, whatever its checks say. A
\* check that is pending calls for review, but it blocks or warns anyway.
PostureStatus ==
    IF PresentChanges = {} /\ ~TouchesSchema THEN "none"
    ELSE IF Blocked THEN "blocked"
    ELSE IF Warned THEN "review_required"
    ELSE "advisory"

Reversibilities == {changes[d].facts.reversibility : d \in PresentChanges}

RollbackSafety ==
    IF "irreversible" \in Reversibilities THEN "unsafe"
    ELSE IF \/ Guessed
            \/ "manual_only" \in Reversibilities
            \/ \E d \in PresentChanges : changes[d].facts.compatibility = "forward_incompatible"
    THEN "manual_review"
    ELSE IF PresentChanges # {} /\ Warned THEN "guarded"
    ELSE "standard"

----------------------------------------------------------------------------
\* The tables hold rows and the requests hold copies of rows.
TypeOK ==
    /\ connections \in [Connections -> ConnectionRows \cup {Null}]
    /\ checks \in [Checks -> CheckRows \cup {Null}]
    /\ changes \in [Changes -> ChangeRows \cup {Null}]
    /\ production \in BOOLEAN
    /\ tests \in [Connections -> Evidence \cup {Null}]
    /\ runs \in [Checks -> Evidence \cup {Null}]
    /\ request \in [Operators -> Requests]
    /\ probed \subseteq Connections \X Sources
    /\ proved \subseteq Checks
    /\ lenient \subseteq Changes
    /\ budget \in 0 .. MaxRequests

\* A connection reads ready only with a source that a read-only transaction was
\* once opened on, although edits, tests and executions write it back whole from
\* copies of any age (databaseConnectionHealthInputsChanged and the whole-row
\* writes keep source and health together).
ReadyMeansProbed ==
    \A c \in Connections :
      connections[c] # Null /\ connections[c].status = "ready"
        => <<c, connections[c].source>> \in probed

\* A runtime check reads passed only if an execution of it has passed: neither a
\* manual status nor a change of mode, in whatever order stale copies are written
\* back, makes it so (UpdateDatabaseValidationCheck resets the status).
PassedMeansRun ==
    \A k \in PresentChecks :
      Runtime(checks[k]) /\ checks[k].status = "passed" => k \in proved

\* The best posture rests on evidence: when a release is merely "advisory", each
\* required check has passed, the runtime ones by an execution, over a connection
\* that was probed with the source it has now.
AdvisoryIsProven ==
    PostureStatus = "advisory" =>
      \A k \in PresentChecks :
        /\ checks[k].shape.required => checks[k].status = "passed"
        /\ Runtime(checks[k]) =>
             LET c == checks[k].connection
             IN  /\ <<c, connections[c].source>> \in probed
                 /\ checks[k].shape.required => k \in proved

\* A change that locks, destroys or cannot be undone, written for a production
\* environment, never passes as routine, whatever the requests said of its approval:
\* its release is blocked or to be reviewed, and its rollback is not the standard
\* one. Exempt are changes whose newest write read the environment while it was not
\* a production one: UpdateEnvironment does not judge the stored changes again.
RiskIsReviewed ==
    LET judged == {d \in PresentChanges \ lenient : Risky(changes[d].facts)}
    IN  /\ \A d \in judged : changes[d].manual
        /\ judged # {} => /\ PostureStatus \in {"blocked", "review_required"}
                          /\ RollbackSafety # "standard"

=============================================================================
