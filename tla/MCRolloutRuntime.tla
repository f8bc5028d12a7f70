-------------------------- MODULE MCRolloutRuntime --------------------------
(* Small instances of RolloutRuntime for TLC, and the bounded inputs on which *)
(* the collection of signals from Prometheus is evaluated.                    *)
EXTENDS RolloutProperties

\* A rollback policy that stops at the first bad sign, and two that pause first and roll
\* back when the second or the third failure spends the budget.
StrictPolicy == [onProviderFailure |-> TRUE, onCritical |-> TRUE, maxFailures |-> 1]
BudgetPolicy == [onProviderFailure |-> FALSE, onCritical |-> FALSE, maxFailures |-> 2]
PatientPolicy == [onProviderFailure |-> FALSE, onCritical |-> FALSE, maxFailures |-> 3]

Good == [health |-> "healthy", breach |-> FALSE]
Breaching == [health |-> "healthy", breach |-> TRUE]
Warning == [health |-> "warning", breach |-> FALSE]
Critical == [health |-> "critical", breach |-> FALSE]

GoodOrBreaching == {Good, Breaching}
GoodOrCritical == {Good, Critical}
OnlyCritical == {Critical}
AllSignals == {Good, Breaching, Warning, Critical}

\* What clients record: a person's verdict, and that of a pipeline that calls itself
\* automated and cites a snapshot, which may be another than it means or not exist.
Report(decision, snapshot, automated) ==
    [decision |-> decision, reason |-> "manual", snapshot |-> snapshot,
     automated |-> automated, engine |-> FALSE]

NoReports == {}
AnyReports == {Report("verified", 0, FALSE), Report("rollback", 1, TRUE)}

----------------------------------------------------------------------------
Prometheus == INSTANCE PrometheusSignals WITH NaN <- -2, Unset <- -1

Queries == [name : {"error_rate", "throughput"}, threshold : {5},
            comparator : {">", ">=", "<", "<="}, severe : BOOLEAN]

Replies ==
    [code : {200}, malformed : {FALSE}, series : {<< >>, <<<<9, 4>>>>, <<<<5>>, <<9>>>>, <<<<-2>>>>}]
      \cup [code : {0, 404, 429, 503}, malformed : {FALSE}, series : {<< >>}]

Limits == [errorRate : {-1, 4}, latency : {-1}, throughput : {-1, 5},
           unhealthy : {-1}, restarts : {-1}]

Collections == {Prometheus!Collect(q, r) : q \in Queries \X Queries, r \in Replies \X Replies}

Taken == {c \in Collections : c.ok}

SnapshotOf(c, limits) == Prometheus!Snapshot(c, limits)

\* The health is as bad as the worst signal whatever the order of the queries, and every
\* snapshot is one the engine knows (prometheus.go combineSignalHealth).
ASSUME WorstSignalDecides ==
    /\ \A c \in Taken, i \in 1 .. 2 :
          Prometheus!Order[c.signals[i].status] <= Prometheus!Order[c.health]
    /\ \A c \in Taken : \E i \in 1 .. 2 : c.health = c.signals[i].status
    /\ \A c \in Taken, limits \in Limits :
          SnapshotOf(c, limits) \in Snapshots

\* A collection is lost as a whole with its first failed query, also when every other
\* query was answered.
ASSUME OneFailureLosesAll ==
    \A q \in Queries \X Queries, r \in Replies \X Replies :
        LET c == Prometheus!Collect(q, r)
        IN /\ c.ok <=> r[1].code = 200 /\ r[2].code = 200
           /\ ~c.ok /\ r[1].code = 503 => c.temporary

\* A throughput without samples is a warning to the collection and, its value being 0,
\* a breach of the policy, which pauses or rolls back.
ASSUME MissingThroughputIsABreach ==
    \E c \in Taken, limits \in Limits :
        /\ c.health = "warning"
        /\ SnapshotOf(c, limits).breach
        /\ \A i \in 1 .. 2 : c.signals[i].status = "warning"

\* A query that ends in NaN, as a rate over nothing does, reads healthy.
ASSUME NotANumberReadsHealthy ==
    \A c \in Taken :
        (\A i \in 1 .. 2 : c.signals[i].value = -2) => c.health = "healthy"

----------------------------------------------------------------------------
(* Incidents *)

Derived == INSTANCE Incidents WITH Anything <- "any"

Executions ==
    [id : {1}, status : Statuses, result : {"", "pass", "fail"},
     decision : {""} \cup Actions \cup Decisions \cup AdvisoryDecisions,
     change : {"c"}, updated : {1}]

\* The execution after an action of an operator or the control loop.
Moved(e) ==
    {[e EXCEPT !.status = t[3], !.decision = t[2]] : t \in {x \in Transition : x[1] = e.status}}

\* The execution after a rollback was advised: its status is left alone.
Advised(e) == [e EXCEPT !.decision = "advisory_rollback", !.result = "fail"]

\* An open incident is left by a rollback alone, which is what its operator is told to
\* have recommended (application.go derivedIncidentState, lifecycle.go).
ASSUME OpenUntilRolledBack ==
    \A e \in Executions :
        \A i \in Derived!IncidentOf(e) : i.status = "open" =>
            \A f \in Moved(e) :
                /\ \A j \in Derived!IncidentOf(f) : j.status = "mitigated"
                /\ Derived!IncidentOf(f) # {}
                /\ Derived!AssistantStatus(f) = "rollback_recommended"

\* Incidents have no history of their own: a paused rollout's is gone without a trace once
\* the rollout is resumed, and so is that of a rollout whose approval comes after a failure.
ASSUME IncidentsVanish ==
    \A status \in {"paused", "awaiting_approval"} :
        \E e \in Executions :
            e.status = status /\ Derived!IncidentOf(e) # {}
              /\ \E f \in Moved(e) : Derived!IncidentOf(f) = {}

\* A rollback that was only advised makes no incident of an execution in progress, and it
\* does not count as a recommendation (lifecycle.go:47, release_management.go:1326).
ASSUME AdviceIsNoIncident ==
    \A e \in Executions :
        /\ Derived!AssistantStatus(Advised(e)) = "investigate"
        /\ e.status = "in_progress" => Derived!IncidentOf(Advised(e)) = {}
=============================================================================
