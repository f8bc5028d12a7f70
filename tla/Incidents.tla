----------------------------- MODULE Incidents -----------------------------
(***************************************************************************)
(* Incidents are not stored: with every read they are derived from the     *)
(* rows of the rollout executions, whose status RolloutLifecycle moves.    *)
(*                                                                         *)
(* An execution is [id, status, result, decision, change, updated]: result *)
(* is that of its last verification, decision the last action or           *)
(* verification decision, "" if there was none.                            *)
(***************************************************************************)
EXTENDS RolloutLifecycle, Sequences
LOCAL INSTANCE SequencesExt
LOCAL INSTANCE FiniteSetsExt

CONSTANT Anything        \* a query that does not ask for a field

Severity(status, result) ==
    CASE status \in {"rolled_back", "failed"} -> {"critical"}
      [] status = "paused" -> {"high"}
      [] status = "awaiting_approval" /\ result = "fail" -> {"medium"}
      [] OTHER -> {}

IncidentStatus ==
    [rolled_back |-> "mitigated", failed |-> "open", paused |-> "monitoring",
     awaiting_approval |-> "investigating"]

\* The incident of an execution; there is at most one.
IncidentOf(execution) ==
    {[execution |-> execution.id, severity |-> s, status |-> IncidentStatus[execution.status],
      change |-> execution.change, updated |-> execution.updated] :
        s \in Severity(execution.status, execution.result)}

Asks(wish, value) == wish \in {Anything, value}

Matches(incident, query) ==
    /\ Asks(query.severity, incident.severity)
    /\ Asks(query.status, incident.status)
    /\ Asks(query.change, incident.change)

\* The limit, if there is one, cuts what matches, newest first.
Listed(executions, query) ==
    LET found == {i \in UNION {IncidentOf(e) : e \in executions} : Matches(i, query)}
        newest == SetToSortSeq(found, LAMBDA i, j : i.updated > j.updated)
    IN IF query.limit > 0 /\ Len(newest) > query.limit
       THEN SubSeq(newest, 1, query.limit) ELSE newest

----------------------------------------------------------------------------
(* What the detail of an incident tells the operator. A release's analysis is
   [suspicious, steps], and there is at most one. *)

\* No status contains the word "rollback", which is looked for, too.
WentBack(execution) == execution.decision = "rollback"

AssistantStatus(execution) ==
    IF WentBack(execution) THEN "rollback_recommended" ELSE "investigate"

LikelyCause(execution, analyses) ==
    CASE execution.decision # "" -> "decision"
      [] execution.decision = "" /\ analyses # {} -> "release"
      [] execution.decision = "" /\ analyses = {} -> "execution"

Suspicious(execution, analyses) ==
    LET named == UNION {a.suspicious : a \in analyses}
    IN IF named = {} THEN {execution.change} ELSE named

\* What the analysis of a release remembers of its changes and executions.
Insights(changes, executions) ==
    {<<"incidents", c.service, c.incidents>> : c \in {x \in changes : x.incidents > 0}}
      \cup {<<"weak_rollback">> : c \in {x \in changes : x.poorRollback}}
      \cup {<<"went_back">> : e \in {x \in executions : WentBack(x)}}
=============================================================================
