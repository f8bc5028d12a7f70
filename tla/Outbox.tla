------------------------------- MODULE Outbox -------------------------------
(***************************************************************************)
(* The durable event bus (internal/events/bus.go) and its manual recovery  *)
(* (internal/app/outbox_recovery.go).                                      *)
(*                                                                         *)
(* Events are stored in outbox_events. Every dispatcher (a worker's tick)  *)
(* claims the events that are due, in one statement, runs the handlers of  *)
(* each one and writes the WHOLE row back from the copy the claim          *)
(* returned. Operators retry or requeue an event: they read the row and,   *)
(* later, overwrite it provided its STATUS is still the one they read.     *)
(*                                                                         *)
(*   rows       the table: per event its status, its number of attempts,   *)
(*              whether it is claimed (and for how long), and whether its  *)
(*              next attempt lies ahead                                    *)
(*   batch      per dispatcher, the claimed copies still to be finished    *)
(*   handled    per dispatcher, the event whose handlers have just run and *)
(*              what came of it                                            *)
(*   recovery   per operator, the copy about to be written back            *)
(*   delivered, overrun   history: the events some run of the handlers     *)
(*              succeeded for, and the events whose claim went stale while *)
(*              the dispatcher was still at work on them                   *)
(***************************************************************************)
EXTENDS Integers, FiniteSets

CONSTANTS
    EventCount,      \* events are numbered in the order of created_at
    Dispatchers,     \* processes that call DispatchPending
    Operators,       \* API handlers of retry and requeue
    Limit,           \* events claimed at once (50)
    MaxAttempts,     \* failures before an event is dead-lettered (5)
    MaxDisturbances  \* bound on crashes, overruns and recoveries

ASSUME OutboxAssumption ==
    /\ EventCount \in Nat /\ Limit \in Nat
    /\ MaxAttempts \in Nat /\ MaxDisturbances \in Nat

VARIABLES rows, batch, handled, recovery, delivered, overrun, budget

vars == <<rows, batch, handled, recovery, delivered, overrun, budget>>

Events == 1..EventCount

\* "unpublished" stands for the absence of the row.
Statuses == {"unpublished", "pending", "processing", "error", "processed", "dead_letter"}
Settled == {"processed", "dead_letter"}

\* claim: no claim, a claim younger than two minutes, an older one. retry: no
\* next attempt is set, it lies ahead, its time has come.
Rows == [status : Statuses, attempts : Nat,
         claim : {"none", "fresh", "stale"}, retry : {"none", "later", "due"}]

\* What the handlers of an event return. An unclassified error is retried like a
\* retryable one.
Outcomes == {"ok", "retryable", "permanent"}

Idle == [event |-> 0, outcome |-> "ok"]
NoBatch == [e \in {} |-> 0]
NoRecovery == [event |-> 0]
Recoveries == {NoRecovery} \cup [event : Events, copy : Rows]

Init ==
    /\ rows = [e \in Events |-> [status |-> "unpublished", attempts |-> 0,
                                 claim |-> "none", retry |-> "none"]]
    /\ batch = [d \in Dispatchers |-> NoBatch]
    /\ handled = [d \in Dispatchers |-> Idle]
    /\ recovery = [o \in Operators |-> NoRecovery]
    /\ delivered = {}
    /\ overrun = {}
    /\ budget = MaxDisturbances

Disturb == budget > 0 /\ budget' = budget - 1

\* CreateOutboxEvent
Publish(e) ==
    /\ rows[e].status = "unpublished"
    /\ rows' = [rows EXCEPT ![e].status = "pending"]
    /\ UNCHANGED <<batch, handled, recovery, delivered, overrun, budget>>

----------------------------------------------------------------------------
(* DispatchPending *)

\* Slips in the claim: claims of others are not respected; events in processing
\* are left to whoever claimed them.
DueUnclaimed(r) == r.status \notin Settled \cup {"unpublished"} /\ r.retry # "later"
DueUnprocessing(r) == r.status \in {"pending", "error"} /\ r.retry # "later" /\ r.claim = "none"

Due(r) ==
    /\ r.status \notin Settled \cup {"unpublished"}
    /\ r.retry # "later"
    /\ r.claim # "fresh"

\* The oldest due events, as many as the limit allows.
Claimable ==
    LET due == {e \in Events : Due(rows[e])}
    IN {e \in due : Cardinality({f \in due : f < e}) < Limit}

Claimed(r) == [r EXCEPT !.status = "processing", !.claim = "fresh"]

Claim(d) ==
    /\ batch[d] = NoBatch
    /\ Claimable # {}
    /\ rows' = [e \in Events |-> IF e \in Claimable THEN Claimed(rows[e]) ELSE rows[e]]
    /\ batch' = [batch EXCEPT ![d] = [e \in Claimable |-> Claimed(rows[e])]]
    /\ UNCHANGED <<handled, recovery, delivered, overrun, budget>>

\* The handlers of one event of the batch run.
Handle(d) ==
    /\ handled[d] = Idle
    /\ \E e \in DOMAIN batch[d], outcome \in Outcomes :
        /\ handled' = [handled EXCEPT ![d] = [event |-> e, outcome |-> outcome]]
        /\ delivered' = IF outcome = "ok" THEN delivered \cup {e} ELSE delivered
    /\ UNCHANGED <<rows, batch, recovery, overrun, budget>>

\* Slips: the last failure is not counted; the permanent error is not looked at
\* when the handlers have returned; the claim is not given up for a retry.
FinishedVerbatim(r, outcome) ==
    [r EXCEPT !.status = outcome, !.attempts = @ + 1, !.claim = "none", !.retry = "none"]
FinishedUnchecked(r, outcome) ==
    [r EXCEPT !.status = IF outcome = "retryable" THEN "error" ELSE "processed",
              !.attempts = @ + 1, !.claim = "none",
              !.retry = IF outcome = "retryable" THEN "later" ELSE "none"]
FinishedStillClaimed(r, outcome) ==
    CASE outcome = "ok" ->
            [r EXCEPT !.status = "processed", !.attempts = @ + 1, !.claim = "none", !.retry = "none"]
      [] outcome # "ok" -> [r EXCEPT !.status = "error", !.attempts = @ + 1, !.retry = "later"]

DeadLettered(attempts, outcome) == attempts >= MaxAttempts \/ outcome = "permanent"

\* The row as it is written back after the handlers returned.
Finished(r, outcome) ==
    LET tried == [r EXCEPT !.attempts = @ + 1, !.claim = "none"]
    IN CASE outcome = "ok" -> [tried EXCEPT !.status = "processed", !.retry = "none"]
         [] outcome # "ok" /\ DeadLettered(tried.attempts, outcome) ->
                [tried EXCEPT !.status = "dead_letter", !.retry = "none"]
         [] outcome # "ok" /\ ~DeadLettered(tried.attempts, outcome) ->
                [tried EXCEPT !.status = "error", !.retry = "later"]

\* UpdateOutboxEvent: no condition but the id.
Save(d) ==
    /\ handled[d] # Idle
    /\ LET e == handled[d].event
       IN /\ rows' = [rows EXCEPT ![e] = Finished(batch[d][e], handled[d].outcome)]
          /\ batch' = [batch EXCEPT ![d] = [f \in DOMAIN @ \ {e} |-> @[f]]]
    /\ handled' = [handled EXCEPT ![d] = Idle]
    /\ UNCHANGED <<recovery, delivered, overrun, budget>>

\* The dispatcher dies, or a write fails and DispatchPending returns: the rest
\* of the batch stays claimed.
Abandon(d) ==
    /\ batch[d] # NoBatch
    /\ Disturb
    /\ batch' = [batch EXCEPT ![d] = NoBatch]
    /\ handled' = [handled EXCEPT ![d] = Idle]
    /\ UNCHANGED <<rows, recovery, delivered, overrun>>

----------------------------------------------------------------------------
(* recoverOutboxEvent: RetryOutboxEvent wants an "error", RequeueOutboxEvent *)
(* a "dead_letter"                                                           *)

RecoverRead(o, e) ==
    /\ recovery[o] = NoRecovery
    /\ rows[e].status \in {"error", "dead_letter"}
    /\ Disturb
    /\ recovery' = [recovery EXCEPT ![o] = [event |-> e, copy |-> rows[e]]]
    /\ UNCHANGED <<rows, batch, handled, delivered, overrun>>

\* Slip: the write is not conditional.
StillAsReadAlways(current, copy) == TRUE

\* The condition of UpdateOutboxEventIfStatus.
StillAsRead(current, copy) == current.status = copy.status

Recovered(r) == [r EXCEPT !.status = "pending", !.claim = "none", !.retry = "none"]

\* The transaction commits, or it finds another status, or it fails.
RecoverWrite(o) ==
    /\ recovery[o] # NoRecovery
    /\ \/ LET e == recovery[o].event
          IN /\ StillAsRead(rows[e], recovery[o].copy)
             /\ rows' = [rows EXCEPT ![e] = Recovered(recovery[o].copy)]
       \/ UNCHANGED rows
    /\ recovery' = [recovery EXCEPT ![o] = NoRecovery]
    /\ UNCHANGED <<batch, handled, delivered, overrun, budget>>

----------------------------------------------------------------------------
(* Time *)

HeldBy(e) == {d \in Dispatchers : e \in DOMAIN batch[d]}

\* Two minutes pass since the claim: the claimer is dead, or overruns its claim.
ClaimAges(e) ==
    /\ rows[e].claim = "fresh"
    /\ rows' = [rows EXCEPT ![e].claim = "stale"]
    /\ IF HeldBy(e) = {} THEN UNCHANGED <<overrun, budget>>
       ELSE Disturb /\ overrun' = overrun \cup {e}
    /\ UNCHANGED <<batch, handled, recovery, delivered>>

RetryComesDue(e) ==
    /\ rows[e].retry = "later"
    /\ rows' = [rows EXCEPT ![e].retry = "due"]
    /\ UNCHANGED <<batch, handled, recovery, delivered, overrun, budget>>

----------------------------------------------------------------------------
Dispatch(d) == Claim(d) \/ Handle(d) \/ Save(d)

Next ==
    \/ \E e \in Events : Publish(e) \/ ClaimAges(e) \/ RetryComesDue(e)
    \/ \E d \in Dispatchers : Dispatch(d) \/ Abandon(d)
    \/ \E o \in Operators, e \in Events : RecoverRead(o, e)
    \/ \E o \in Operators : RecoverWrite(o)

Spec == Init /\ [][Next]_vars

\* The worker's ticker calls DispatchPending for ever, handlers return, and time
\* passes.
FairSpec ==
    /\ Spec
    /\ \A d \in Dispatchers : WF_vars(Dispatch(d))
    /\ \A e \in Events : WF_vars(ClaimAges(e)) /\ WF_vars(RetryComesDue(e))

----------------------------------------------------------------------------
(* Properties *)

\* Every row and copy has the columns of types.OutboxEvent in their ranges.
TypeOK ==
    /\ rows \in [Events -> Rows]
    /\ DOMAIN batch = Dispatchers
    /\ \A d \in Dispatchers : \E S \in SUBSET Events : batch[d] \in [S -> Rows]
    /\ handled \in [Dispatchers -> [event : Events \cup {0}, outcome : Outcomes]]
    /\ recovery \in [Operators -> Recoveries]
    /\ delivered \subseteq Events /\ overrun \subseteq Events
    /\ budget \in Nat

\* An event is "processing" exactly while it carries a claim, and one in "error"
\* has its next attempt set, whoever wrote the row last: a row that broke this
\* could be claimed twice or never again (ClaimOutboxEvents).
ClaimMatchesStatus ==
    \A e \in Events :
        /\ rows[e].status = "processing" <=> rows[e].claim # "none"
        /\ rows[e].status = "error" => rows[e].retry # "none"

\* Unless a claim is overrun, no two dispatchers work on the same event, and the
\* copy one of them works on is the stored row: its unconditional write
\* (UpdateOutboxEvent) overwrites nothing but its own claim.
ClaimIsExclusive ==
    \A d \in Dispatchers, e \in Events \ overrun :
        e \in DOMAIN batch[d] => HeldBy(e) = {d} /\ rows[e] = batch[d][e]

\* An event is marked processed only if its handlers succeeded at least once,
\* whatever crashed, was retried or was overrun.
ProcessedWasDelivered ==
    \A e \in Events : rows[e].status = "processed" => e \in delivered

\* Unless a claim is overrun, a processed event stays so and a dead letter is
\* left only by being requeued.
SettledStaysSettled ==
    [][\A e \in Events \ overrun' :
        /\ rows[e].status = "processed" => rows'[e].status = "processed"
        /\ rows[e].status = "dead_letter" => rows'[e].status \in {"dead_letter", "pending"}]_vars

\* Every published event is processed or dead-lettered, whatever crashes,
\* overruns and recoveries come before.
EventuallySettled ==
    \A e \in Events : rows[e].status = "pending" ~> rows[e].status \in Settled

=============================================================================
