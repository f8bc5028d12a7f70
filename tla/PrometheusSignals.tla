------------------------- MODULE PrometheusSignals -------------------------
(***************************************************************************)
(* How a collection from Prometheus becomes the health of a snapshot, and  *)
(* which of its values breach a rollback policy.                           *)
(*                                                                         *)
(* A query is [name, threshold, comparator, severe]; a reply is what the   *)
(* request for it ends in: the status code of the response, or 0 when      *)
(* there was none, whether its body can be decoded, and the samples of its *)
(* series, of which only the first series is looked at and of that the     *)
(* last sample. A number is an integer or NaN, which compares with none.   *)
(***************************************************************************)
EXTENDS Integers, Sequences

CONSTANTS
    NaN,        \* not a number
    Unset       \* a limit that is switched off

LessThan(x, y) == x # NaN /\ y # NaN /\ x < y

----------------------------------------------------------------------------
(* Configuration: the metadata of the execution overrides the integration's. *)

Setting(key, integration, execution, fallback) ==
    CASE key \in DOMAIN execution -> execution[key]
      [] key \notin DOMAIN execution /\ key \in DOMAIN integration -> integration[key]
      [] OTHER -> fallback

Config(integration, execution) ==
    [url |-> Setting("url", integration, execution, ""),
     window |-> Setting("window", integration, execution, 300),
     step |-> Setting("step", integration, execution, 60),
     queries |-> Setting("queries", integration, execution, << >>)]

Usable(config) == config.url # "" /\ config.queries # << >>

----------------------------------------------------------------------------
(* One query *)

\* A transport error, 429 and 5xx are worth another try.
Temporary(reply) == reply.code \in {0, 429} \/ reply.code >= 500

Failed(reply) == reply.code = 0 \/ reply.code >= 400 \/ reply.malformed

\* No series at all is an empty sample, with the value 0; a series has a sample.
Sample(reply) ==
    IF reply.series = << >> THEN [value |-> 0, empty |-> TRUE]
    ELSE LET samples == Head(reply.series)
         IN [value |-> samples[Len(samples)], empty |-> FALSE]

\* A comparator of another spelling never degrades.
Degraded(value, query) ==
    CASE query.comparator = ">=" -> ~LessThan(value, query.threshold) /\ value # NaN
      [] query.comparator = ">" -> LessThan(query.threshold, value)
      [] query.comparator = "<=" -> ~LessThan(query.threshold, value) /\ value # NaN
      [] query.comparator = "<" -> LessThan(value, query.threshold)
      [] OTHER -> FALSE

Signal(query, reply) ==
    LET sample == Sample(reply)
    IN [name |-> query.name, value |-> sample.value,
        status |-> CASE sample.empty -> "warning"
                     [] ~sample.empty /\ Degraded(sample.value, query) ->
                            IF query.severe THEN "critical" ELSE "degraded"
                     [] OTHER -> "healthy"]

----------------------------------------------------------------------------
(* The collection *)

Order == [healthy |-> 0, warning |-> 1, degraded |-> 1, critical |-> 2]

Worse(current, next) == IF Order[next] > Order[current] THEN next ELSE current

\* The first of the worst signals names the health.
Health(signals) ==
    LET upTo[n \in 0 .. Len(signals)] ==
          IF n = 0 THEN "healthy" ELSE Worse(upTo[n - 1], signals[n].status)
    IN upTo[Len(signals)]

\* The first query that fails ends the collection, and nothing is stored.
Collect(queries, replies) ==
    LET bad == {i \in DOMAIN queries : Failed(replies[i])}
        first == CHOOSE i \in bad : \A j \in bad : i <= j
        signals == [i \in DOMAIN queries |-> Signal(queries[i], replies[i])]
    IN IF bad # {} THEN [ok |-> FALSE, temporary |-> Temporary(replies[first])]
       ELSE [ok |-> TRUE, health |-> Health(signals), signals |-> signals]

----------------------------------------------------------------------------
(* The limits of a rollback policy. Whether a signal was missing is not asked. *)

Exceeds(value, limit) == limit # Unset /\ LessThan(limit, value)
FallsBelow(value, limit) == limit # Unset /\ LessThan(value, limit)

Breaches(signals, policy) ==
    {i \in DOMAIN signals :
        LET s == signals[i]
        IN CASE s.name = "error_rate" -> Exceeds(s.value, policy.errorRate)
             [] s.name \in {"latency_ms", "latency_p95_ms"} -> Exceeds(s.value, policy.latency)
             [] s.name = "throughput" -> FallsBelow(s.value, policy.throughput)
             [] s.name \in {"unhealthy_instances", "unavailable_replicas"} ->
                    Exceeds(s.value, policy.unhealthy)
             [] s.name \in {"restart_rate", "crash_rate"} -> Exceeds(s.value, policy.restarts)
             [] OTHER -> FALSE}

\* The snapshot the verification engine decides on: degraded and warning are one to it.
Snapshot(collection, policy) ==
    [health |-> IF collection.health = "degraded" THEN "warning" ELSE collection.health,
     breach |-> Breaches(collection.signals, policy) # {}]
=============================================================================
