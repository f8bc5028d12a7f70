------------------------- MODULE IntegrationHealth -------------------------
(***************************************************************************)
(* What is computed from the row of an integration and never steers a      *)
(* sync: whether its configuration is accepted, how fresh it reads, how a  *)
(* failed run is classed and what the organization's summary counts.       *)
(* IntegrationSync models the syncs that write the row.                    *)
(*                                                                         *)
(* An integration is a record; its field set is the set of the metadata    *)
(* keys that have a value. Times are seconds, Never for one that is unset. *)
(***************************************************************************)
EXTENDS Integers, FiniteSets

CONSTANTS
    Never,      \* a time that is unset
    Blank       \* the empty text

Larger(x, y) == IF x > y THEN x ELSE y

SourceControl == {"github", "gitlab"}

Kinds == SourceControl \cup {"kubernetes", "prometheus"}

----------------------------------------------------------------------------
(* Configuration *)

NormalMode(mode) ==
    CASE mode \in {Blank, "advisory-ready", "advisory", "read_only"} -> "advisory"
      [] mode \in {"active_control", "control", "governance"} -> "active_control"
      [] OTHER -> mode

Token == {Blank, "pat", "token", "personal_access_token"}

\* A trace of a GitHub app turns a token into the app, also where a token was asked for.
AuthStrategy(i) ==
    CASE i.kind = "github" /\ i.auth \in Token ->
            IF i.set \cap {"app_id", "installation_id", "private_key_env"} # {}
            THEN "github_app" ELSE "personal_access_token"
      [] i.kind = "github" /\ i.auth \in {"app", "github_app"} -> "github_app"
      [] i.kind = "gitlab" /\ i.auth \in Token -> "personal_access_token"
      [] i.kind \in {"kubernetes", "prometheus"} /\ i.auth = Blank -> "bearer_token_env"
      [] OTHER -> i.auth

\* The keys without which a kind is of no use; what a GitHub app needs includes the
\* installation that onboarding ends with.
Required(i, strict) ==
    LET hook == IF strict THEN {"webhook_secret_env"} ELSE {}
    IN CASE i.kind = "github" /\ AuthStrategy(i) = "github_app" ->
               {"app_id", "app_slug", "private_key_env", "installation_id"} \cup hook
         [] i.kind = "github" /\ AuthStrategy(i) # "github_app" -> {"access_token_env"} \cup hook
         [] i.kind = "gitlab" -> {"access_token_env"} \cup hook
         [] i.kind = "kubernetes" ->
               {"api_base_url"} \cup (IF "status_path" \in i.set THEN {}
                                      ELSE {"namespace", "deployment_name"})
         [] i.kind = "prometheus" -> {"api_base_url", "queries"}

\* A disabled integration is asked for nothing but not to control.
Valid(i, strict) ==
    /\ ~i.rawSecret
    /\ i.enabled \/ ~i.control
    /\ i.enabled =>
        /\ i.kind \in Kinds
        /\ Required(i, strict) \subseteq i.set
        /\ i.control => NormalMode(i.mode) = "active_control"
        /\ i.scheduled => i.interval > 0 /\ i.staleAfter >= 0

AllowsActiveControl(i) == i.enabled /\ i.control /\ NormalMode(i.mode) = "active_control"

OnboardingStatus(i) ==
    CASE i.kind = "github" /\ AuthStrategy(i) = "github_app" ->
            IF "installation_id" \in i.set THEN "installed" ELSE "not_started"
      [] i.kind = "github" /\ AuthStrategy(i) = "personal_access_token" ->
            IF "access_token_env" \in i.set THEN "legacy_configured" ELSE "not_started"
      [] i.kind = "gitlab" -> IF "access_token_env" \in i.set THEN "configured" ELSE "not_started"
      [] OTHER -> "not_started"

----------------------------------------------------------------------------
(* Freshness *)

DefaultInterval(kind) ==
    CASE kind \in {"kubernetes", "prometheus"} -> 300
      [] kind \in SourceControl -> 900
      [] OTHER -> 600

DefaultStaleAfter(kind, interval) ==
    Larger(2 * (IF interval > 0 THEN interval ELSE DefaultInterval(kind)),
           IF kind \in SourceControl THEN 1800 ELSE 600)

\* A limit that was computed once stays when the interval is changed.
Hydrate(i) ==
    LET interval == IF i.interval <= 0 /\ i.scheduled THEN DefaultInterval(i.kind) ELSE i.interval
    IN [i EXCEPT !.interval = interval,
                 !.staleAfter = IF @ > 0 THEN @ ELSE DefaultStaleAfter(i.kind, interval)]

\* Without a success the lag counts from the last attempt.
Lag(i, now) ==
    LET reference == IF i.succeeded # Never THEN i.succeeded ELSE i.attempted
    IN IF reference = Never THEN 0 ELSE Larger(0, now - reference)

FailedLast(i) == i.failed # Never /\ (i.succeeded = Never \/ i.failed > i.succeeded)

Overdue(i, now) == i.next # Never /\ now > i.next + i.staleAfter

Freshness(i, now) ==
    LET old == Lag(i, now) > i.staleAfter
    IN CASE ~i.enabled -> "disabled"
         [] i.enabled /\ ~i.scheduled -> "manual_only"
         [] i.enabled /\ i.scheduled /\ FailedLast(i) -> IF old THEN "stale_error" ELSE "error"
         [] i.enabled /\ i.scheduled /\ ~FailedLast(i) /\ i.succeeded = Never ->
                IF Overdue(i, now) THEN "stale_pending" ELSE "scheduled"
         [] OTHER -> IF old THEN "stale" ELSE "fresh"

IsStale(i, now) == Freshness(Hydrate(i), now) \in {"stale", "stale_error", "stale_pending"}

\* The next run of an integration whose schedule is on and that has none.
NextRun(i, now) ==
    CASE ~i.enabled \/ ~i.scheduled -> Never
      [] i.enabled /\ i.scheduled /\ i.next # Never -> i.next
      [] OTHER -> IF i.succeeded # Never THEN i.succeeded + i.interval ELSE now

----------------------------------------------------------------------------
(* Failed runs. An error is [from, temporary]. *)

ErrorClass(error) ==
    CASE error.from = "provider" -> IF error.temporary THEN "temporary_provider" ELSE "provider"
      [] error.from = "signals" ->
            IF error.temporary THEN "temporary_signal_provider" ELSE "signal_provider"
      [] error.from \in {"validation", "forbidden", "provider_unavailable"} -> error.from
      [] OTHER -> "runtime"

\* A run that a schedule starts is a retry after a failure.
Trigger(i) == IF i.failures > 0 THEN "retry" ELSE "scheduled"

----------------------------------------------------------------------------
(* The summary of an organization. A repository or resource is
   [kind, service, environment, status]. *)

Unmapped(x) == x.service = Blank \/ x.environment = Blank

Covered(resources, kind) == {x \in resources : x.kind = kind /\ x.status # "missing"}

Coverage(integrations, repositories, resources, now) ==
    [enabled |-> Cardinality({i \in integrations : i.enabled}),
     healthy |-> Cardinality({i \in integrations : i.health = "healthy"}),
     stale |-> Cardinality({i \in integrations : IsStale(i, now)}),
     unmapped |-> Cardinality({x \in repositories \cup resources : Unmapped(x)}),
     environments |-> Cardinality({x.environment : x \in Covered(resources, "workload")} \ {Blank}),
     services |-> Cardinality({x.service : x \in Covered(resources, "signal_target")} \ {Blank})]
=============================================================================
