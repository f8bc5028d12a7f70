------------------------- MODULE MCIntegrationSync -------------------------
(* Configurations and updates the run of IntegrationSync chooses from. *)
EXTENDS IntegrationSync, Sequences

Everything == [enabled |-> TRUE, scheduled |-> TRUE, control |-> TRUE]
Advisory == [Everything EXCEPT !.control = FALSE]

OnOrAdvisory == {Everything, Advisory}

Nothing == [enabled |-> "keep", scheduled |-> "keep", control |-> "keep"]

\* Switch the integration, its schedule or its control off or on.
AllSwitches ==
    {[Nothing EXCEPT !.enabled = "off"], [Nothing EXCEPT !.enabled = "on", !.scheduled = "on"],
     [Nothing EXCEPT !.scheduled = "off"], [Nothing EXCEPT !.control = "on"]}

GitLab == INSTANCE IntegrationSync WITH Provider <- "gitlab"

\* The run of a parsed GitLab event is not the one that a redelivery is looked up by
\* (gitlab_webhook.go:56: gitlab.webhook.push_hook; gitlab_live.go:331: gitlab.webhook.push),
\* so every redelivery makes another change set.
ASSUME GitLabRedeliveriesAreMissed ==
    \A d \in Deliveries :
        [operation |-> "header", delivery |-> d]
            \notin Recorded([NoTask EXCEPT !.operation = GitLab!ParsedOperation, !.delivery = d])

----------------------------------------------------------------------------
(* The registration of the webhook *)

Registration == INSTANCE WebhookRegistration WITH NoTime <- -1

Integrations == [enabled : BOOLEAN, secretNamed : BOOLEAN]
Live == [enabled |-> TRUE, secretNamed |-> TRUE]

Answer(ok, n) == [ok |-> ok, hook |-> n, hooks |-> << >>]

\* One of the writers, working on a row.
Written(kept) ==
    {Registration!EnsureRegistration(i, kept, s, a) :
        i \in Integrations, s \in BOOLEAN, a \in {Answer(TRUE, 7), Answer(FALSE, 0)}}
      \cup {Registration!Delivery(kept, o) :
              o \in {"unnamed_event", "no_secret", "ignored", "known", "handled", "failed"}}

\* The rows that up to three of them leave, each as old as it is or two days older.
Aged(rows) == rows \cup {[r EXCEPT !.validated = IF @ = -1 THEN -1 ELSE @ + 2] : r \in rows}
Next1(rows) == Aged(UNION {Written(r) : r \in rows})
Reached == Next1(Next1(Next1({Registration!NotRegistered})))

\* The status "registered" says nothing of a hook: a delivery earns it without one, and
\* writes it for an integration that is switched off (webhook_registration.go:236-262).
ASSUME RegisteredWithoutAHook ==
    /\ \E r \in Reached : r.status = "registered" /\ r.hook = 0
    /\ \A r \in Reached :
          LET seen == Registration!Hydrate(Live, Registration!Delivery(r, "ignored"))
          IN seen.status = "registered" /\ seen.hook = r.hook

\* The redelivery of a webhook that failed finds its run and clears the row's error, though
\* nothing was taken in (github_webhook.go:54-64).
ASSUME RedeliveryHidesFailure ==
    \A r \in Reached :
        LET failed == Registration!Delivery(r, "failed")
        IN /\ Registration!Hydrate(Live, failed).status = "repair_recommended"
           /\ Registration!Hydrate(Live, Registration!Delivery(failed, "known")).status
                = "registered"

\* A registration that fails keeps the hook of an earlier one, and whoever reads a row of
\* a working integration is told of a failure or of a day of silence.
ASSUME TroubleIsShown ==
    /\ \A r \in Reached, i \in Integrations, s \in BOOLEAN :
          Registration!EnsureRegistration(i, r, s, Answer(FALSE, 0)).hook = r.hook
    /\ \A r \in Reached :
          LET seen == Registration!Hydrate(Live, r)
          IN seen.status = "registered" => seen.failures = 0 /\ seen.validated \in {-1, 0, 1}

\* One registration after the other makes one hook if the provider lists it, two that
\* overlap make two (github_live.go EnsureOrganizationWebhook).
ASSUME OverlappingRegistrations ==
    LET after(listed, hooks, page) == Registration!Ensure(listed, hooks, "url", TRUE, page).hooks
        other == <<[id |-> 1, url |-> "elsewhere"]>>
    IN /\ Len(after(after(other, other, 100), after(other, other, 100), 100)) = 2
       /\ Len(after(other, after(other, other, 100), 100)) = 3
       /\ Len(after(after(other, other, 1), after(other, other, 1), 1)) = 3

----------------------------------------------------------------------------
(* Configuration and freshness *)

Derived == INSTANCE IntegrationHealth WITH Never <- -1, Blank <- ""

Keys == {"app_id", "app_slug", "private_key_env", "installation_id", "access_token_env"}

Configured ==
    [kind : {"github", "gitlab", "jira"}, enabled : BOOLEAN, control : BOOLEAN,
     mode : {"", "governance"}, auth : {"", "token", "app"}, set : SUBSET Keys,
     rawSecret : {FALSE}, scheduled : {TRUE}, interval : {0, 900}, staleAfter : {0}]

\* An accepted integration that controls is one the runtime lets control, and a GitHub
\* integration with a token is refused once a part of an app is configured, until all of
\* it is (integrations_live.go validateIntegrationConfiguration).
ASSUME AcceptedControlIsAllowed ==
    \A i \in Configured : Derived!Valid(i, FALSE) =>
        /\ i.control => Derived!AllowsActiveControl(i)
        /\ (i.kind = "github" /\ i.enabled /\ "app_id" \in i.set) => Keys \ {"access_token_env"} \subseteq i.set

\* The row of a GitHub integration as a schedule of the interval s leaves it: k seconds
\* after the last run, which came after n others and may have failed.
RowsAfter(s, limit) ==
    {[kind |-> "github", enabled |-> TRUE, scheduled |-> TRUE, interval |-> s,
      staleAfter |-> limit, attempted |-> a, next |-> a + s,
      succeeded |-> b, failed |-> f] :
        a \in {9000}, b \in {-1, 9000 - s, 9000}, f \in {-1, 9000}}

\* A schedule that is kept is never stale between its runs, with the limit that is
\* computed for its interval.
ASSUME KeptScheduleIsFresh ==
    \A s \in {60, 900, 3600} : \A i \in RowsAfter(s, 0), k \in {0, s} :
        i.succeeded = 9000 => ~Derived!IsStale(i, 9000 + k)

\* The limit of a shorter interval stays when an operator lengthens it: the integration
\* then reads stale between runs that all succeed (pilot_runtime_depth.go:42-51).
ASSUME LongerIntervalReadsStale ==
    \A i \in RowsAfter(3600, Derived!DefaultStaleAfter("github", 900)) :
        i.succeeded = 9000 => Derived!IsStale(i, 9000 + 3600)

\* An integration that never succeeded reads as an error, but never as stale, as long as
\* its attempts go on, for each of them starts the lag anew (pilot_runtime_depth.go:87-97).
ASSUME NeverSucceededIsNeverStale ==
    \A s \in {60, 900, 3600} : \A i \in RowsAfter(s, 0), k \in {0, s} :
        (i.succeeded = -1 /\ i.failed = 9000) =>
            /\ ~Derived!IsStale(i, 9000 + k)
            /\ Derived!Freshness(Derived!Hydrate(i), 9000 + k) = "error"
=============================================================================
