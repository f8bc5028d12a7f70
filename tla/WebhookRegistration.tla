------------------------ MODULE WebhookRegistration ------------------------
(***************************************************************************)
(* The row that says whether a provider's webhook is registered, and what  *)
(* its writers make of it: the registration at the provider, which runs on *)
(* request and when an integration is changed, and every delivery. Each    *)
(* reads the row, computes the new one and writes it whole.                *)
(*                                                                         *)
(* An integration is [enabled, secretNamed]; the age of a validation is    *)
(* counted in days, NoTime if there was none. The provider keeps the       *)
(* sequence of its hooks [id, url]; a hook's id of 0 is none.              *)
(***************************************************************************)
EXTENDS Integers, Sequences, FiniteSets
LOCAL INSTANCE FiniteSetsExt

CONSTANT NoTime         \* a row that was never validated

----------------------------------------------------------------------------
(* The row *)

\* What is worked on as long as there is no row.
NotRegistered ==
    [status |-> "not_registered", health |-> "unknown", hook |-> 0, validated |-> NoTime,
     registered |-> NoTime, delivered |-> NoTime, failures |-> 0, error |-> ""]

\* What a reader is shown, and what the registration starts from. A switched-off
\* integration keeps its hook at the provider.
Hydrate(integration, row) ==
    LET failing == row.health = "error" \/ row.failures > 0
        old == row.validated # NoTime /\ row.validated > 1
    IN CASE ~integration.enabled -> [row EXCEPT !.status = "disabled", !.health = "disabled"]
         [] integration.enabled /\ ~integration.secretNamed ->
                [row EXCEPT !.status = "manual_required"]
         [] integration.enabled /\ integration.secretNamed ->
                [row EXCEPT !.status =
                    IF @ = "registered" /\ (failing \/ old) THEN "repair_recommended" ELSE @]

----------------------------------------------------------------------------
(* The provider: the hooks are listed and one is changed or made. *)

Listed(hooks, url) == {i \in DOMAIN hooks : hooks[i].url = url}

\* The hooks that were listed are changed or added to when the second request arrives,
\* which another registration may have done in between. GitHub lists the first page of 100.
Ensure(listed, hooks, url, answers, page) ==
    LET seen == {i \in Listed(listed, url) : i <= page}
        new == Max({hooks[i].id : i \in DOMAIN hooks} \cup {0}) + 1
    IN CASE ~answers -> [ok |-> FALSE, hook |-> 0, hooks |-> hooks]
         [] answers /\ seen # {} -> [ok |-> TRUE, hook |-> listed[Min(seen)].id, hooks |-> hooks]
         [] OTHER ->
                [ok |-> TRUE, hook |-> new, hooks |-> Append(hooks, [id |-> new, url |-> url])]

----------------------------------------------------------------------------
(* The writers *)

Failing(row, error) == [row EXCEPT !.status = "error", !.error = error, !.failures = @ + 1]

\* The name of the secret, the secret and the provider's answer decide, in this order.
EnsureRegistration(integration, row, secret, result) ==
    LET start == Hydrate(integration, row)
    IN CASE ~integration.secretNamed ->
                [start EXCEPT !.status = "manual_required", !.error = "unnamed"]
         [] integration.secretNamed /\ ~secret -> Failing(start, "empty")
         [] integration.secretNamed /\ secret /\ ~result.ok -> Failing(start, "provider")
         [] integration.secretNamed /\ secret /\ result.ok ->
                [start EXCEPT !.hook = result.hook, !.status = "registered",
                              !.health = "unknown", !.registered = 0, !.validated = 0,
                              !.error = "", !.failures = 0]

\* A delivery counts as a validation whether it succeeded or not.
MarkDelivery(row, ok) ==
    LET marked == [row EXCEPT !.delivered = 0, !.validated = 0]
    IN IF ok THEN [marked EXCEPT !.health = "healthy", !.error = "", !.failures = 0,
                                 !.status = "registered"]
       ELSE [marked EXCEPT !.health = "error", !.error = "delivery", !.failures = @ + 1,
                           !.status = "repair_recommended"]

\* What a delivery is for the row: ignored by an integration that is switched off, without
\* a secret on this side, refused, nameless, known already, or handled with or without an
\* error. One that is known already succeeds whatever became of it the first time.
Delivery(row, outcome) ==
    CASE outcome = "unnamed_event" -> row
      [] outcome \in {"no_secret", "bad_signature", "failed"} -> MarkDelivery(row, FALSE)
      [] outcome \in {"ignored", "known", "handled"} -> MarkDelivery(row, TRUE)
=============================================================================
