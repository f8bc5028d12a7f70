-------------------------- MODULE RollbackPolicies --------------------------
(***************************************************************************)
(* Which rollback policy governs an execution: the enabled policies of its *)
(* organization whose scope it is in, the most specific first, then by     *)
(* priority, then the newest; a built-in one when there is none.           *)
(*                                                                         *)
(* A scope is the set of what it names, of "project", "service" and        *)
(* "environment", with the ids named; an execution names all three.        *)
(***************************************************************************)
EXTENDS Integers, FiniteSets

Levels == {"project", "service", "environment"}

\* What a request leaves out keeps its default; no limit on unhealthy instances is -1,
\* and a new policy cannot have a limit of 0.
Created(req, now) ==
    [scope |-> req.scope, enabled |-> req.enabled # "off", priority |-> req.priority,
     unhealthy |-> IF req.unhealthy = 0 THEN -1 ELSE req.unhealthy,
     onFailure |-> req.onFailure # "off", onCritical |-> req.onCritical # "off",
     created |-> now]

\* An update changes what it names, and may set a limit of 0; the scope stays.
Updated(policy, changes) ==
    [f \in DOMAIN policy |-> IF f \in DOMAIN changes \ {"scope", "created"}
                             THEN changes[f] ELSE policy[f]]

\* The project, service and environment a policy names belong together.
ValidScope(scope, projectOf) ==
    "project" \in DOMAIN scope =>
        \A level \in DOMAIN scope \ {"project"} : projectOf[scope[level]] = scope.project

Applies(policy, execution) ==
    policy.enabled /\ \A level \in DOMAIN policy.scope : policy.scope[level] = execution[level]

Weight == [project |-> 1, service |-> 2, environment |-> 2]

Specificity(policy) ==
    LET w(level) == IF level \in DOMAIN policy.scope THEN Weight[level] ELSE 0
    IN w("project") + w("service") + w("environment")

Outranks(left, right) ==
    \/ Specificity(left) > Specificity(right)
    \/ /\ Specificity(left) = Specificity(right)
       /\ \/ left.priority > right.priority
          \/ left.priority = right.priority /\ left.created > right.created

\* The thresholds are two sets of numbers: strict and lenient.
DefaultPolicy(execution) ==
    LET wary == \/ execution.production \/ execution.critical \/ execution.customerFacing
                \/ execution.risk \in {"high", "critical"}
    IN [scope |-> [level \in Levels |-> execution[level]], enabled |-> TRUE, priority |-> -1,
        unhealthy |-> IF wary THEN 0 ELSE 1,
        onFailure |-> TRUE, onCritical |-> wary, created |-> 0]

\* Policies made at the same moment with the same rank are in no order: any may be first.
Effective(policies, execution) ==
    LET candidates == {p \in policies : Applies(p, execution)}
    IN IF candidates = {} THEN {DefaultPolicy(execution)}
       ELSE {p \in candidates : ~\E q \in candidates : Outranks(q, p)}

----------------------------------------------------------------------------
(* What the resolution promises.                                           *)

\* One scope names everything the other does and more.
Narrower(left, right) ==
    /\ DOMAIN right.scope \subseteq DOMAIN left.scope /\ DOMAIN left.scope # DOMAIN right.scope

\* The resolution answers with a policy that applies, with the built-in one only when
\* none applies, and never with one that another applying policy narrows, whatever
\* their priorities and ages.
ResolvesNarrowest(policies, execution) ==
    LET chosen == Effective(policies, execution)
    IN /\ chosen # {}
       /\ \A p \in chosen : Applies(p, execution)
       /\ \A p \in chosen : p \notin policies => ~\E q \in policies : Applies(q, execution)
       /\ \A p \in chosen \cap policies, q \in policies :
              Applies(q, execution) => ~Narrower(q, p)

\* The order docs/architecture/automatic-rollback.md gives, service before environment
\* before project, is not the code's: a service and an environment weigh the same, so
\* priority decides between them, and an environment with its project outweighs a
\* service.
ServiceOutranks(left, right) ==
    "service" \in DOMAIN left.scope /\ "service" \notin DOMAIN right.scope
        => ~Outranks(right, left)
=============================================================================
