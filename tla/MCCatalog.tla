----------------------------- MODULE MCCatalog ------------------------------
(* The instance the run of Catalog uses, and the bounded inputs on which it  *)
(* evaluates the resolution of rollback policies.                            *)
EXTENDS Catalog, RollbackPolicies, TLC

CONSTANTS p1, p2, t1, t2, s1, s2, e1, e2, A, B

Standing0 ==
    [id \in Ids |->
        CASE id = p1 -> New(Null, Null, A)
          [] id = t1 -> New(p1, Null, A)
          [] id = s1 -> New(p1, t1, A)
          [] id = e1 -> [New(p1, Null, A) EXCEPT !.archived = TRUE]
          [] OTHER   -> Null]

Interchangeable == Permutations(Actors)

----------------------------------------------------------------------------
(* An execution of service s1 in environment e1 of project p1; policies for  *)
(* every part of that scope and for another service, of two priorities and   *)
(* two ages.                                                                 *)

Execution ==
    [project |-> p1, service |-> s1, environment |-> e1, production |-> FALSE,
     critical |-> FALSE, customerFacing |-> FALSE, risk |-> "low"]

Scopes ==
    {[level \in named |-> Execution[level]] : named \in SUBSET Levels}
        \cup {[service |-> s2], [project |-> p1, service |-> s2]}

Requests == [scope : Scopes, enabled : {"default", "off"}, priority : 0..1,
             unhealthy : {0}, onFailure : {"default"}, onCritical : {"off"}]

Policies == {Created(req, now) : req \in Requests, now \in 1..2}

HomeOf == [x \in {s1, s2, e1} |-> p1]

\* Every pair of policies resolves to the narrowest that applies, every scope here is
\* one the handler accepts, and a switched-off policy counts again after an update.
ASSUME NarrowestIsChosen ==
    /\ \A p, q \in Policies : ResolvesNarrowest({p, q}, Execution)
    /\ \A scope \in Scopes : ValidScope(scope, HomeOf)
    /\ \A p \in Policies :
          LET on == Updated(p, [enabled |-> TRUE, unhealthy |-> 0])
          IN /\ on.unhealthy = 0 /\ p.unhealthy = -1
             /\ DOMAIN p.scope = Levels /\ p.scope.service = s1 => Effective({on}, Execution) = {on}

\* The documented order does not hold: see ServiceOutranks.
ASSUME ServiceAndEnvironmentTie ==
    \E p, q \in Policies : Applies(p, Execution) /\ Applies(q, Execution) /\ ~ServiceOutranks(p, q)
=============================================================================
