----------------------------- MODULE Discovery ------------------------------
(***************************************************************************)
(* What the integrations of an organization find: repositories, Kubernetes *)
(* workloads and Prometheus signal targets, the services and environments  *)
(* they are mapped to by guesses, by query templates, by graph ingestion   *)
(* and by operators, and the relationships drawn from the mappings.        *)
(*                                                                         *)
(* A sync, a webhook, an ingestion and an operator's update all read a row *)
(* and write it back whole; between the two may lie a call of a provider.  *)
(* A sync somebody asks for overlaps with a scheduled one.                 *)
(*                                                                         *)
(*   rows      the row of each thing found, or Null                        *)
(*   edges     the relationships; they are never taken back                *)
(*   changes   the scopes of the change sets webhooks have stored          *)
(*   request   per actor: its step and the copies it holds                 *)
(*   pinned    history: see Decide and Forget                              *)
(*   budget    how many more requests may start                            *)
(***************************************************************************)
EXTENDS Naturals, FiniteSets, Functions

CONSTANTS
    Actors,         \* requests and syncs under way
    Repositories, Workloads, Targets,   \* what can be found
    Projects, Services, Environments, Teams,    \* the catalog
    Home,           \* the project of each service and environment
    TeamOf,         \* the team of each service
    Hint,           \* the service and environment a workload's name and namespace
                    \* match, or a target's query template names; Null for none
    RepositoryRequests, ResourceRequests,   \* what operators ask for
    Ingestions,     \* what graph ingestions say of a repository
    Keep,           \* a field a request leaves alone
    Null,
    MaxRequests     \* bound on requests

Resources == Workloads \cup Targets
Things == Repositories \cup Resources

Statuses == {"", "discovered", "candidate", "mapped", "missing", "ignored"}

Row == [project : Projects \cup {Null}, service : Services \cup {Null},
        environment : Environments \cup {Null}, repository : Repositories \cup {Null},
        status : Statuses, owner : Teams \cup {Null}]

Hints == [service : Services \cup {Null}, environment : Environments \cup {Null}]

ASSUME DiscoveryAssumption ==
    /\ Home \in [Services \cup Environments -> Projects]
    /\ TeamOf \in [Services -> Teams]
    /\ Hint \in [Resources -> Hints]
    /\ MaxRequests \in Nat

\* An operator's request names fields to set or to clear, and any status; an ingestion
\* names a project, a service, or both.
Wishes == [project : Projects \cup {Null, Keep}, service : Services \cup {Null, Keep},
           environment : Environments \cup {Null, Keep},
           repository : Repositories \cup {Null, Keep}, status : Statuses \cup {Keep}]

ASSUME DiscoveryRequests ==
    /\ RepositoryRequests \cup ResourceRequests \subseteq Wishes
    /\ \A req \in Ingestions :
          /\ req.project \in Projects \cup {Null} /\ req.service \in Services \cup {Keep}
          /\ req.project # Null \/ req.service # Keep

\* Ids of different tables differ, and Null is neither an id nor a row.
ASSUME DiscoveryValues ==
    /\ Teams \cap (Services \cup Repositories) = {}
    /\ Repositories \cap Resources = {} /\ Workloads \cap Targets = {}
    /\ Null \notin Projects \cup Services \cup Environments \cup Teams \cup Things
    /\ Null \notin Row

VARIABLES rows, edges, changes, request, pinned, budget

vars == <<rows, edges, changes, request, pinned, budget>>

Idle == [step |-> "idle", kind |-> Null, seen |-> {}, todo |-> {}, thing |-> Null,
         row |-> Null, marks |-> << >>, done |-> << >>]

Init ==
    /\ rows = [t \in Things |-> Null]
    /\ edges = {} /\ changes = {}
    /\ request = [a \in Actors |-> Idle]
    /\ pinned = [t \in Things |-> Null]
    /\ budget = MaxRequests

----------------------------------------------------------------------------
(* Requests.                                                               *)

At(a, step) == request[a].step = step

Advance(a, r) == request' = [request EXCEPT ![a] = r] /\ UNCHANGED budget

Begin(a, r) ==
    /\ At(a, "idle") /\ budget > 0
    /\ budget' = budget - 1
    /\ request' = [request EXCEPT ![a] = r]
    /\ UNCHANGED <<rows, edges, changes, pinned>>

\* The process ends, the provider does not answer, a statement fails.
Abandon(a) ==
    /\ ~At(a, "idle")
    /\ Advance(a, Idle)
    /\ UNCHANGED <<rows, edges, changes, pinned>>

\* Another request is going to write back a copy of the row of t.
HeldByOthers(a, t) ==
    \E b \in Actors \ {a} :
        \/ request[b].step \in {"write", "rewrite", "decide"} /\ request[b].thing = t
        \/ t \in DOMAIN request[b].marks

Write(row, t) == rows' = [rows EXCEPT ![t] = row]

\* History: what a person or an ingesting client has mapped t to, as long as nobody
\* who read the row before can write it.
Decide(a, t, row) ==
    /\ Write(row, t)
    /\ pinned' = [pinned EXCEPT ![t] =
           IF HeldByOthers(a, t) THEN Null
           ELSE [service |-> row.service, environment |-> row.environment]]

----------------------------------------------------------------------------
(* The owner is inferred: the team of the service, or of the service of    *)
(* the repository a resource belongs to.                                   *)

OwningService(row) ==
    IF row.service = Null /\ row.repository # Null THEN rows[row.repository].service
    ELSE row.service

\* Slip: an owner once inferred is kept.
OwnedOnce(row) ==
    IF row.owner # Null THEN row
    ELSE [row EXCEPT !.owner =
             IF OwningService(row) = Null THEN Null ELSE TeamOf[OwningService(row)]]

Owned(row) ==
    [row EXCEPT !.owner = IF OwningService(row) = Null THEN Null ELSE TeamOf[OwningService(row)]]

Blank == [project |-> Null, service |-> Null, environment |-> Null, repository |-> Null,
          status |-> "", owner |-> Null]

\* Slip: what is found now replaces what was stored.
Refill(value, hint) == IF hint = Null THEN value ELSE hint

Fill(value, hint) == IF value = Null THEN hint ELSE value

----------------------------------------------------------------------------
(* What a row becomes when its thing is found.                             *)

FoundRepository(row) == [row EXCEPT !.status = IF @ = "" THEN "discovered" ELSE @]

Unmapped(status) == IF status \in {"", "missing", "mapped"} THEN "candidate" ELSE status

\* Guesses by name fill what is blank. The environment is any one with the slug, in
\* whatever project.
FoundWorkload(row, hint) ==
    LET s == Fill(row.service, hint.service)
        e == Fill(row.environment, hint.environment)
        p == IF s # Null /\ hint.service # Null THEN Home[hint.service]
             ELSE IF e # Null /\ hint.environment # Null THEN Home[hint.environment] ELSE Null
    IN Owned([row EXCEPT !.service = s, !.environment = e, !.project = Fill(@, p),
                         !.status = IF s # Null /\ e # Null THEN "mapped" ELSE Unmapped(@)])

\* A template's service brings its project along; one of the two makes it mapped.
FoundTarget(row, hint) ==
    LET byService == row.service = Null /\ hint.service # Null
        byEnvironment == row.environment = Null /\ hint.environment # Null
        p == IF byService THEN Home[hint.service] ELSE row.project
        s == Fill(row.service, hint.service)
        e == Fill(row.environment, hint.environment)
    IN Owned([row EXCEPT !.service = s, !.environment = e,
                         !.project = IF byEnvironment THEN Fill(p, Home[hint.environment]) ELSE p,
                         !.status = IF s # Null \/ e # Null THEN "mapped" ELSE Unmapped(@)])

Stored(t) == Fill(rows[t], Blank)

\* What looking up the row of t yields. Of a workload or a target, any error is taken
\* for a row that does not exist, and the find goes on from a blank one.
LookedUp(t) == IF t \in Resources THEN {Stored(t), Blank} ELSE {Stored(t)}

\* What the catalog says of t. Of a target, the service and the environment of its
\* template are looked up one by one, and one that cannot be read is passed over.
Guesses(t) ==
    CASE t \in Repositories -> {[service |-> Null, environment |-> Null]}
      [] t \in Workloads    -> {Hint[t]}
      [] t \in Targets      -> {h \in Hints : /\ h.service \in {Null, Hint[t].service}
                                             /\ h.environment \in {Null, Hint[t].environment}}

Found(t, row, hint) ==
    CASE t \in Repositories -> FoundRepository(row)
      [] t \in Workloads    -> FoundWorkload(row, hint)
      [] t \in Targets      -> FoundTarget(row, hint)

----------------------------------------------------------------------------
(* A sync: the provider's list, then a row at a time; of a repository the  *)
(* owners file is fetched between two writes of the same copy. What is     *)
(* stored and was not listed is marked missing; relationships come last.   *)

Sync(a, kind, seen) ==
    /\ seen \subseteq kind
    /\ Begin(a, [Idle EXCEPT !.step = "scan", !.kind = kind, !.seen = seen, !.todo = seen])

\* History: a decision is given up when its row could not be read back.
Forget(t, row) ==
    pinned' = IF row = Stored(t) THEN pinned ELSE [pinned EXCEPT ![t] = Null]

Scan(a) ==
    LET r == request[a] IN
    /\ At(a, "scan") /\ r.todo # {}
    /\ \E t \in r.todo : \E row \in LookedUp(t), hint \in Guesses(t) :
          /\ Advance(a, [r EXCEPT !.step = "write", !.thing = t, !.row = Found(t, row, hint),
                                  !.todo = @ \ {t}])
          /\ Forget(t, row)
    /\ UNCHANGED <<rows, edges, changes>>

Handled(r) == [r EXCEPT !.step = "scan", !.thing = Null, !.row = Null,
                        !.done = [t \in DOMAIN @ \cup {r.thing} |->
                                     IF t = r.thing THEN r.row ELSE r.done[t]]]

Store(a) ==
    LET r == request[a] IN
    /\ At(a, "write")
    /\ Write(r.row, r.thing)
    /\ Advance(a, IF r.kind = {} THEN [Handled(r) EXCEPT !.step = "webhook"]
                  ELSE IF r.thing \in Repositories THEN [r EXCEPT !.step = "rewrite"]
                  ELSE Handled(r))
    /\ UNCHANGED <<edges, changes, pinned>>

\* The owners file is loaded, the team looked up, and the copy written again.
RefreshOwnership(a) ==
    LET r == [request[a] EXCEPT !.row = Owned(request[a].row)] IN
    /\ At(a, "rewrite")
    /\ Write(r.row, r.thing)
    /\ Advance(a, Handled(r))
    /\ UNCHANGED <<edges, changes, pinned>>

Unseen(r) == {t \in r.kind \cap Resources : rows[t] # Null /\ t \notin r.seen}

\* A collection of signals without a snapshot marks nothing, one with a snapshot without
\* signals everything.
Missing(r) == IF r.kind = Targets /\ r.seen = {} THEN {{}, Unseen(r)} ELSE {Unseen(r)}

EndScan(a) ==
    LET r == request[a] IN
    /\ At(a, "scan") /\ r.todo = {}
    /\ \E missing \in Missing(r) :
          Advance(a, [r EXCEPT !.step = "mark", !.marks = [t \in missing |-> rows[t]]])
    /\ UNCHANGED <<rows, edges, changes, pinned>>

MarkMissing(a) ==
    LET r == request[a] IN
    /\ At(a, "mark")
    /\ IF r.marks = << >>
       THEN Advance(a, [r EXCEPT !.step = "graph"]) /\ UNCHANGED rows
       ELSE \E t \in DOMAIN r.marks :
               /\ Write([r.marks[t] EXCEPT !.status = "missing"], t)
               /\ Advance(a, [r EXCEPT !.marks = Restrict(@, DOMAIN @ \ {t})])
    /\ UNCHANGED <<edges, changes, pinned>>

\* The relationships of a mapping; those with the integration are left out.
EdgesOf(t, row) ==
    LET repository == IF row.repository = Null THEN {} ELSE {<<row.repository, t>>}
        service == IF row.service = Null THEN {} ELSE {<<row.service, t>>}
        team == IF row.service = Null \/ row.owner = Null THEN {} ELSE {<<row.owner, t>>}
        environment == IF row.service = Null \/ row.environment = Null THEN {}
                       ELSE {<<row.service, row.environment>>}
    IN repository \cup service \cup team \cup environment

Relate(a) ==
    LET r == request[a] IN
    /\ At(a, "graph")
    /\ IF r.done = << >>
       THEN Advance(a, Idle) /\ UNCHANGED edges
       ELSE \E t \in DOMAIN r.done :
               /\ edges' = edges \cup EdgesOf(t, r.done[t])
               /\ Advance(a, [r EXCEPT !.done = Restrict(@, DOMAIN @ \ {t})])
    /\ UNCHANGED <<rows, changes, pinned>>

\* A webhook's change finds its repository in the same way, without the owners file,
\* and becomes a change set when the copy it wrote is mapped, archived or not, and
\* whether or not its service and environment are of its project.
Webhook(a, t) ==
    Begin(a, [Idle EXCEPT !.step = "write", !.kind = {}, !.thing = t,
                          !.row = FoundRepository(Stored(t))])

TakeIn(a) ==
    LET r == request[a]
        t == CHOOSE t \in DOMAIN r.done : TRUE
        row == r.done[t]
        scope == [project |-> row.project, service |-> row.service,
                  environment |-> row.environment]
    IN /\ At(a, "webhook")
       /\ edges' = edges \cup EdgesOf(t, row)
       /\ changes' = IF Null \in {scope.project, scope.service, scope.environment}
                     THEN changes ELSE changes \cup {scope}
       /\ Advance(a, Idle)
       /\ UNCHANGED <<rows, pinned>>

----------------------------------------------------------------------------
(* Operators.                                                              *)

Asked(value, wish) == IF wish = Keep THEN value ELSE wish

Named(wish) == wish \notin {Keep, Null}

\* A service brings its project. What the request names must be of the project; what
\* the row already had is not compared.
MapRepository(row, req) ==
    LET s == Asked(row.service, req.service)
        e == Asked(row.environment, req.environment)
        p == IF Named(req.service) THEN Home[s] ELSE Asked(row.project, req.project)
        q == IF Named(req.environment) THEN Fill(p, Home[e]) ELSE p
        status == Asked(row.status, req.status)
    IN Owned([row EXCEPT
           !.service = s, !.environment = e,
           !.project = IF q = Null /\ s # Null THEN Home[s] ELSE q,
           !.status = IF status # "" THEN status
                      ELSE IF s # Null \/ e # Null THEN "mapped" ELSE "discovered"])

Consistent(row, req) ==
    /\ Named(req.service) => Home[req.service] = row.project
    /\ Named(req.environment) => Home[req.environment] = row.project

UpdateRepository(a, t, req) ==
    LET row == MapRepository(rows[t], req) IN
    /\ rows[t] # Null /\ Consistent(row, req)
    /\ Begin(a, [Idle EXCEPT !.step = "decide", !.thing = t, !.row = row])

MapResource(row, req) ==
    LET s == Asked(row.service, req.service)
        e == Asked(row.environment, req.environment)
        h == Asked(row.repository, req.repository)
        p == IF Named(req.service) THEN Home[s] ELSE Asked(row.project, req.project)
        q == IF Named(req.environment) THEN Fill(p, Home[e]) ELSE p
        status == Asked(row.status, req.status)
    IN Owned([row EXCEPT
           !.service = s, !.environment = e, !.repository = h,
           !.project = IF Named(req.repository) THEN Fill(q, rows[h].project) ELSE q,
           !.status = IF status # "" THEN status
                      ELSE IF s # Null /\ e # Null THEN "mapped" ELSE "candidate"])

UpdateDiscoveredResource(a, t, req) ==
    /\ rows[t] # Null
    /\ Named(req.repository) => rows[req.repository] # Null
    /\ Begin(a, [Idle EXCEPT !.step = "decide", !.thing = t, !.row = MapResource(rows[t], req)])

\* An ingesting client names the project or the service or both, in one transaction
\* that reads the row without locking it. A new row has no status.
IngestIntegrationGraph(a, t, req) ==
    LET row == Stored(t)
        p == IF req.project # Null THEN req.project ELSE Home[req.service]
        mapped == [row EXCEPT !.project = p, !.service = Asked(@, req.service)]
    IN Begin(a, [Idle EXCEPT !.step = "decide", !.kind = Repositories, !.thing = t,
                             !.row = Owned(mapped)])

\* The ingestion commits its relationships with the row; an operator's follow.
StoreDecision(a) ==
    LET r == request[a] IN
    /\ At(a, "decide")
    /\ Decide(a, r.thing, r.row)
    /\ IF r.kind = Repositories
       THEN edges' = edges \cup EdgesOf(r.thing, [r.row EXCEPT !.environment = Null])
            /\ Advance(a, Idle)
       ELSE Advance(a, [Handled(r) EXCEPT !.step = "graph"]) /\ UNCHANGED edges
    /\ UNCHANGED changes

----------------------------------------------------------------------------
Next ==
    \E a \in Actors :
        \/ \E kind \in {Repositories, Workloads, Targets} :
              \E seen \in SUBSET kind : Sync(a, kind, seen)
        \/ \E t \in Repositories : Webhook(a, t)
        \/ \E t \in Repositories, req \in RepositoryRequests : UpdateRepository(a, t, req)
        \/ \E t \in Resources, req \in ResourceRequests : UpdateDiscoveredResource(a, t, req)
        \/ \E t \in Repositories, req \in Ingestions : IngestIntegrationGraph(a, t, req)
        \/ Scan(a) \/ Store(a) \/ RefreshOwnership(a) \/ EndScan(a) \/ MarkMissing(a)
        \/ Relate(a) \/ TakeIn(a) \/ StoreDecision(a)
        \/ Abandon(a)

Spec == Init /\ [][Next]_vars

----------------------------------------------------------------------------
(* Properties.                                                             *)

\* Rows have their shape, only resources belong to a repository, the owner is the team
\* of the service, and whatever was remapped since, a team is related to a thing only
\* together with a service of that team.
TypeOK ==
    /\ rows \in [Things -> Row \cup {Null}]
    /\ \A t \in Things : rows[t] # Null =>
          /\ t \in Repositories => rows[t].repository = Null
          /\ rows[t].service # Null => rows[t].owner = TeamOf[rows[t].service]
    /\ \A edge \in edges : edge[1] \in Teams =>
          \E s \in Services : TeamOf[s] = edge[1] /\ <<s, edge[2]>> \in edges
    /\ \A c \in changes : Null \notin {c.project, c.service, c.environment}
    /\ budget \in 0..MaxRequests

\* Syncs and webhooks write whole rows, across provider calls, and guess mappings
\* from names. A mapping that an operator or an ingestion stored while no copy of the
\* row was about to be written stays until the next such decision: through syncs and
\* webhooks that began later, disappearances, returns, templates and other guesses. That
\* ends when a sync fails to read the row of a workload or a target: it goes on from a
\* blank one, and its guesses replace what was decided (discovery_helpers.go:132, 282).
DecidedMappingsStay ==
    \A t \in Things : pinned[t] # Null =>
        /\ pinned[t].service \in {Null, rows[t].service}
        /\ pinned[t].environment \in {Null, rows[t].environment}
=============================================================================
