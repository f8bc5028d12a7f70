------------------------------ MODULE Catalog -------------------------------
(***************************************************************************)
(* The catalog of one organization: projects, teams, services and          *)
(* environments, the change sets taken in for them, and the trail every    *)
(* write leaves (an audit record, a status event, an outbox event).        *)
(*                                                                         *)
(* A creation looks for the slug and inserts later, an update writes back  *)
(* the row it read, a change set is refused by four rows read one after    *)
(* another. The trail is written after the row, one statement each.        *)
(*                                                                         *)
(*   rows      the row of each id, or Null                                 *)
(*   admins    the projects whose creator is a member                      *)
(*   changes   the ids each stored change set is for, or Null              *)
(*   trail     per id: how many writes, and how far they were announced    *)
(*   request   per actor: its step and the copies it holds                 *)
(*   sealed    history: see Store                                          *)
(*   budget    how many more requests may start                            *)
(***************************************************************************)
EXTENDS Naturals, FiniteSets, Sequences

CONSTANTS
    Actors,         \* requests in flight
    Projects, Teams, Services, Environments,    \* ids
    Changes,        \* ids of change sets
    Slugs,
    Standing,       \* the rows there are at first
    Null,
    MaxRequests     \* bound on requests

Ids == Projects \cup Teams \cup Services \cup Environments

Row == [project : Projects \cup {Null}, team : Teams \cup {Null},
        slug : Slugs, archived : BOOLEAN]

ASSUME CatalogAssumption ==
    /\ Standing \in [Ids -> Row \cup {Null}]
    /\ MaxRequests \in Nat
    /\ IsFiniteSet(Actors)

\* Ids of different tables differ, and Null is neither an id nor a row.
ASSUME CatalogValues ==
    /\ Projects \cap (Teams \cup Services \cup Environments) = {}
    /\ Teams \cap (Services \cup Environments) = {} /\ Services \cap Environments = {}
    /\ Changes \cap Ids = {}
    /\ Null \notin Ids \cup Changes
    /\ Null \notin Row

\* The ids of the same table.
Siblings(id) ==
    CHOOSE kind \in {Projects, Teams, Services, Environments} : id \in kind

SlugTakenIn(table, id, row) ==
    \E other \in Siblings(id) \ {id} :
        /\ table[other] # Null
        /\ table[other].project = row.project /\ table[other].slug = row.slug

\* Slugs are unique, and what a row refers to is stored.
Consistent(table) ==
    \A id \in Ids : table[id] # Null =>
        /\ ~SlugTakenIn(table, id, table[id])
        /\ (table[id].project = Null) = (id \in Projects)
        /\ (table[id].team = Null) = (id \notin Services)
        /\ \A up \in {table[id].project, table[id].team} \ {Null} : table[up] # Null
        /\ table[id].team # Null => table[table[id].team].project = table[id].project

ASSUME StandingIsConsistent == Consistent(Standing)

VARIABLES rows, admins, changes, trail, request, sealed, budget

catalog == <<rows, admins, changes>>
vars == <<catalog, trail, request, sealed, budget>>

Steps == {"idle", "insert", "update", "check", "store_change", "audit", "status", "publish"}

Idle == [step |-> "idle", id |-> Null, row |-> Null, wish |-> Null, todo |-> << >>,
         for |-> {}, sealed |-> {}]

Silence == [writes |-> 0, audits |-> 0, statuses |-> 0, events |-> 0, cut |-> 0]

\* CreateOrganization has run, and some rows were made.
Init ==
    /\ rows = Standing
    /\ admins = {p \in Projects : Standing[p] # Null}
    /\ changes = [c \in Changes |-> Null]
    /\ trail = [k \in Ids \cup Changes |-> Silence]
    /\ request = [a \in Actors |-> Idle]
    /\ sealed = {k \in Ids : Standing[k] # Null /\ Standing[k].archived}
    /\ budget = MaxRequests

----------------------------------------------------------------------------
(* Requests.                                                               *)

At(a, step) == request[a].step = step

Begin(a, r) ==
    /\ At(a, "idle") /\ budget > 0
    /\ budget' = budget - 1
    /\ request' = [request EXCEPT ![a] = [r EXCEPT !.sealed = sealed]]

Advance(a, r) == request' = [request EXCEPT ![a] = r] /\ UNCHANGED budget

\* Its write is stored and not announced yet.
Telling(a) == request[a].step \in {"audit", "status", "publish"}

\* The process ends, the client goes away, a statement fails.
Abandon(a) ==
    LET r == request[a] IN
    /\ ~At(a, "idle")
    /\ trail' = IF Telling(a) THEN [trail EXCEPT ![r.id].cut = @ + 1]
                ELSE trail
    /\ Advance(a, Idle)
    /\ UNCHANGED <<catalog, sealed>>

Written(k) == trail' = [trail EXCEPT ![k].writes = @ + 1]

----------------------------------------------------------------------------
(* Slugs are unique among the projects of the organization and among the   *)
(* teams, the services and the environments of a project.                  *)

SlugTaken(id, row) == SlugTakenIn(rows, id, row)

\* ensureProjectSlugAvailable, ensureTeamSlugAvailable, ...
SlugAvailable(id, row) == ~SlugTaken(id, row)

\* Slip: the index of the table is missing.
UnindexedSlug(id, row) == TRUE

\* The unique index of the table.
UniqueSlug(id, row) == ~SlugTaken(id, row)

----------------------------------------------------------------------------
(* Creations. What the row refers to is read first; it cannot go away.     *)

\* Ids are drawn at random: no two requests have the same.
Fresh(id) == \A b \in Actors : request[b].id # id

BeginCreate(a, id, row) ==
    /\ rows[id] = Null /\ Fresh(id)
    /\ SlugAvailable(id, row)
    /\ Begin(a, [Idle EXCEPT !.step = "insert", !.id = id, !.row = row])
    /\ UNCHANGED <<catalog, trail, sealed>>

New(project, team, slug) ==
    [project |-> project, team |-> team, slug |-> slug, archived |-> FALSE]

CreateProject(a, p, slug) == BeginCreate(a, p, New(Null, Null, slug))

\* Nothing is asked of the project but to exist: it may be archived.
CreateTeam(a, t, p, slug) ==
    rows[p] # Null /\ BeginCreate(a, t, New(p, Null, slug))

CreateService(a, s, p, t, slug) ==
    /\ rows[p] # Null /\ rows[t] # Null /\ rows[t].project = p
    /\ BeginCreate(a, s, New(p, t, slug))

CreateEnvironment(a, e, p, slug) ==
    rows[p] # Null /\ BeginCreate(a, e, New(p, Null, slug))

\* A project and the membership of its creator are one transaction. A slug that was
\* taken meanwhile fails the request.
Insert(a) ==
    LET r == request[a] IN
    /\ At(a, "insert")
    /\ IF UniqueSlug(r.id, r.row)
       THEN /\ rows' = [rows EXCEPT ![r.id] = r.row]
            /\ admins' = admins \cup ({r.id} \cap Projects)
            /\ Written(r.id)
            /\ Advance(a, [Idle EXCEPT !.step = "audit", !.id = r.id])
       ELSE UNCHANGED <<rows, admins, trail>> /\ Advance(a, Idle)
    /\ UNCHANGED <<changes, sealed>>

----------------------------------------------------------------------------
(* Updates: another slug, another status, or neither (a name, an owner).   *)
(* Archiving is the update to the status archived.                         *)

Wishes == [slug : Slugs \cup {Null}, status : {"keep", "archived", "active"}]

\* Slip: a request that names no status makes the row active.
WantedActive(row, wish) ==
    [row EXCEPT !.slug = IF wish.slug = Null THEN @ ELSE wish.slug,
                !.archived = wish.status = "archived"]

Wanted(row, wish) ==
    [row EXCEPT !.slug = IF wish.slug = Null THEN @ ELSE wish.slug,
                !.archived = IF wish.status = "keep" THEN @ ELSE wish.status = "archived"]

\* The handlers of the four kinds read the row, look for the slug if one is named, and
\* change their copy.
BeginUpdate(a, id, wish) ==
    /\ rows[id] # Null
    /\ wish.slug # Null => SlugAvailable(id, Wanted(rows[id], wish))
    /\ Begin(a, [Idle EXCEPT !.step = "update", !.id = id, !.row = Wanted(rows[id], wish),
                             !.wish = wish.status])
    /\ UNCHANGED <<catalog, trail, sealed>>

UpdateProject(a, p, wish) == p \in Projects /\ BeginUpdate(a, p, wish)
UpdateTeam(a, t, wish) == t \in Teams /\ BeginUpdate(a, t, wish)
UpdateService(a, s, wish) == s \in Services /\ BeginUpdate(a, s, wish)
UpdateEnvironment(a, e, wish) == e \in Environments /\ BeginUpdate(a, e, wish)

\* Another request is about to write back a copy of the row.
HeldByOthers(a, id) ==
    \E b \in Actors \ {a} : At(b, "update") /\ request[b].id = id

\* The whole row is written, the columns the request does not name as they were read.
\* History: a row is sealed when it is stored archived while no other copy of it is
\* about to be written, until a request that asks for it to be active is served.
Store(a) ==
    LET r == request[a]
        opens == r.wish = "active"
        after == [Idle EXCEPT !.step = "audit", !.id = r.id]
    IN /\ At(a, "update")
       /\ IF UniqueSlug(r.id, r.row)
          THEN /\ rows' = [rows EXCEPT ![r.id] = r.row]
               /\ sealed' = IF opens THEN sealed \ {r.id}
                            ELSE IF r.row.archived /\ ~HeldByOthers(a, r.id)
                            THEN sealed \cup {r.id} ELSE sealed
               /\ Written(r.id)
               /\ request' = [b \in Actors |->
                      IF b = a THEN after
                      ELSE IF opens THEN [request[b] EXCEPT !.sealed = @ \ {r.id}]
                      ELSE request[b]]
               /\ UNCHANGED budget
          ELSE UNCHANGED <<rows, trail, sealed>> /\ Advance(a, Idle)
       /\ UNCHANGED <<admins, changes>>

----------------------------------------------------------------------------
(* Change sets. The rows of the project, the service, the environment and  *)
(* the service's team are read in this order, each refused when archived.  *)

\* The service and the environment are those of the project.
InScope(p, s, e) == rows[s].project = p /\ rows[e].project = p

CreateChangeSet(a, c, p, s, e) ==
    /\ changes[c] = Null /\ Fresh(c)
    /\ rows[p] # Null /\ rows[s] # Null /\ rows[e] # Null /\ InScope(p, s, e)
    /\ LET needs == <<p, s, e, rows[s].team>>
       IN Begin(a, [Idle EXCEPT !.step = "check", !.id = c, !.todo = needs,
                                !.for = {needs[i] : i \in 1..4}])
    /\ UNCHANGED <<catalog, trail, sealed>>

CheckNext(a) ==
    LET r == request[a] IN
    /\ At(a, "check")
    /\ Advance(a, IF rows[Head(r.todo)].archived THEN Idle
                  ELSE [r EXCEPT !.todo = Tail(@),
                                 !.step = IF Len(r.todo) = 1 THEN "store_change" ELSE @])
    /\ UNCHANGED <<catalog, trail, sealed>>

StoreChange(a) ==
    LET r == request[a] IN
    /\ At(a, "store_change")
    /\ changes' = [changes EXCEPT ![r.id] = r.for]
    /\ Written(r.id)
    /\ Advance(a, [Idle EXCEPT !.step = "audit", !.id = r.id])
    /\ UNCHANGED <<rows, admins, sealed>>

----------------------------------------------------------------------------
(* The trail of a write: the audit record, the status event (its scope is  *)
(* read from the row), and the event stored in the outbox.                 *)

Leave(a, step, mark, next) ==
    /\ At(a, step)
    /\ trail' = mark
    /\ Advance(a, next)
    /\ UNCHANGED <<catalog, sealed>>

Audit(a) ==
    LET k == request[a].id
    IN Leave(a, "audit", [trail EXCEPT ![k].audits = @ + 1],
             [request[a] EXCEPT !.step = "status"])

\* Slip: the event is stored and the status event left out.
PublishOnly(a) ==
    LET k == request[a].id
    IN Leave(a, "status", [trail EXCEPT ![k].events = @ + 1], Idle)

Status(a) ==
    LET k == request[a].id
    IN Leave(a, "status", [trail EXCEPT ![k].statuses = @ + 1],
             [request[a] EXCEPT !.step = "publish"])

Publish(a) ==
    LET k == request[a].id
    IN Leave(a, "publish", [trail EXCEPT ![k].events = @ + 1], Idle)

----------------------------------------------------------------------------
Create(a) ==
    \/ \E p \in Projects, slug \in Slugs : CreateProject(a, p, slug)
    \/ \E t \in Teams, p \in Projects, slug \in Slugs : CreateTeam(a, t, p, slug)
    \/ \E s \in Services, p \in Projects, t \in Teams, slug \in Slugs :
          CreateService(a, s, p, t, slug)
    \/ \E e \in Environments, p \in Projects, slug \in Slugs :
          CreateEnvironment(a, e, p, slug)
    \/ Insert(a)

Update(a) ==
    \/ \E id \in Ids, wish \in Wishes :
          \/ UpdateProject(a, id, wish) \/ UpdateTeam(a, id, wish)
          \/ UpdateService(a, id, wish) \/ UpdateEnvironment(a, id, wish)
    \/ Store(a)

Change(a) ==
    \/ \E c \in Changes, p \in Projects, s \in Services, e \in Environments :
          CreateChangeSet(a, c, p, s, e)
    \/ CheckNext(a)
    \/ StoreChange(a)

Next ==
    \E a \in Actors :
        \/ Create(a) \/ Update(a) \/ Change(a)
        \/ Audit(a) \/ Status(a) \/ Publish(a)
        \/ Abandon(a)

Spec == Init /\ [][Next]_vars

----------------------------------------------------------------------------
(* Properties.                                                             *)

\* Rows have the shape of their kind and refer to rows that are stored, a service to a
\* team of its project, every stored project has its creator as a member, and although
\* slugs are looked for in one statement and stored in a later one, no two siblings
\* share one.
TypeOK ==
    /\ rows \in [Ids -> Row \cup {Null}]
    /\ Consistent(rows)
    /\ admins = {p \in Projects : rows[p] # Null}
    /\ changes \in [Changes -> (SUBSET Ids) \cup {Null}]
    /\ \A a \in Actors : request[a].step \in Steps
    /\ sealed \subseteq Ids
    /\ budget \in 0..MaxRequests

\* An update writes the columns it does not name as it read them, so one that began
\* before a row was archived makes it active again. That is the only way: a row
\* archived while no other update of it was on its way stays archived until somebody
\* asks otherwise, and CreateChangeSet stores none for it whose request began after
\* that, although it reads the four rows one at a time and never again. Change sets made
\* of webhooks are stored without a look at the status (scm.go:282) and are not meant.
ArchiveHolds ==
    /\ \A id \in sealed : rows[id].archived
    /\ \A a \in Actors : At(a, "store_change") => request[a].for \cap request[a].sealed = {}

\* record writes the audit record, the status event and the outbox event of a change
\* that is already stored, in statements that may each be the last. Whatever actors
\* interleave and wherever they stop, subscribers never hear of a write that history
\* does not show, and a write nobody was told of is one whose request ended early.
TrailFollowsWrites ==
    \A k \in Ids \cup Changes :
        LET t == trail[k]
            telling == {a \in Actors : request[a].id = k /\ Telling(a)}
        IN /\ t.events <= t.statuses /\ t.statuses <= t.audits /\ t.audits <= t.writes
           /\ t.writes = t.events + t.cut + Cardinality(telling)
=============================================================================
