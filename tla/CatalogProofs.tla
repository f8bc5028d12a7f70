---------------------------- MODULE CatalogProofs ----------------------------
(***************************************************************************)
(* Theorems about Catalog, for any number of ids, slugs and actors and for *)
(* any consistent catalog to start from.                                   *)
(***************************************************************************)
EXTENDS Catalog, FiniteSetTheorems, SequenceTheorems, TLAPS

----------------------------------------------------------------------------
(* Types. What a request is going to write refers to stored rows.          *)

Asks == {"keep", "archived", "active"}

Requests ==
    [step : Steps, id : Ids \cup Changes \cup {Null}, row : Row \cup {Null},
     wish : Asks \cup {Null}, todo : Seq(Ids), for : SUBSET Ids, sealed : SUBSET Ids]

\* A row of the kind of id.
Referring(id, row) ==
    /\ row \in Row
    /\ (row.project = Null) = (id \in Projects)
    /\ (row.team = Null) = (id \notin Services)
    /\ \A up \in {row.project, row.team} \ {Null} : rows[up] # Null
    /\ row.team # Null => rows[row.team].project = row.project

Sound(r) ==
    /\ r \in Requests
    /\ r.step \in {"insert", "update"} => r.id \in Ids /\ Referring(r.id, r.row)
    /\ r.step = "update" => /\ r.wish \in Asks /\ rows[r.id] # Null
                            /\ rows[r.id].project = r.row.project
    /\ r.step = "check" => r.todo # << >>
    /\ r.step \in {"check", "store_change"} => r.id \in Changes
    /\ r.step \in {"audit", "status", "publish"} => r.id \in Ids \cup Changes

\* Nobody else is about to write the row a request is going to insert.
OwnInv ==
    \A a \in Actors : At(a, "insert") =>
        /\ rows[request[a].id] = Null
        /\ \A b \in Actors \ {a} : request[b].id # request[a].id

LocalInv ==
    /\ request \in [Actors -> Requests]
    /\ \A a \in Actors : Sound(request[a])
    /\ OwnInv

TypeInv == TypeOK /\ LocalInv

\* No row is deleted, and none moves to another project.
Lasting ==
    \A id \in Ids : rows[id] # Null => rows'[id] # Null /\ rows'[id].project = rows[id].project

LEMMA SameRows == UNCHANGED rows => Lasting
BY DEF Lasting

LEMMA ReferringStays ==
    ASSUME Lasting, NEW id, NEW row, Referring(id, row)
    PROVE Referring(id, row)'
<1>1. /\ row.project \in Ids \cup {Null} /\ row.team \in Ids \cup {Null}
      /\ row.project # Null => rows[row.project] # Null
      /\ row.team # Null => rows[row.team] # Null
    BY DEF Referring, Row, Ids
<1>2. /\ \A up \in {row.project, row.team} \ {Null} : rows'[up] # Null
      /\ row.team # Null => rows'[row.team].project = row.project
    BY <1>1 DEF Lasting, Referring
<1> QED BY <1>2 DEF Referring

LEMMA SoundStays ==
    ASSUME Lasting, NEW r, Sound(r)
    PROVE Sound(r)'
<1>1. \A id, row : Referring(id, row) => Referring(id, row)'
    BY ReferringStays
<1>2. r.step = "update" => rows'[r.id] # Null /\ rows'[r.id].project = r.row.project
    BY DEF Sound, Lasting
<1> QED BY <1>1, <1>2 DEF Sound

LEMMA RequestTypes ==
    ASSUME TypeInv, Lasting, NEW a \in Actors, NEW r, Sound(r),
           request' = [request EXCEPT ![a] = r]
    PROVE request' \in [Actors -> Requests] /\ \A b \in Actors : Sound(request[b])'
<1>1. request' \in [Actors -> Requests]
    BY DEF TypeInv, LocalInv, Sound
<1>2. ASSUME NEW b \in Actors PROVE Sound(request[b])'
    <2>1. Sound(request'[b])
        BY DEF TypeInv, LocalInv
    <2>2. ASSUME NEW q, q = request'[b] PROVE Sound(q)'
        BY <2>1, <2>2, SoundStays
    <2> QED BY <2>2
<1> QED BY <1>1, <1>2

----------------------------------------------------------------------------
(* Tables                                                                  *)

LEMMA Kinds ==
    ASSUME NEW id \in Ids
    PROVE /\ Siblings(id) \subseteq Ids /\ id \in Siblings(id)
          /\ \A other \in Siblings(id) : Siblings(other) = Siblings(id)
<1> DEFINE K == {Projects, Teams, Services, Environments}
<1>1. \E kind \in K : id \in kind
    BY DEF Ids
<1>2. Siblings(id) \in K /\ id \in Siblings(id)
    BY <1>1 DEF Siblings
<1>3. ASSUME NEW other \in Siblings(id) PROVE Siblings(other) = Siblings(id)
    <2>1. \E kind \in K : other \in kind
        BY <1>2
    <2>2. Siblings(other) \in K /\ other \in Siblings(other)
        BY <2>1 DEF Siblings
    <2>3. \A k \in K, l \in K : other \in k /\ other \in l => k = l
        BY CatalogValues
    <2> QED BY <1>2, <2>2, <2>3
<1>4. \A kind \in K : kind \subseteq Ids
    BY DEF Ids
<1> QED BY <1>2, <1>3, <1>4

\* A row with a slug no sibling has keeps the tables consistent.
LEMMA WriteConsistent ==
    ASSUME TypeInv, NEW id \in Ids, NEW row, Referring(id, row), ~SlugTaken(id, row),
           rows[id] # Null => rows[id].project = row.project,
           rows' = [rows EXCEPT ![id] = row]
    PROVE Lasting /\ Consistent(rows)' /\ rows' \in [Ids -> Row \cup {Null}] /\ row # Null
<1>1. row \in Row /\ row # Null /\ rows \in [Ids -> Row \cup {Null}]
    BY CatalogValues DEF Referring, TypeInv, TypeOK
<1>2. /\ rows' \in [Ids -> Row \cup {Null}]
      /\ \A k \in Ids : rows'[k] = IF k = id THEN row ELSE rows[k]
    BY <1>1
<1>3. Lasting
    BY <1>1, <1>2 DEF Lasting
<1>4. ASSUME NEW k \in Ids, rows'[k] # Null PROVE Referring(k, rows[k])'
    <2>1. CASE k = id
        <3>1. Referring(id, row)'
            BY <1>3, ReferringStays
        <3>2. rows'[k] = row
            BY <1>2, <2>1
        <3> QED BY <2>1, <3>1, <3>2
    <2>2. CASE k # id
        <3>1. Referring(k, rows[k])
            BY <1>2, <1>4, <2>2 DEF TypeInv, TypeOK, Consistent, Referring
        <3>2. ASSUME NEW q, q = rows[k] PROVE Referring(k, q)'
            BY <1>3, <3>1, <3>2, ReferringStays
        <3>3. rows'[k] = rows[k]
            BY <1>2, <2>2
        <3> QED BY <3>2, <3>3
    <2> QED BY <2>1, <2>2
<1>5. ASSUME NEW k \in Ids, rows'[k] # Null PROVE ~SlugTakenIn(rows', k, rows'[k])
    <2> SUFFICES ASSUME NEW other \in Siblings(k) \ {k}, rows'[other] # Null,
                        rows'[other].project = rows'[k].project,
                        rows'[other].slug = rows'[k].slug
                 PROVE FALSE
        BY DEF SlugTakenIn
    <2>1. other \in Ids /\ Siblings(other) = Siblings(k) /\ k \in Siblings(other) \ {other}
        BY Kinds
    <2>2. CASE k = id
        BY <1>2, <2>1, <2>2 DEF SlugTaken, SlugTakenIn
    <2>3. CASE other = id
        BY <1>2, <1>5, <2>1, <2>3 DEF SlugTaken, SlugTakenIn
    <2>4. CASE k # id /\ other # id
        BY <1>2, <1>5, <2>1, <2>4 DEF TypeInv, TypeOK, Consistent, SlugTakenIn
    <2> QED BY <2>2, <2>3, <2>4
<1>6. Consistent(rows')
    BY <1>4, <1>5 DEF Consistent, Referring
<1> QED BY <1>1, <1>2, <1>3, <1>6
----------------------------------------------------------------------------
(* Actions                                                                 *)

\* The ids of rows about to be inserted stay apart from what a step writes.
LEMMA OwnStays ==
    ASSUME TypeInv, NEW a \in Actors, NEW r,
           \A b \in Actors :
              IF b = a THEN request'[b] = r
              ELSE request'[b].step = request[b].step /\ request'[b].id = request[b].id,
           r.step = "insert" =>
              rows'[r.id] = Null /\ \A b \in Actors \ {a} : request[b].id # r.id,
           \A b \in Actors \ {a} : At(b, "insert") =>
              request[b].id # r.id /\ rows'[request[b].id] = Null
    PROVE OwnInv'
<1> SUFFICES ASSUME NEW c \in Actors, request'[c].step = "insert"
             PROVE /\ rows'[request'[c].id] = Null
                   /\ \A b \in Actors \ {c} : request'[b].id # request'[c].id
    BY DEF OwnInv, At
<1>1. CASE c = a
    BY <1>1
<1>2. CASE c # a
    BY <1>2 DEF TypeInv, LocalInv, OwnInv, At
<1> QED BY <1>1, <1>2

\* A step that goes on with the same id, or ends, and inserts nothing later.
LEMMA QuietOwn ==
    ASSUME TypeInv, NEW a \in Actors, NEW r,
           \A b \in Actors :
              IF b = a THEN request'[b] = r
              ELSE request'[b].step = request[b].step /\ request'[b].id = request[b].id,
           r.step # "insert", r.id \in {Null, request[a].id},
           \A id \in Ids : rows[id] = Null /\ id # request[a].id => rows'[id] = Null
    PROVE OwnInv'
<1>1. ASSUME NEW b \in Actors \ {a}, At(b, "insert")
      PROVE request[b].id # r.id /\ rows'[request[b].id] = Null
    <2>1. request[b].id \in Ids /\ rows[request[b].id] = Null /\ request[a].id # request[b].id
        BY <1>1 DEF TypeInv, LocalInv, OwnInv, Sound, At
    <2> QED BY <2>1, CatalogValues
<1> QED BY <1>1, OwnStays

LEMMA TypesFrom ==
    ASSUME TypeInv, rows' \in [Ids -> Row \cup {Null}], Consistent(rows)',
           admins' = {p \in Projects : rows'[p] # Null},
           changes' \in [Changes -> (SUBSET Ids) \cup {Null}],
           request' \in [Actors -> Requests], \A b \in Actors : Sound(request[b])', OwnInv',
           sealed' \subseteq Ids, budget' \in 0..MaxRequests
    PROVE TypeInv'
<1>1. \A b \in Actors : request'[b].step \in Steps
    BY DEF Requests
<1> QED BY <1>1 DEF TypeInv, TypeOK, LocalInv

LEMMA IdleSound == Sound(Idle) /\ Idle.step = "idle" /\ Idle.id = Null
<1> DEFINE none == << >>
<1>1. none \in Seq(Ids)
    OBVIOUS
<1>2. Idle = [step |-> "idle", id |-> Null, row |-> Null, wish |-> Null, todo |-> none,
              for |-> {}, sealed |-> {}]
    BY DEF Idle
<1> HIDE DEF none
<1> QED BY <1>1, <1>2 DEF Sound, Requests, Steps

\* A request that begins changes nothing else.
LEMMA BeginTypes ==
    ASSUME TypeInv, NEW a \in Actors, NEW r, Sound(r), Begin(a, r),
           UNCHANGED <<catalog, sealed>>,
           r.step = "insert" =>
              rows[r.id] = Null /\ \A b \in Actors \ {a} : request[b].id # r.id,
           \A b \in Actors \ {a} : At(b, "insert") => request[b].id # r.id
    PROVE TypeInv'
<1> DEFINE q == [r EXCEPT !.sealed = sealed]
<1>1. UNCHANGED <<rows, admins, changes, sealed>>
    BY DEF catalog
<1>2. request' = [request EXCEPT ![a] = q] /\ budget' \in 0..MaxRequests
    BY CatalogAssumption DEF Begin, TypeInv, TypeOK
<1>3. Sound(q) /\ q.step = r.step /\ q.id = r.id
    BY DEF Sound, Requests, TypeInv, TypeOK
<1> HIDE DEF q
<1>4. request' \in [Actors -> Requests] /\ \A b \in Actors : Sound(request[b])'
    BY <1>1, <1>2, <1>3, SameRows, RequestTypes
<1>5. \A b \in Actors : request'[b] = IF b = a THEN q ELSE request[b]
    BY <1>2 DEF TypeInv, LocalInv
<1>6. \A b \in Actors \ {a} : At(b, "insert") => rows'[request[b].id] = Null
    BY <1>1 DEF TypeInv, LocalInv, OwnInv
<1>7. OwnInv'
    BY <1>1, <1>3, <1>5, <1>6, OwnStays
<1>8. Consistent(rows)' /\ admins' = {p \in Projects : rows'[p] # Null}
    BY <1>1 DEF TypeInv, TypeOK
<1> QED BY <1>1, <1>2, <1>4, <1>7, <1>8, TypesFrom DEF TypeInv, TypeOK

\* So does a request that moves on with the same id, or ends.
LEMMA AdvanceTypes ==
    ASSUME TypeInv, NEW a \in Actors, NEW r, Sound(r), Advance(a, r),
           UNCHANGED <<rows, admins, sealed>>,
           changes' \in [Changes -> (SUBSET Ids) \cup {Null}],
           r.step # "insert", r.id \in {Null, request[a].id}
    PROVE TypeInv'
<1>1. request' = [request EXCEPT ![a] = r] /\ budget' \in 0..MaxRequests
    BY DEF Advance, TypeInv, TypeOK
<1>2. request' \in [Actors -> Requests] /\ \A b \in Actors : Sound(request[b])'
    BY <1>1, SameRows, RequestTypes
<1>3. \A b \in Actors : request'[b] = IF b = a THEN r ELSE request[b]
    BY <1>1 DEF TypeInv, LocalInv
<1>4. OwnInv'
    BY <1>3, QuietOwn
<1>5. Consistent(rows)' /\ admins' = {p \in Projects : rows'[p] # Null}
    BY DEF TypeInv, TypeOK
<1> QED BY <1>1, <1>2, <1>4, <1>5, TypesFrom DEF TypeInv, TypeOK

LEMMA InitTypes == Init => TypeInv
<1> SUFFICES ASSUME Init PROVE TypeInv
    OBVIOUS
<1>1. request \in [Actors -> Requests] /\ \A a \in Actors : Sound(request[a])
    BY IdleSound DEF Init, Sound
<1>2. OwnInv
    BY IdleSound DEF Init, OwnInv, At
<1>3. rows \in [Ids -> Row \cup {Null}] /\ Consistent(rows) /\ sealed \subseteq Ids
    BY CatalogAssumption, StandingIsConsistent DEF Init
<1>4. changes \in [Changes -> (SUBSET Ids) \cup {Null}]
    BY DEF Init
<1>5. admins = {p \in Projects : rows[p] # Null} /\ budget \in 0..MaxRequests
    BY CatalogAssumption DEF Init
<1>6. \A a \in Actors : request[a].step \in Steps
    BY <1>1 DEF Requests
<1>7. TypeOK
    BY <1>3, <1>4, <1>5, <1>6 DEF TypeOK
<1> QED BY <1>1, <1>2, <1>7 DEF TypeInv, LocalInv

LEMMA BeginCreateTypes ==
    ASSUME TypeInv, NEW a \in Actors, NEW id \in Ids, NEW row, Referring(id, row),
           BeginCreate(a, id, row)
    PROVE TypeInv'
<1> DEFINE r == [Idle EXCEPT !.step = "insert", !.id = id, !.row = row]
<1>1. Begin(a, r) /\ rows[id] = Null /\ Fresh(id) /\ UNCHANGED <<catalog, sealed>>
    BY DEF BeginCreate
<1>2. Sound(Idle) /\ row \in Row
    BY IdleSound DEF Referring
<1>3. r \in Requests /\ r.step = "insert" /\ r.id = id /\ r.row = row
    BY <1>2 DEF Sound, Requests, Steps
<1> HIDE DEF r
<1>4. Sound(r)
    BY <1>3 DEF Sound
<1>5. \A b \in Actors : request[b].id # r.id
    BY <1>1, <1>3 DEF Fresh
<1> QED BY <1>1, <1>3, <1>4, <1>5, BeginTypes

LEMMA CreateTypes ==
    ASSUME TypeInv, NEW a \in Actors,
           \/ \E p \in Projects, slug \in Slugs : CreateProject(a, p, slug)
           \/ \E t \in Teams, p \in Projects, slug \in Slugs : CreateTeam(a, t, p, slug)
           \/ \E s \in Services, p \in Projects, t \in Teams, slug \in Slugs :
                 CreateService(a, s, p, t, slug)
           \/ \E e \in Environments, p \in Projects, slug \in Slugs :
                 CreateEnvironment(a, e, p, slug)
    PROVE TypeInv'
<1>0. /\ Null \notin Projects \cup Teams
      /\ Projects \subseteq Ids /\ Teams \subseteq Ids /\ Services \subseteq Ids
      /\ Environments \subseteq Ids
    BY CatalogValues DEF Ids
<1>1. ASSUME NEW p \in Projects, NEW slug \in Slugs, CreateProject(a, p, slug) PROVE TypeInv'
    <2>1. Referring(p, New(Null, Null, slug))
        BY CatalogValues DEF Referring, New, Row
    <2> QED BY <1>0, <1>1, <2>1, BeginCreateTypes DEF CreateProject
<1>2. ASSUME NEW t \in Teams, NEW p \in Projects, NEW slug \in Slugs, CreateTeam(a, t, p, slug)
      PROVE TypeInv'
    <2>1. Referring(t, New(p, Null, slug))
        BY <1>0, <1>2, CatalogValues DEF Referring, New, Row, CreateTeam
    <2> QED BY <1>0, <1>2, <2>1, BeginCreateTypes DEF CreateTeam
<1>3. ASSUME NEW s \in Services, NEW p \in Projects, NEW t \in Teams, NEW slug \in Slugs,
             CreateService(a, s, p, t, slug)
      PROVE TypeInv'
    <2>1. Referring(s, New(p, t, slug))
        BY <1>0, <1>3, CatalogValues DEF Referring, New, Row, CreateService
    <2> QED BY <1>0, <1>3, <2>1, BeginCreateTypes DEF CreateService
<1>4. ASSUME NEW e \in Environments, NEW p \in Projects, NEW slug \in Slugs,
             CreateEnvironment(a, e, p, slug)
      PROVE TypeInv'
    <2>1. Referring(e, New(p, Null, slug))
        BY <1>0, <1>4, CatalogValues DEF Referring, New, Row, CreateEnvironment
    <2> QED BY <1>0, <1>4, <2>1, BeginCreateTypes DEF CreateEnvironment
<1> QED BY <1>1, <1>2, <1>3, <1>4

LEMMA InsertTypes ==
    ASSUME TypeInv, NEW a \in Actors, Insert(a)
    PROVE TypeInv'
<1> DEFINE r == request[a]
           q == [Idle EXCEPT !.step = "audit", !.id = r.id]
<1>1. /\ Sound(r) /\ r.step = "insert" /\ r.id \in Ids /\ Referring(r.id, r.row)
      /\ rows[r.id] = Null
    BY DEF TypeInv, LocalInv, OwnInv, Insert, At, Sound
<1>2. Sound(q) /\ q.step = "audit" /\ q.id = r.id
    BY <1>1, IdleSound DEF Sound, Requests, Steps
<1>3. UNCHANGED <<changes, sealed>>
    BY DEF Insert
<1>4. CASE UniqueSlug(r.id, r.row)
    <2>1. /\ rows' = [rows EXCEPT ![r.id] = r.row] /\ admins' = admins \cup ({r.id} \cap Projects)
          /\ Advance(a, q)
        BY <1>4 DEF Insert
    <2>2. ~SlugTaken(r.id, r.row)
        BY <1>4 DEF UniqueSlug
    <2> HIDE DEF q, r
    <2>3. Lasting /\ Consistent(rows)' /\ rows' \in [Ids -> Row \cup {Null}] /\ r.row # Null
        BY <1>1, <2>1, <2>2, WriteConsistent
    <2>4. request' = [request EXCEPT ![a] = q] /\ budget' \in 0..MaxRequests
        BY <2>1 DEF Advance, TypeInv, TypeOK
    <2>5. request' \in [Actors -> Requests] /\ \A b \in Actors : Sound(request[b])'
        BY <1>2, <2>3, <2>4, RequestTypes
    <2>6. \A k \in Ids : rows'[k] = IF k = r.id THEN r.row ELSE rows[k]
        BY <2>1 DEF TypeInv, TypeOK
    <2>7. \A b \in Actors : request'[b] = IF b = a THEN q ELSE request[b]
        BY <2>4 DEF TypeInv, LocalInv
    <2>8. OwnInv'
        BY <1>2, <2>6, <2>7, QuietOwn DEF r
    <2>9. admins' = {p \in Projects : rows'[p] # Null}
        BY <2>1, <2>3, <2>6 DEF TypeInv, TypeOK, Ids
    <2> QED BY <1>3, <2>3, <2>4, <2>5, <2>8, <2>9, TypesFrom DEF TypeInv, TypeOK
<1>5. CASE ~UniqueSlug(r.id, r.row)
    <2>1. UNCHANGED <<rows, admins>> /\ Advance(a, Idle)
        BY <1>5 DEF Insert
    <2> QED BY <1>3, <2>1, IdleSound, AdvanceTypes DEF TypeInv, TypeOK
<1> QED BY <1>4, <1>5

LEMMA BeginUpdateTypes ==
    ASSUME TypeInv, NEW a \in Actors, NEW id \in Ids, NEW wish \in Wishes, BeginUpdate(a, id, wish)
    PROVE TypeInv'
<1> DEFINE row == Wanted(rows[id], wish)
           r == [Idle EXCEPT !.step = "update", !.id = id, !.row = row, !.wish = wish.status]
<1>1. Begin(a, r) /\ rows[id] # Null /\ UNCHANGED <<catalog, sealed>>
    BY DEF BeginUpdate
<1>2. rows[id] \in Row /\ Referring(id, rows[id])
    BY <1>1 DEF TypeInv, TypeOK, Consistent, Referring
<1>3. row \in Row /\ row.project = rows[id].project /\ row.team = rows[id].team
    BY <1>2 DEF Wanted, Row, Wishes
<1> HIDE DEF row
<1>4. Referring(id, row)
    BY <1>2, <1>3 DEF Referring
<1>5. wish.status \in Asks
    BY DEF Wishes, Asks
<1>6. /\ r \in Requests /\ r.step = "update" /\ r.id = id /\ r.row = row
      /\ r.wish = wish.status
    BY <1>3, <1>5, IdleSound DEF Sound, Requests, Steps
<1> HIDE DEF r
<1>7. Sound(r)
    BY <1>1, <1>3, <1>4, <1>5, <1>6 DEF Sound
<1>8. \A b \in Actors : At(b, "insert") => request[b].id # r.id
    BY <1>1, <1>6 DEF TypeInv, LocalInv, OwnInv
<1> QED BY <1>1, <1>6, <1>7, <1>8, BeginTypes

LEMMA StoreTypes ==
    ASSUME TypeInv, NEW a \in Actors, Store(a)
    PROVE TypeInv'
<1> DEFINE r == request[a]
           opens == r.wish = "active"
           q == [Idle EXCEPT !.step = "audit", !.id = r.id]
<1>1. /\ Sound(r) /\ r.step = "update" /\ r.id \in Ids /\ Referring(r.id, r.row)
      /\ rows[r.id] # Null /\ rows[r.id].project = r.row.project
    BY DEF TypeInv, LocalInv, Store, At, Sound
<1>2. Sound(q) /\ q.step = "audit" /\ q.id = r.id
    BY <1>1, IdleSound DEF Sound, Requests, Steps
<1>3. UNCHANGED <<admins, changes>>
    BY DEF Store
<1>4. CASE UniqueSlug(r.id, r.row)
    <2>1. /\ rows' = [rows EXCEPT ![r.id] = r.row]
          /\ sealed' \subseteq sealed \cup {r.id}
          /\ request' = [b \in Actors |->
                 IF b = a THEN q
                 ELSE IF opens THEN [request[b] EXCEPT !.sealed = @ \ {r.id}] ELSE request[b]]
          /\ UNCHANGED budget
        BY <1>4 DEF Store
    <2>2. ~SlugTaken(r.id, r.row)
        BY <1>4 DEF UniqueSlug
    <2> HIDE DEF q, r, opens
    <2>3. Lasting /\ Consistent(rows)' /\ rows' \in [Ids -> Row \cup {Null}] /\ r.row # Null
        BY <1>1, <2>1, <2>2, WriteConsistent
    <2>4. ASSUME NEW b \in Actors
          PROVE /\ Sound(request'[b])
                /\ b # a => request'[b].step = request[b].step /\ request'[b].id = request[b].id
        <3>1. CASE b = a
            BY <1>2, <2>1, <3>1
        <3>2. CASE b # a
            <4>1. Sound(request[b])
                BY DEF TypeInv, LocalInv
            <4>2. request'[b] = IF opens THEN [request[b] EXCEPT !.sealed = @ \ {r.id}]
                                ELSE request[b]
                BY <2>1, <3>2
            <4> QED BY <3>2, <4>1, <4>2 DEF Sound, Requests
        <3> QED BY <3>1, <3>2
    <2>5. request' \in [Actors -> Requests]
        BY <2>1, <2>4 DEF Sound
    <2>6. ASSUME NEW b \in Actors PROVE Sound(request[b])'
        <3>1. ASSUME NEW p, p = request'[b] PROVE Sound(p)'
            BY <2>3, <2>4, <3>1, SoundStays
        <3> QED BY <3>1
    <2>7. \A k \in Ids : rows'[k] = IF k = r.id THEN r.row ELSE rows[k]
        BY <2>1 DEF TypeInv, TypeOK
    <2>8. OwnInv'
        BY <1>2, <2>1, <2>4, <2>7, QuietOwn DEF r
    <2>9. admins' = {p \in Projects : rows'[p] # Null}
        BY <1>1, <1>3, <2>3, <2>7 DEF TypeInv, TypeOK, Ids
    <2>10. sealed' \subseteq Ids
        BY <1>1, <2>1 DEF TypeInv, TypeOK
    <2> QED BY <1>3, <2>1, <2>3, <2>5, <2>6, <2>8, <2>9, <2>10, TypesFrom DEF TypeInv, TypeOK
<1>5. CASE ~UniqueSlug(r.id, r.row)
    <2>1. UNCHANGED <<rows, sealed>> /\ Advance(a, Idle)
        BY <1>5 DEF Store
    <2> QED BY <1>3, <2>1, IdleSound, AdvanceTypes DEF TypeInv, TypeOK
<1> QED BY <1>4, <1>5
\* What a change set is for, in the order it is read.
Needs(p, s, e) == <<p, s, e, rows[s].team>>

LEMMA NeedsAreStored ==
    ASSUME TypeInv, NEW p \in Projects, NEW s \in Services, NEW e \in Environments,
           rows[s] # Null
    PROVE /\ Needs(p, s, e) \in Seq(Ids) /\ Len(Needs(p, s, e)) = 4
          /\ Needs(p, s, e) # << >>
          /\ {Needs(p, s, e)[i] : i \in 1..4} \subseteq Ids
<1>1. rows[s].team \in Teams
    BY CatalogValues DEF TypeInv, TypeOK, Consistent, Row, Ids
<1>2. p \in Ids /\ s \in Ids /\ e \in Ids /\ rows[s].team \in Ids
    BY <1>1 DEF Ids
<1> DEFINE t == rows[s].team
<1> HIDE DEF t
<1>3. <<p, s, e, t>> \in Seq(Ids) /\ Len(<<p, s, e, t>>) = 4
    BY <1>2 DEF t
<1> QED BY <1>2, <1>3 DEF Needs, t

LEMMA CreateChangeSetTypes ==
    ASSUME TypeInv, NEW a \in Actors, NEW c \in Changes, NEW p \in Projects,
           NEW s \in Services, NEW e \in Environments, CreateChangeSet(a, c, p, s, e)
    PROVE TypeInv'
<1> DEFINE needs == Needs(p, s, e)
           for == {needs[i] : i \in 1..4}
           r == [Idle EXCEPT !.step = "check", !.id = c, !.todo = needs, !.for = for]
<1>1. Begin(a, r) /\ UNCHANGED <<catalog, sealed>> /\ rows[s] # Null /\ Fresh(c)
    BY DEF CreateChangeSet, Needs
<1>2. needs \in Seq(Ids) /\ needs # << >> /\ for \in SUBSET Ids
    BY <1>1, NeedsAreStored
<1> HIDE DEF needs, for
<1>3. r \in Requests /\ r.step = "check" /\ r.id = c /\ r.todo = needs
    BY <1>2, IdleSound DEF Sound, Requests, Steps
<1> HIDE DEF r
<1>4. Sound(r)
    BY <1>2, <1>3 DEF Sound
<1>5. \A b \in Actors : request[b].id # r.id
    BY <1>1, <1>3 DEF Fresh
<1> QED BY <1>1, <1>3, <1>4, <1>5, BeginTypes

LEMMA ChangeTypes ==
    ASSUME TypeInv, NEW a \in Actors, CheckNext(a) \/ StoreChange(a)
    PROVE TypeInv'
<1> DEFINE r == request[a]
<1>0. r \in Requests /\ Sound(r)
    BY DEF TypeInv, LocalInv
<1>1. CASE CheckNext(a)
    <2> DEFINE q == [r EXCEPT !.todo = Tail(@),
                              !.step = IF Len(r.todo) = 1 THEN "store_change" ELSE @]
    <2>1. /\ Advance(a, Idle) \/ Advance(a, q)
          /\ UNCHANGED <<rows, admins, changes, sealed>> /\ r.step = "check"
        BY <1>1 DEF CheckNext, At, catalog
    <2>2. r.todo \in Seq(Ids) /\ r.todo # << >> /\ r.id \in Changes
        BY <1>0, <2>1 DEF Sound, Requests
    <2>3. Tail(r.todo) \in Seq(Ids) /\ (Len(r.todo) # 1 => Tail(r.todo) # << >>)
        <3> HIDE DEF r
        <3>1. Tail(r.todo) \in Seq(Ids) /\ Len(Tail(r.todo)) = Len(r.todo) - 1
            BY <2>2
        <3>2. Tail(r.todo) = << >> <=> Len(Tail(r.todo)) = 0
            BY <3>1, EmptySeq
        <3> QED BY <2>2, <3>1, <3>2
    <2>4. /\ q \in Requests /\ q.id = r.id /\ q.todo = Tail(r.todo)
          /\ q.step = IF Len(r.todo) = 1 THEN "store_change" ELSE "check"
        BY <1>0, <2>1, <2>3 DEF Requests, Steps
    <2> HIDE DEF q
    <2>5. Sound(q) /\ q.step # "insert"
        BY <2>2, <2>3, <2>4 DEF Sound
    <2> QED BY <2>1, <2>4, <2>5, IdleSound, AdvanceTypes DEF TypeInv, TypeOK
<1>2. CASE StoreChange(a)
    <2> DEFINE q == [Idle EXCEPT !.step = "audit", !.id = r.id]
    <2>1. /\ changes' = [changes EXCEPT ![r.id] = r.for] /\ Advance(a, q)
          /\ UNCHANGED <<rows, admins, sealed>> /\ r.step = "store_change"
        BY <1>2 DEF StoreChange, At
    <2>2. r.id \in Changes /\ r.for \in SUBSET Ids
        BY <1>0, <2>1 DEF Sound, Requests
    <2>3. Sound(q) /\ q.step = "audit" /\ q.id = r.id
        BY <2>2, IdleSound DEF Sound, Requests, Steps
    <2>4. changes' \in [Changes -> (SUBSET Ids) \cup {Null}]
        BY <2>1, <2>2 DEF TypeInv, TypeOK
    <2> QED BY <2>1, <2>3, <2>4, AdvanceTypes
<1> QED BY <1>1, <1>2

\* The announcements and the end of a request.
LEMMA LeaveTypes ==
    ASSUME TypeInv, NEW a \in Actors, Audit(a) \/ Status(a) \/ Publish(a) \/ Abandon(a)
    PROVE TypeInv'
<1> DEFINE r == request[a]
<1>0. r \in Requests /\ Sound(r)
    BY DEF TypeInv, LocalInv
<1>1. PICK q : Advance(a, q) /\ \/ q = Idle
                                \/ q = [r EXCEPT !.step = "status"] /\ r.step = "audit"
                                \/ q = [r EXCEPT !.step = "publish"] /\ r.step = "status"
    BY DEF Audit, Status, Publish, Abandon, Leave, At
<1>2. Sound(q) /\ q.step # "insert" /\ q.id \in {Null, r.id}
    BY <1>0, <1>1, IdleSound DEF Sound, Requests, Steps
<1>3. UNCHANGED <<rows, admins, changes, sealed>>
    BY DEF Audit, Status, Publish, Abandon, Leave, catalog
<1> QED BY <1>1, <1>2, <1>3, AdvanceTypes DEF TypeInv, TypeOK

LEMMA UpdateTypes ==
    ASSUME TypeInv, NEW a \in Actors, Update(a)
    PROVE TypeInv'
<1>1. Store(a) \/ \E id \in Ids, wish \in Wishes : BeginUpdate(a, id, wish)
    BY DEF Update, UpdateProject, UpdateTeam, UpdateService, UpdateEnvironment
<1> QED BY <1>1, StoreTypes, BeginUpdateTypes

LEMMA NextTypes == TypeInv /\ [Next]_vars => TypeInv'
<1> SUFFICES ASSUME TypeInv, [Next]_vars PROVE TypeInv'
    OBVIOUS
<1>1. ASSUME NEW a \in Actors, Create(a) PROVE TypeInv'
    BY <1>1, CreateTypes, InsertTypes DEF Create
<1>2. ASSUME NEW a \in Actors, Change(a) PROVE TypeInv'
    BY <1>2, CreateChangeSetTypes, ChangeTypes DEF Change
<1>3. CASE UNCHANGED vars
    <2>1. UNCHANGED <<rows, admins, changes, request, sealed, budget>>
        BY <1>3 DEF vars, catalog
    <2>2. ASSUME NEW b \in Actors PROVE Sound(request[b])'
        <3>1. ASSUME NEW q, q = request[b] PROVE Sound(q)'
            BY <2>1, <3>1, SoundStays, SameRows DEF TypeInv, LocalInv
        <3> QED BY <2>1, <3>1
    <2>3. OwnInv'
        BY <2>1 DEF TypeInv, LocalInv, OwnInv, At
    <2>4. Consistent(rows)' /\ admins' = {p \in Projects : rows'[p] # Null}
        BY <2>1 DEF TypeInv, TypeOK
    <2> QED BY <2>1, <2>2, <2>3, <2>4, TypesFrom DEF TypeInv, TypeOK, LocalInv
<1> QED BY <1>1, <1>2, <1>3, UpdateTypes, LeaveTypes DEF Next

\* Although a slug is looked for in one statement and stored in a later one, no two
\* siblings share one; what a row refers to is stored, and rows, memberships and change
\* sets keep their shape.
THEOREM TypeInvariance == Spec => [](TypeOK /\ LocalInv)
<1>1. TypeInv => TypeOK /\ LocalInv
    BY DEF TypeInv
<1> QED BY <1>1, InitTypes, NextTypes, PTL DEF Spec
----------------------------------------------------------------------------
(* Archiving holds. A copy of a sealed row that is about to be written     *)
(* keeps it archived or was asked to open it, and a change set has still   *)
(* to read every sealed row it is for.                                     *)

Respects(r) ==
    /\ r.sealed \subseteq sealed
    /\ r.step = "update" /\ r.id \in sealed => r.row.archived = TRUE \/ r.wish = "active"
    /\ r.step = "check" =>
          \A x \in r.for \cap r.sealed : \E i \in 1..Len(r.todo) : r.todo[i] = x
    /\ r.step = "store_change" => r.for \cap r.sealed = {}

SealInv ==
    /\ \A id \in sealed : rows[id] # Null /\ rows[id].archived = TRUE
    /\ \A b \in Actors : Respects(request[b])

LEMMA QuietSeal ==
    ASSUME TypeInv, SealInv, NEW a \in Actors, NEW r, request' = [request EXCEPT ![a] = r],
           UNCHANGED sealed, \A id \in Ids : rows[id] # Null => rows'[id] = rows[id],
           Respects(r)
    PROVE SealInv'
<1>1. \A b \in Actors : Respects(request'[b])
    BY DEF TypeInv, LocalInv, SealInv
<1>2. \A b \in Actors : Respects(request[b])'
    BY <1>1 DEF Respects
<1>3. \A id \in sealed : rows'[id] # Null /\ rows'[id].archived = TRUE
    BY DEF SealInv, TypeInv, TypeOK
<1> QED BY <1>2, <1>3 DEF SealInv

LEMMA CarelessRespects ==
    ASSUME NEW r, r.sealed \subseteq sealed, r.step \notin {"update", "check", "store_change"}
    PROVE Respects(r)
BY DEF Respects

LEMMA IdleRespects == Respects(Idle)
BY IdleSound, CarelessRespects DEF Idle

\* A request that begins and knows what is sealed.
LEMMA BeginSeal ==
    ASSUME TypeInv, SealInv, NEW a \in Actors, NEW r \in Requests, Begin(a, r),
           UNCHANGED <<catalog, sealed>>, Respects([r EXCEPT !.sealed = sealed])
    PROVE SealInv'
<1>1. request' = [request EXCEPT ![a] = [r EXCEPT !.sealed = sealed]] /\ UNCHANGED rows
    BY DEF Begin, catalog
<1> QED BY <1>1, QuietSeal

LEMMA BeginCreateSeal ==
    ASSUME TypeInv, SealInv, NEW a \in Actors,
           \/ \E p \in Projects, slug \in Slugs : CreateProject(a, p, slug)
           \/ \E t \in Teams, p \in Projects, slug \in Slugs : CreateTeam(a, t, p, slug)
           \/ \E s \in Services, p \in Projects, t \in Teams, slug \in Slugs :
                 CreateService(a, s, p, t, slug)
           \/ \E e \in Environments, p \in Projects, slug \in Slugs :
                 CreateEnvironment(a, e, p, slug)
    PROVE SealInv'
<1>1. PICK id, row : BeginCreate(a, id, row)
    BY DEF CreateProject, CreateTeam, CreateService, CreateEnvironment
<1> DEFINE r == [Idle EXCEPT !.step = "insert", !.id = id, !.row = row]
           q == [r EXCEPT !.sealed = sealed]
<1>2. request' = [request EXCEPT ![a] = q] /\ UNCHANGED <<rows, sealed>>
    BY <1>1 DEF BeginCreate, Begin, catalog
<1>3. q.step = "insert" /\ q.sealed = sealed
    BY IdleSound DEF Sound, Requests
<1> HIDE DEF q
<1> QED BY <1>2, <1>3, CarelessRespects, QuietSeal

LEMMA BeginUpdateSeal ==
    ASSUME TypeInv, SealInv, NEW a \in Actors, NEW id \in Ids, NEW wish \in Wishes,
           BeginUpdate(a, id, wish)
    PROVE SealInv'
<1> DEFINE row == Wanted(rows[id], wish)
           r == [Idle EXCEPT !.step = "update", !.id = id, !.row = row, !.wish = wish.status]
           q == [r EXCEPT !.sealed = sealed]
<1>1. request' = [request EXCEPT ![a] = q] /\ UNCHANGED <<rows, sealed>> /\ rows[id] # Null
    BY DEF BeginUpdate, Begin, catalog
<1>2. rows[id] \in Row /\ wish.status \in Asks
    BY <1>1 DEF TypeInv, TypeOK, Wishes, Asks
<1>3. id \in sealed /\ wish.status # "active" => row.archived = TRUE
    <2>1. row.archived = IF wish.status = "keep" THEN rows[id].archived
                         ELSE wish.status = "archived"
        BY <1>2 DEF Wanted, Row
    <2> QED BY <1>2, <2>1 DEF SealInv, Asks
<1> HIDE DEF row
<1>4. /\ q.step = "update" /\ q.id = id /\ q.row = row /\ q.wish = wish.status
      /\ q.sealed = sealed
    BY IdleSound DEF Sound, Requests
<1> HIDE DEF q
<1>5. Respects(q)
    BY <1>3, <1>4 DEF Respects
<1> QED BY <1>1, <1>5, QuietSeal

LEMMA InsertSeal ==
    ASSUME TypeInv, SealInv, NEW a \in Actors, Insert(a)
    PROVE SealInv'
<1> DEFINE r == request[a]
           q == [Idle EXCEPT !.step = "audit", !.id = r.id]
<1>1. UNCHANGED sealed /\ rows[r.id] = Null
    BY DEF Insert, TypeInv, LocalInv, OwnInv
<1>2. \A id \in Ids : rows[id] # Null => rows'[id] = rows[id]
    BY <1>1 DEF Insert, TypeInv, TypeOK
<1>3. q.step = "audit" /\ q.sealed = {}
    BY IdleSound DEF Sound, Requests, Idle
<1>4. request' = [request EXCEPT ![a] = q] \/ request' = [request EXCEPT ![a] = Idle]
    BY DEF Insert, Advance
<1> HIDE DEF q
<1>5. Respects(q)
    BY <1>3, CarelessRespects
<1> QED BY <1>1, <1>2, <1>4, <1>5, IdleRespects, QuietSeal

LEMMA StoreSeal ==
    ASSUME TypeInv, SealInv, NEW a \in Actors, Store(a)
    PROVE SealInv'
<1> DEFINE r == request[a]
           opens == r.wish = "active"
           q == [Idle EXCEPT !.step = "audit", !.id = r.id]
<1>1. Sound(r) /\ r.step = "update" /\ r.id \in Ids /\ r.row \in Row /\ Respects(r)
    BY DEF TypeInv, LocalInv, Store, At, Sound, Referring, SealInv
<1>2. q.step = "audit" /\ q.sealed = {}
    BY IdleSound DEF Sound, Requests, Idle
<1>3. CASE ~UniqueSlug(r.id, r.row)
    <2>1. request' = [request EXCEPT ![a] = Idle] /\ UNCHANGED <<rows, sealed>>
        BY <1>3 DEF Store, Advance
    <2> QED BY <2>1, IdleRespects, QuietSeal
<1>4. CASE UniqueSlug(r.id, r.row)
    <2>1. /\ rows' = [rows EXCEPT ![r.id] = r.row]
          /\ sealed' = IF opens THEN sealed \ {r.id}
                       ELSE IF r.row.archived /\ ~HeldByOthers(a, r.id)
                       THEN sealed \cup {r.id} ELSE sealed
          /\ request' = [b \in Actors |->
                 IF b = a THEN q
                 ELSE IF opens THEN [request[b] EXCEPT !.sealed = @ \ {r.id}] ELSE request[b]]
        BY <1>4 DEF Store
    <2> HIDE DEF q
    <2>2. /\ opens => sealed' = sealed \ {r.id}
          /\ ~opens => \/ sealed' = sealed
                       \/ /\ r.row.archived = TRUE /\ ~HeldByOthers(a, r.id)
                          /\ sealed' = sealed \cup {r.id}
        <3>1. r.row.archived \in BOOLEAN
            BY <1>1 DEF Row
        <3> QED BY <2>1, <3>1
    <2>3. \A k \in Ids : rows'[k] = IF k = r.id THEN r.row ELSE rows[k]
        BY <2>1 DEF TypeInv, TypeOK
    <2>4. \A b \in Actors : b # a =>
              request'[b] = IF opens THEN [request[b] EXCEPT !.sealed = @ \ {r.id}]
                            ELSE request[b]
        BY <2>1
    <2>5. request'[a] = q
        BY <2>1
    <2>6. r.id \in sealed' => ~opens /\ r.row.archived = TRUE
        BY <1>1, <2>2 DEF Respects
    <2> HIDE DEF opens
    <2>7. ASSUME NEW id \in sealed' PROVE rows'[id] # Null /\ rows'[id].archived = TRUE
        <3>1. CASE id = r.id
            BY <1>1, <2>3, <2>6, <2>7, <3>1, CatalogValues
        <3>2. CASE id # r.id
            <4>1. id \in sealed /\ id \in Ids
                BY <2>2, <3>2 DEF TypeInv, TypeOK
            <4> QED BY <2>3, <3>2, <4>1 DEF SealInv
        <3> QED BY <3>1, <3>2
    <2>8. ASSUME NEW b \in Actors PROVE Respects(request[b])'
        <3>1. CASE b = a
            BY <1>2, <2>5, <3>1 DEF Respects
        <3>2. CASE b # a
            <4> DEFINE p == request[b]
                       n == request'[b]
            <4>1. p \in Requests /\ Respects(p)
                BY DEF TypeInv, LocalInv, SealInv
            <4>2. /\ n.step = p.step /\ n.id = p.id /\ n.row = p.row /\ n.wish = p.wish
                  /\ n.for = p.for /\ n.todo = p.todo
                  /\ n.sealed = IF opens THEN p.sealed \ {r.id} ELSE p.sealed
                BY <2>4, <3>2, <4>1 DEF Requests
            <4> HIDE DEF p, n
            <4>3. n.sealed \subseteq sealed' /\ n.sealed \subseteq p.sealed
                BY <2>2, <4>1, <4>2 DEF Respects
            <4>4. p.step = "update" /\ p.id \in sealed' => p.id \in sealed
                BY <2>2, <3>2 DEF HeldByOthers, At, p
            <4>5. ASSUME NEW x, x = n PROVE Respects(x)'
                BY <4>1, <4>2, <4>3, <4>4, <4>5 DEF Respects
            <4> QED BY <4>5 DEF n
        <3> QED BY <3>1, <3>2
    <2> QED BY <2>7, <2>8 DEF SealInv
<1> QED BY <1>3, <1>4
LEMMA CreateChangeSetSeal ==
    ASSUME TypeInv, SealInv, NEW a \in Actors, NEW c \in Changes, NEW p \in Projects,
           NEW s \in Services, NEW e \in Environments, CreateChangeSet(a, c, p, s, e)
    PROVE SealInv'
<1> DEFINE needs == Needs(p, s, e)
           for == {needs[i] : i \in 1..4}
           r == [Idle EXCEPT !.step = "check", !.id = c, !.todo = needs, !.for = for]
           q == [r EXCEPT !.sealed = sealed]
<1>1. request' = [request EXCEPT ![a] = q] /\ UNCHANGED <<rows, sealed>> /\ rows[s] # Null
    BY DEF CreateChangeSet, Needs, Begin, catalog
<1>2. Len(needs) = 4
    BY <1>1, NeedsAreStored
<1>3. \A x \in for : \E i \in 1..4 : needs[i] = x
    OBVIOUS
<1> HIDE DEF needs, for
<1>4. q.step = "check" /\ q.todo = needs /\ q.for = for /\ q.sealed = sealed
    BY IdleSound DEF Sound, Requests
<1> HIDE DEF q
<1>5. Respects(q)
    BY <1>2, <1>3, <1>4 DEF Respects
<1> QED BY <1>1, <1>5, QuietSeal

\* What is read and not archived is not sealed; nothing is left when the last is read.
LEMMA CheckSeal ==
    ASSUME TypeInv, SealInv, NEW a \in Actors, CheckNext(a)
    PROVE SealInv'
<1> DEFINE r == request[a]
           q == [r EXCEPT !.todo = Tail(@),
                          !.step = IF Len(r.todo) = 1 THEN "store_change" ELSE @]
<1>1. /\ r \in Requests /\ r.step = "check" /\ r.todo \in Seq(Ids) /\ r.todo # << >>
      /\ Respects(r) /\ UNCHANGED <<rows, sealed>>
    BY DEF TypeInv, LocalInv, SealInv, Sound, Requests, CheckNext, At, catalog
<1>2. CASE rows[Head(r.todo)].archived
    <2>1. request' = [request EXCEPT ![a] = Idle]
        BY <1>2 DEF CheckNext, Advance
    <2> QED BY <1>1, <2>1, IdleRespects, QuietSeal
<1>3. CASE ~rows[Head(r.todo)].archived
    <2>1. request' = [request EXCEPT ![a] = q]
        BY <1>3 DEF CheckNext, Advance
    <2>2. r.todo[1] \notin sealed
        <3>1. Head(r.todo) \notin sealed
            BY <1>3 DEF SealInv
        <3>2. Head(r.todo) = r.todo[1]
            BY <1>1
        <3> QED BY <3>1, <3>2
    <2>3. /\ q.step = IF Len(r.todo) = 1 THEN "store_change" ELSE "check"
          /\ q.todo = Tail(r.todo) /\ q.for = r.for /\ q.sealed = r.sealed
        BY <1>1 DEF Requests
    <2> HIDE DEF q, r
    <2>4. /\ Len(r.todo) \in Nat \ {0} /\ Len(Tail(r.todo)) = Len(r.todo) - 1
          /\ \A i \in 1..Len(r.todo) - 1 : Tail(r.todo)[i] = r.todo[i + 1]
        BY <1>1, EmptySeq
    <2>5. ASSUME NEW x \in r.for \cap r.sealed
          PROVE \E i \in 1..Len(r.todo) - 1 : Tail(r.todo)[i] = x
        <3>1. PICK j \in 1..Len(r.todo) : r.todo[j] = x
            BY <1>1 DEF Respects
        <3>2. x \in sealed
            BY <1>1 DEF Respects
        <3>3. j # 1
            BY <2>2, <3>1, <3>2
        <3>4. j - 1 \in 1..Len(r.todo) - 1 /\ Tail(r.todo)[j - 1] = r.todo[j]
            BY <2>4, <3>1, <3>3
        <3> QED BY <3>1, <3>4
    <2>6. Respects(q)
        <3>1. CASE Len(r.todo) = 1
            <4>1. r.for \cap r.sealed = {}
                BY <2>5, <3>1
            <4> QED BY <1>1, <2>3, <3>1, <4>1 DEF Respects
        <3>2. CASE Len(r.todo) # 1
            BY <1>1, <2>3, <2>4, <2>5, <3>2 DEF Respects
        <3> QED BY <3>1, <3>2
    <2> QED BY <1>1, <2>1, <2>6, QuietSeal
<1> QED BY <1>2, <1>3

LEMMA LeaveSeal ==
    ASSUME TypeInv, SealInv, NEW a \in Actors,
           StoreChange(a) \/ Audit(a) \/ Status(a) \/ Publish(a) \/ Abandon(a)
    PROVE SealInv'
<1> DEFINE r == request[a]
<1>1. r \in Requests /\ Respects(r)
    BY DEF TypeInv, LocalInv, SealInv
<1>2. PICK q : /\ request' = [request EXCEPT ![a] = q]
               /\ \/ q = Idle \/ q = [Idle EXCEPT !.step = "audit", !.id = r.id]
                  \/ q = [r EXCEPT !.step = "status"] \/ q = [r EXCEPT !.step = "publish"]
    BY DEF StoreChange, Audit, Status, Publish, Abandon, Leave, Advance
<1>i. Idle \in Requests /\ Idle.step = "idle" /\ Idle.sealed = {}
    BY IdleSound DEF Sound, Idle
<1>3. q.step \in {"idle", "audit", "status", "publish"} /\ q.sealed \subseteq sealed
    BY <1>1, <1>2, <1>i DEF Requests, Respects
<1>4. UNCHANGED <<rows, sealed>>
    BY DEF StoreChange, Audit, Status, Publish, Abandon, Leave, catalog
<1>5. Respects(q)
    BY <1>3, CarelessRespects
<1> QED BY <1>2, <1>4, <1>5, QuietSeal

LEMMA NextSeal == TypeInv /\ SealInv /\ [Next]_vars => SealInv'
<1> SUFFICES ASSUME TypeInv, SealInv, [Next]_vars PROVE SealInv'
    OBVIOUS
<1>1. ASSUME NEW a \in Actors, Create(a) PROVE SealInv'
    BY <1>1, BeginCreateSeal, InsertSeal DEF Create
<1>2. ASSUME NEW a \in Actors, Update(a) PROVE SealInv'
    <2>1. Store(a) \/ \E id \in Ids, wish \in Wishes : BeginUpdate(a, id, wish)
        BY <1>2 DEF Update, UpdateProject, UpdateTeam, UpdateService, UpdateEnvironment
    <2> QED BY <2>1, StoreSeal, BeginUpdateSeal
<1>3. ASSUME NEW a \in Actors, Change(a) PROVE SealInv'
    BY <1>3, CreateChangeSetSeal, CheckSeal, LeaveSeal DEF Change
<1>4. CASE UNCHANGED vars
    BY <1>4 DEF vars, catalog, SealInv, Respects
<1> QED BY <1>1, <1>2, <1>3, <1>4, LeaveSeal DEF Next

\* A row archived while no other update of it was on its way stays archived until an
\* update asks for it to be active, and CreateChangeSet stores none for it whose request
\* began after that; the change sets that webhooks make (scm.go:282) are outside.
THEOREM SealedRowsStayArchived == Spec => []ArchiveHolds
<1>1. Init => SealInv
    <2> SUFFICES ASSUME Init PROVE SealInv
        OBVIOUS
    <2>1. \A a \in Actors : Respects(request[a])
        BY IdleRespects DEF Init
    <2> QED BY <2>1 DEF Init, SealInv
<1>2. SealInv => ArchiveHolds
    BY DEF SealInv, Respects, ArchiveHolds, At
<1> QED BY <1>1, <1>2, InitTypes, NextTypes, NextSeal, PTL DEF Spec
----------------------------------------------------------------------------
(* The trail. A write is counted by how far it was announced: a request is *)
(* ahead of each counter it has still to raise.                            *)

Trails == [writes : Nat, audits : Nat, statuses : Nat, events : Nat, cut : Nat]

Tellers(step, k) == {b \in Actors : request[b].step = step /\ request[b].id = k}

N(step, k) == Cardinality(Tellers(step, k))

Counted(t, audit, status, publish) ==
    /\ t.audits + audit <= t.writes
    /\ t.statuses + status <= t.audits
    /\ t.events + publish <= t.statuses
    /\ t.writes = t.events + t.cut + audit + status + publish

CountInv ==
    /\ trail \in [Ids \cup Changes -> Trails]
    /\ \A k \in Ids \cup Changes :
          Counted(trail[k], N("audit", k), N("status", k), N("publish", k))

\* One request took a step; what the others announce is the same.
Moves(a, r) ==
    \A b \in Actors :
        IF b = a THEN request'[b] = r
        ELSE request'[b].step = request[b].step /\ request'[b].id = request[b].id

In(r, step, k) == IF r.step = step /\ r.id = k THEN 1 ELSE 0

LEMMA Counting ==
    ASSUME NEW a \in Actors, NEW r, Moves(a, r), NEW step, NEW k
    PROVE /\ N(step, k) \in Nat /\ N(step, k)' \in Nat
          /\ N(step, k)' = (N(step, k) + In(r, step, k)) - In(request[a], step, k)
          /\ In(request[a], step, k) <= N(step, k)
<1> DEFINE T == Tellers(step, k)
           U == {b \in Actors : request'[b].step = step /\ request'[b].id = k}
<1>1. T \subseteq Actors /\ U \subseteq Actors /\ IsFiniteSet(Actors)
    BY CatalogAssumption DEF Tellers
<1>2. IsFiniteSet(T) /\ IsFiniteSet(U) /\ Cardinality(T) \in Nat /\ Cardinality(U) \in Nat
    BY <1>1, FS_Subset, FS_CardinalityType
<1>3. N(step, k) = Cardinality(T) /\ N(step, k)' = Cardinality(U)
    BY DEF N, Tellers
<1>4. a \in T <=> request[a].step = step /\ request[a].id = k
    BY DEF Tellers
<1>5. U = IF r.step = step /\ r.id = k THEN T \cup {a} ELSE T \ {a}
    BY DEF Moves, Tellers
<1> HIDE DEF T, U
<1>6. /\ Cardinality(T \cup {a}) = IF a \in T THEN Cardinality(T) ELSE Cardinality(T) + 1
      /\ Cardinality(T \ {a}) = IF a \in T THEN Cardinality(T) - 1 ELSE Cardinality(T)
    BY <1>2, FS_AddElement, FS_RemoveElement
<1>7. a \in T => Cardinality(T) # 0
    BY <1>2, FS_EmptySet
<1> QED BY <1>2, <1>3, <1>4, <1>5, <1>6, <1>7 DEF In

Telling3 == {"audit", "status", "publish"}

\* What the effects of a step on the counters and on the request amount to.
LEMMA CountSteps ==
    ASSUME CountInv, NEW a \in Actors, NEW r, Moves(a, r),
           NEW k \in Ids \cup Changes, NEW t \in Trails, trail' = [trail EXCEPT ![k] = t],
           Counted(t, (N("audit", k) + In(r, "audit", k)) - In(request[a], "audit", k),
                      (N("status", k) + In(r, "status", k)) - In(request[a], "status", k),
                      (N("publish", k) + In(r, "publish", k)) - In(request[a], "publish", k)),
           r.step \in Telling3 => r.id = k,
           request[a].step \in Telling3 => request[a].id = k
    PROVE CountInv'
<1>1. trail' \in [Ids \cup Changes -> Trails]
    BY DEF CountInv
<1> SUFFICES ASSUME NEW j \in Ids \cup Changes
             PROVE Counted(trail'[j], N("audit", j)', N("status", j)', N("publish", j)')
    BY <1>1 DEF CountInv, Counted
<1>2. CASE j = k
    BY <1>2, Counting DEF CountInv
<1>3. CASE j # k
    <2>1. trail'[j] = trail[j]
        BY <1>3 DEF CountInv
    <2>2. \A step \in Telling3 : In(r, step, j) = 0 /\ In(request[a], step, j) = 0
        BY <1>3 DEF In, Telling3
    <2>3. \A step \in Telling3 : N(step, j)' = N(step, j)
        BY <2>2, Counting
    <2>4. /\ N("audit", j)' = N("audit", j) /\ N("status", j)' = N("status", j)
          /\ N("publish", j)' = N("publish", j)
        BY <2>3 DEF Telling3
    <2> QED BY <2>1, <2>4 DEF CountInv
<1> QED BY <1>2, <1>3
LEMMA QuietCount ==
    ASSUME CountInv, NEW a \in Actors, NEW r, Moves(a, r), UNCHANGED trail,
           r.step \notin Telling3, request[a].step \notin Telling3
    PROVE CountInv'
<1>1. ASSUME NEW k, NEW step \in Telling3 PROVE N(step, k)' = N(step, k)
    <2>1. In(r, step, k) = 0 /\ In(request[a], step, k) = 0
        BY DEF In
    <2> QED BY <2>1, Counting
<1>2. \A k : /\ N("audit", k)' = N("audit", k) /\ N("status", k)' = N("status", k)
             /\ N("publish", k)' = N("publish", k)
    BY <1>1 DEF Telling3
<1> QED BY <1>2 DEF CountInv, Counted

\* A write is stored and is to be announced.
LEMMA WriteCount ==
    ASSUME CountInv, NEW a \in Actors, NEW r, Moves(a, r), NEW k \in Ids \cup Changes,
           Written(k), r.step = "audit", r.id = k, request[a].step \notin Telling3
    PROVE CountInv'
<1> DEFINE t == [trail[k] EXCEPT !.writes = @ + 1]
<1>1. t \in Trails /\ trail' = [trail EXCEPT ![k] = t] /\ trail[k] \in Trails
    BY DEF CountInv, Written, Trails
<1>2. /\ In(r, "audit", k) = 1 /\ In(r, "status", k) = 0 /\ In(r, "publish", k) = 0
      /\ In(request[a], "audit", k) = 0 /\ In(request[a], "status", k) = 0
      /\ In(request[a], "publish", k) = 0
    BY DEF In, Telling3
<1>3. N("audit", k) \in Nat /\ N("status", k) \in Nat /\ N("publish", k) \in Nat
    BY Counting
<1>4. /\ t.writes = trail[k].writes + 1 /\ t.audits = trail[k].audits /\ t.cut = trail[k].cut
      /\ t.statuses = trail[k].statuses /\ t.events = trail[k].events
    BY <1>1 DEF Trails
<1> HIDE DEF t
<1>5. Counted(t, (N("audit", k) + In(r, "audit", k)) - In(request[a], "audit", k),
                 (N("status", k) + In(r, "status", k)) - In(request[a], "status", k),
                 (N("publish", k) + In(r, "publish", k)) - In(request[a], "publish", k))
    BY <1>1, <1>2, <1>3, <1>4 DEF CountInv, Counted, Trails
<1> QED BY <1>1, <1>5, CountSteps DEF Telling3

\* The next announcement, or none of those that are left.
LEMMA LeaveCount ==
    ASSUME TypeInv, CountInv, NEW a \in Actors, NEW r, Moves(a, r), Telling(a),
           NEW k, k = request[a].id, NEW t, trail' = [trail EXCEPT ![k] = t],
           \/ /\ request[a].step = "audit" /\ r.step = "status" /\ r.id = k
              /\ t = [trail[k] EXCEPT !.audits = @ + 1]
           \/ /\ request[a].step = "status" /\ r.step = "publish" /\ r.id = k
              /\ t = [trail[k] EXCEPT !.statuses = @ + 1]
           \/ /\ request[a].step = "publish" /\ r.step = "idle"
              /\ t = [trail[k] EXCEPT !.events = @ + 1]
           \/ r.step = "idle" /\ t = [trail[k] EXCEPT !.cut = @ + 1]
    PROVE CountInv'
<1>1. k \in Ids \cup Changes /\ request[a].step \in Telling3
    BY DEF TypeInv, LocalInv, Sound, Telling, Telling3
<1>2. trail[k] \in Trails
    BY <1>1 DEF CountInv
<1>3. t \in Trails
    BY <1>2 DEF Trails
<1>4. /\ N("audit", k) \in Nat /\ N("status", k) \in Nat /\ N("publish", k) \in Nat
      /\ Counted(trail[k], N("audit", k), N("status", k), N("publish", k))
      /\ In(request[a], "audit", k) <= N("audit", k)
      /\ In(request[a], "status", k) <= N("status", k)
      /\ In(request[a], "publish", k) <= N("publish", k)
    BY <1>1, Counting DEF CountInv
<1>5. Counted(t, (N("audit", k) + In(r, "audit", k)) - In(request[a], "audit", k),
                 (N("status", k) + In(r, "status", k)) - In(request[a], "status", k),
                 (N("publish", k) + In(r, "publish", k)) - In(request[a], "publish", k))
    <2> DEFINE old == request[a]
    <2>1. /\ In(old, "audit", k) = (IF old.step = "audit" THEN 1 ELSE 0)
          /\ In(old, "status", k) = (IF old.step = "status" THEN 1 ELSE 0)
          /\ In(old, "publish", k) = (IF old.step = "publish" THEN 1 ELSE 0)
        BY DEF In
    <2>2. /\ In(r, "audit", k) = 0
          /\ In(r, "status", k) = (IF r.step = "status" THEN 1 ELSE 0)
          /\ In(r, "publish", k) = (IF r.step = "publish" THEN 1 ELSE 0)
        BY DEF In
    <2>3. old.step \in Telling3
        BY <1>1
    <2> HIDE DEF old
    <2>4. CASE old.step = "audit" /\ r.step = "status" /\ t = [trail[k] EXCEPT !.audits = @ + 1]
        BY <1>2, <1>4, <2>1, <2>2, <2>4 DEF Counted, Trails, old
    <2>5. CASE old.step = "status" /\ r.step = "publish" /\ t = [trail[k] EXCEPT !.statuses = @ + 1]
        BY <1>2, <1>4, <2>1, <2>2, <2>5 DEF Counted, Trails, old
    <2>6. CASE old.step = "publish" /\ r.step = "idle" /\ t = [trail[k] EXCEPT !.events = @ + 1]
        BY <1>2, <1>4, <2>1, <2>2, <2>6 DEF Counted, Trails, old
    <2>7. CASE r.step = "idle" /\ t = [trail[k] EXCEPT !.cut = @ + 1]
        BY <1>2, <1>4, <2>1, <2>2, <2>3, <2>7 DEF Counted, Trails, Telling3, old
    <2> QED BY <2>4, <2>5, <2>6, <2>7 DEF old
<1> QED BY <1>1, <1>3, <1>5, CountSteps DEF Telling3

\* Every step of a request is one of these.
LEMMA RequestMoves ==
    ASSUME TypeInv, NEW a \in Actors, NEW r, request' = [request EXCEPT ![a] = r]
    PROVE Moves(a, r)
BY DEF TypeInv, LocalInv, Moves

\* A request that begins has written nothing yet.
LEMMA BeginCount ==
    ASSUME TypeInv, CountInv, NEW a \in Actors, NEW q, q.step \notin Telling3,
           request' = [request EXCEPT ![a] = q], At(a, "idle"), UNCHANGED trail
    PROVE CountInv'
<1>1. request[a].step \notin Telling3
    BY DEF At, Telling3
<1> HIDE DEF Telling3
<1> QED BY <1>1, RequestMoves, QuietCount

LEMMA BeginCreateCount ==
    ASSUME TypeInv, CountInv, NEW a \in Actors, NEW id, NEW row, BeginCreate(a, id, row)
    PROVE CountInv'
<1> DEFINE r == [Idle EXCEPT !.step = "insert", !.id = id, !.row = row]
           q == [r EXCEPT !.sealed = sealed]
<1>1. request' = [request EXCEPT ![a] = q] /\ UNCHANGED trail /\ At(a, "idle")
    BY DEF BeginCreate, Begin
<1>2. q.step \notin Telling3
    BY IdleSound DEF Sound, Requests, Telling3
<1> HIDE DEF q
<1> QED BY <1>1, <1>2, BeginCount

LEMMA BeginUpdateCount ==
    ASSUME TypeInv, CountInv, NEW a \in Actors, NEW id, NEW wish, BeginUpdate(a, id, wish)
    PROVE CountInv'
<1> DEFINE row == Wanted(rows[id], wish)
           r == [Idle EXCEPT !.step = "update", !.id = id, !.row = row, !.wish = wish.status]
           q == [r EXCEPT !.sealed = sealed]
<1>1. request' = [request EXCEPT ![a] = q] /\ UNCHANGED trail /\ At(a, "idle")
    BY DEF BeginUpdate, Begin
<1> HIDE DEF row
<1>2. q.step \notin Telling3
    BY IdleSound DEF Sound, Requests, Telling3
<1> HIDE DEF q
<1> QED BY <1>1, <1>2, BeginCount

LEMMA CreateChangeSetCount ==
    ASSUME TypeInv, CountInv, NEW a \in Actors, NEW c, NEW p, NEW s, NEW e,
           CreateChangeSet(a, c, p, s, e)
    PROVE CountInv'
<1> DEFINE needs == Needs(p, s, e)
           for == {needs[i] : i \in 1..4}
           r == [Idle EXCEPT !.step = "check", !.id = c, !.todo = needs, !.for = for]
           q == [r EXCEPT !.sealed = sealed]
<1>1. request' = [request EXCEPT ![a] = q] /\ UNCHANGED trail /\ At(a, "idle")
    BY DEF CreateChangeSet, Needs, Begin
<1> HIDE DEF needs, for
<1>2. q.step \notin Telling3
    BY IdleSound DEF Sound, Requests, Telling3
<1> HIDE DEF q
<1> QED BY <1>1, <1>2, BeginCount

LEMMA CreateCount ==
    ASSUME TypeInv, CountInv, NEW a \in Actors,
           Create(a) \/ Update(a) \/ Change(a),
           ~Insert(a), ~Store(a), ~CheckNext(a), ~StoreChange(a)
    PROVE CountInv'
<1>1. CASE Create(a)
    <2>1. PICK id, row : BeginCreate(a, id, row)
        BY <1>1 DEF Create, CreateProject, CreateTeam, CreateService, CreateEnvironment
    <2> QED BY <2>1, BeginCreateCount
<1>2. CASE Update(a)
    <2>1. PICK id, wish : BeginUpdate(a, id, wish)
        BY <1>2 DEF Update, UpdateProject, UpdateTeam, UpdateService, UpdateEnvironment
    <2> QED BY <2>1, BeginUpdateCount
<1>3. CASE Change(a)
    BY <1>3, CreateChangeSetCount DEF Change
<1> QED BY <1>1, <1>2, <1>3

LEMMA StoreCount ==
    ASSUME TypeInv, CountInv, NEW a \in Actors, Insert(a) \/ Store(a) \/ StoreChange(a)
    PROVE CountInv'
<1> DEFINE r == request[a]
           q == [Idle EXCEPT !.step = "audit", !.id = r.id]
<1>1. r.step \notin Telling3 /\ r.id \in Ids \cup Changes
    BY DEF Insert, Store, StoreChange, At, Telling3, TypeInv, LocalInv, Sound
<1>2. q.step = "audit" /\ q.id = r.id /\ Idle.step \notin Telling3
    BY IdleSound DEF Sound, Requests, Telling3
<1>3. \/ UNCHANGED trail /\ request' = [request EXCEPT ![a] = Idle]
      \/ Written(r.id) /\ Moves(a, q)
    <2>1. CASE Insert(a) \/ StoreChange(a)
        <3>1. \/ UNCHANGED trail /\ request' = [request EXCEPT ![a] = Idle]
              \/ Written(r.id) /\ request' = [request EXCEPT ![a] = q]
            BY <2>1 DEF Insert, StoreChange, Advance
        <3> HIDE DEF q
        <3> QED BY <3>1, RequestMoves
    <2>2. CASE Store(a)
        <3>1. \/ UNCHANGED trail /\ request' = [request EXCEPT ![a] = Idle]
              \/ /\ Written(r.id)
                 /\ \A b \in Actors : request'[b] = IF b = a THEN q
                        ELSE IF r.wish = "active" THEN [request[b] EXCEPT !.sealed = @ \ {r.id}]
                        ELSE request[b]
            BY <2>2 DEF Store, Advance
        <3>2. \A b \in Actors : request[b] \in Requests
            BY DEF TypeInv, LocalInv
        <3> HIDE DEF q
        <3> QED BY <3>1, <3>2 DEF Moves, Requests
    <2> QED BY <2>1, <2>2
<1> HIDE DEF q
<1> QED BY <1>1, <1>2, <1>3, RequestMoves, QuietCount, WriteCount

LEMMA TellCount ==
    ASSUME TypeInv, CountInv, NEW a \in Actors,
           CheckNext(a) \/ Audit(a) \/ Status(a) \/ Publish(a) \/ Abandon(a)
    PROVE CountInv'
<1> DEFINE r == request[a]
           k == request[a].id
<1>0. r \in Requests /\ Idle.step = "idle" /\ Idle.step \notin Telling3
    BY IdleSound DEF TypeInv, LocalInv, Telling3
<1>1. CASE CheckNext(a) \/ (Abandon(a) /\ ~Telling(a))
    <2>1. UNCHANGED trail /\ r.step \notin Telling3
        BY <1>1 DEF CheckNext, Abandon, Telling, At, Telling3
    <2>2. PICK q : /\ request' = [request EXCEPT ![a] = q]
                   /\ \/ q = Idle
                      \/ /\ r.step = "check"
                         /\ q = [r EXCEPT !.todo = Tail(@),
                                     !.step = IF Len(r.todo) = 1 THEN "store_change" ELSE @]
        BY <1>1 DEF CheckNext, Abandon, Advance, At
    <2>3. q.step \notin Telling3
        BY <1>0, <2>2 DEF Requests, Telling3
    <2> QED BY <2>1, <2>2, <2>3, RequestMoves, QuietCount
<1>2. CASE Audit(a)
    <2> DEFINE q == [r EXCEPT !.step = "status"]
               t == [trail[k] EXCEPT !.audits = @ + 1]
    <2>1. /\ trail' = [trail EXCEPT ![k] = t] /\ request' = [request EXCEPT ![a] = q]
          /\ r.step = "audit"
        BY <1>2 DEF Audit, Leave, Advance, At
    <2>2. q.step = "status" /\ q.id = k /\ Telling(a)
        BY <1>0, <2>1 DEF Requests, Telling
    <2> HIDE DEF q
    <2> QED BY <2>1, <2>2, RequestMoves, LeaveCount
<1>3. CASE Status(a)
    <2> DEFINE q == [r EXCEPT !.step = "publish"]
               t == [trail[k] EXCEPT !.statuses = @ + 1]
    <2>1. /\ trail' = [trail EXCEPT ![k] = t] /\ request' = [request EXCEPT ![a] = q]
          /\ r.step = "status"
        BY <1>3 DEF Status, Leave, Advance, At
    <2>2. q.step = "publish" /\ q.id = k /\ Telling(a)
        BY <1>0, <2>1 DEF Requests, Telling
    <2> HIDE DEF q
    <2> QED BY <2>1, <2>2, RequestMoves, LeaveCount
<1>4. CASE Publish(a)
    <2> DEFINE t == [trail[k] EXCEPT !.events = @ + 1]
    <2>1. /\ trail' = [trail EXCEPT ![k] = t] /\ request' = [request EXCEPT ![a] = Idle]
          /\ r.step = "publish" /\ Telling(a)
        BY <1>4 DEF Publish, Leave, Advance, At, Telling
    <2> QED BY <1>0, <2>1, RequestMoves, LeaveCount
<1>5. CASE Abandon(a) /\ Telling(a)
    <2> DEFINE t == [trail[k] EXCEPT !.cut = @ + 1]
    <2>1. trail' = [trail EXCEPT ![k] = t] /\ request' = [request EXCEPT ![a] = Idle]
        BY <1>5 DEF Abandon, Advance
    <2> QED BY <1>0, <1>5, <2>1, RequestMoves, LeaveCount
<1> QED BY <1>1, <1>2, <1>3, <1>4, <1>5

LEMMA NextCount == TypeInv /\ CountInv /\ [Next]_vars => CountInv'
<1> SUFFICES ASSUME TypeInv, CountInv, [Next]_vars PROVE CountInv'
    OBVIOUS
<1>1. CASE UNCHANGED vars
    BY <1>1 DEF vars, CountInv, N, Tellers
<1>2. ASSUME NEW a \in Actors, Create(a) \/ Update(a) \/ Change(a) PROVE CountInv'
    BY <1>2, CreateCount, StoreCount, TellCount
<1> QED BY <1>1, <1>2, TellCount DEF Next

LEMMA InitCount == Init => CountInv
<1> SUFFICES ASSUME Init PROVE CountInv
    OBVIOUS
<1>1. \A k : \A step \in Telling3 : Tellers(step, k) = {}
    BY IdleSound DEF Init, Tellers, Telling3
<1>2. \A k : N("audit", k) = 0 /\ N("status", k) = 0 /\ N("publish", k) = 0
    BY <1>1, FS_EmptySet DEF N, Telling3
<1> QED BY <1>2 DEF Init, CountInv, Counted, Trails, Silence

\* Whatever requests interleave and wherever they stop, subscribers never hear of a write
\* that history does not show, and a write nobody was told of is one whose request ended
\* early.
THEOREM WritesAreAccountedFor == Spec => []TrailFollowsWrites
<1>1. TypeInv /\ CountInv => TrailFollowsWrites
    <2> SUFFICES ASSUME TypeInv, CountInv, NEW k \in Ids \cup Changes
                 PROVE LET t == trail[k]
                           telling == {a \in Actors : request[a].id = k /\ Telling(a)}
                       IN /\ t.events <= t.statuses /\ t.statuses <= t.audits
                          /\ t.audits <= t.writes
                          /\ t.writes = t.events + t.cut + Cardinality(telling)
        BY DEF TrailFollowsWrites
    <2> DEFINE A == Tellers("audit", k)
               S == Tellers("status", k)
               P == Tellers("publish", k)
               telling == {a \in Actors : request[a].id = k /\ Telling(a)}
    <2>1. telling = (A \cup S) \cup P /\ A \cap S = {} /\ (A \cup S) \cap P = {}
        BY DEF Tellers, Telling
    <2>2. IsFiniteSet(A) /\ IsFiniteSet(S) /\ IsFiniteSet(P)
        BY CatalogAssumption, FS_Subset DEF Tellers
    <2> HIDE DEF A, S, P, telling
    <2>3. /\ Cardinality(A) \in Nat /\ Cardinality(S) \in Nat /\ Cardinality(P) \in Nat
          /\ Cardinality(telling) = (Cardinality(A) + Cardinality(S)) + Cardinality(P)
        <3> DEFINE AS == A \cup S
        <3>1. /\ IsFiniteSet(AS)
              /\ Cardinality(AS) = Cardinality(A) + Cardinality(S) - Cardinality(A \cap S)
            BY <2>2, FS_Union
        <3>2. Cardinality(A) \in Nat /\ Cardinality(S) \in Nat /\ Cardinality(P) \in Nat
            BY <2>2, FS_CardinalityType
        <3>3. Cardinality(A \cap S) = 0 /\ Cardinality(AS \cap P) = 0
            BY <2>1, FS_EmptySet
        <3>4. telling = AS \cup P
            BY <2>1
        <3> HIDE DEF AS
        <3>5. Cardinality(telling) = Cardinality(AS) + Cardinality(P) - Cardinality(AS \cap P)
            BY <2>2, <3>1, <3>4, FS_Union
        <3> QED BY <3>1, <3>2, <3>3, <3>5
    <2>4. Cardinality(A) = N("audit", k) /\ Cardinality(S) = N("status", k)
          /\ Cardinality(P) = N("publish", k)
        BY DEF N, A, S, P
    <2>5. trail[k] \in Trails /\ Counted(trail[k], Cardinality(A), Cardinality(S), Cardinality(P))
        BY <2>4 DEF CountInv
    <2>6. /\ trail[k].events <= trail[k].statuses /\ trail[k].statuses <= trail[k].audits
          /\ trail[k].audits <= trail[k].writes
          /\ trail[k].writes = trail[k].events + trail[k].cut + Cardinality(telling)
        BY <2>3, <2>5 DEF Counted, Trails
    <2> QED BY <2>6 DEF telling
<1> QED BY <1>1, InitCount, InitTypes, NextTypes, NextCount, PTL DEF Spec

=============================================================================
