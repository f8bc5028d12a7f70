--------------------------- MODULE DiscoveryProofs ---------------------------
(***************************************************************************)
(* Theorems about Discovery, for any catalog, any number of things to be   *)
(* found and of requests under way, and whatever operators ask for.        *)
(***************************************************************************)
EXTENDS Discovery, TLAPS

----------------------------------------------------------------------------
(* Types. A row fits when its owner is the team of its service and what it *)
(* belongs to is stored; a request is sound when every copy it holds fits. *)

Steps == {"idle", "scan", "write", "rewrite", "mark", "graph", "webhook", "decide"}

Copies == UNION {[S -> Row] : S \in SUBSET Things}

Requests ==
    [step : Steps, kind : (SUBSET Things) \cup {Null}, seen : SUBSET Things,
     todo : SUBSET Things, thing : Things \cup {Null}, row : Row \cup {Null},
     marks : Copies, done : Copies]

\* Its owner may still have to be inferred.
Formed(t, row) ==
    /\ row \in Row
    /\ t \in Repositories => row.repository = Null
    /\ row.repository # Null => rows[row.repository] # Null

Fitting(t, row) ==
    /\ Formed(t, row)
    /\ row.service # Null => row.owner = TeamOf[row.service]

Sound(r) ==
    /\ r \in Requests
    /\ r.step \in {"write", "rewrite", "decide"}
          => r.thing \in Things /\ Fitting(r.thing, r.row)
    /\ \A t \in DOMAIN r.marks : Fitting(t, r.marks[t])
    /\ \A t \in DOMAIN r.done : Fitting(t, r.done[t])
    /\ r.step = "webhook" => DOMAIN r.done # {}
    /\ r.step # "mark" => DOMAIN r.marks = {}

RowsFit == \A t \in Things : rows[t] # Null => Fitting(t, rows[t])

\* A team is related to a thing together with a service of that team.
EdgesFit(E) ==
    \A edge \in E : edge[1] \in Teams =>
        \E s \in Services : TeamOf[s] = edge[1] /\ <<s, edge[2]>> \in E

LocalInv ==
    /\ request \in [Actors -> Requests]
    /\ \A a \in Actors : Sound(request[a])
    /\ RowsFit

TypeInv == TypeOK /\ LocalInv

\* No row is ever deleted.
Lasting == \A t \in Things : rows[t] # Null => rows'[t] # Null

----------------------------------------------------------------------------
(* What the operators return                                               *)

LEMMA CopiesOf ==
    ASSUME NEW S \in SUBSET Things, NEW f \in [S -> Row]
    PROVE f \in Copies
BY DEF Copies

LEMMA CopyFacts ==
    ASSUME NEW f \in Copies
    PROVE /\ DOMAIN f \in SUBSET Things /\ f \in [DOMAIN f -> Row]
          /\ \A t \in DOMAIN f : t \in Things /\ f[t] \in Row
<1>1. PICK S \in SUBSET Things : f \in [S -> Row]
    BY DEF Copies
<1> QED BY <1>1

LEMMA NoCopies == << >> \in Copies /\ DOMAIN << >> = {}
<1>1. << >> \in [{} -> Row]
    OBVIOUS
<1> QED BY <1>1, CopiesOf

LEMMA Restricted ==
    ASSUME NEW f \in Copies, NEW t \in DOMAIN f,
           NEW g, g = Restrict(f, DOMAIN f \ {t})
    PROVE /\ g \in Copies /\ DOMAIN g \subseteq DOMAIN f
          /\ \A u \in DOMAIN g : g[u] = f[u]
<1>1. g \in [DOMAIN f \ {t} -> Row] /\ \A u \in DOMAIN g : u \in DOMAIN f /\ g[u] = f[u]
    BY CopyFacts DEF Restrict
<1>2. DOMAIN f \ {t} \in SUBSET Things
    BY CopyFacts
<1> QED BY <1>1, <1>2, CopiesOf

\* A copy of one more thing.
With(f, t, row) == [u \in DOMAIN f \cup {t} |-> IF u = t THEN row ELSE f[u]]

LEMMA Joined ==
    ASSUME NEW f \in Copies, NEW t \in Things, NEW row \in Row
    PROVE /\ With(f, t, row) \in Copies /\ t \in DOMAIN With(f, t, row)
          /\ \A u \in DOMAIN With(f, t, row) :
                \/ u \in DOMAIN f /\ With(f, t, row)[u] = f[u]
                \/ u = t /\ With(f, t, row)[u] = row
<1>1. /\ DOMAIN f \cup {t} \in SUBSET Things
      /\ With(f, t, row) \in [DOMAIN f \cup {t} -> Row]
    BY CopyFacts DEF With
<1>2. With(f, t, row) \in Copies
    BY <1>1, CopiesOf
<1>3. DOMAIN With(f, t, row) = DOMAIN f \cup {t}
    BY DEF With
<1>4. ASSUME NEW u \in DOMAIN f \cup {t}
      PROVE With(f, t, row)[u] = IF u = t THEN row ELSE f[u]
    BY DEF With
<1>5. ASSUME NEW u \in DOMAIN With(f, t, row)
      PROVE \/ u \in DOMAIN f /\ With(f, t, row)[u] = f[u]
            \/ u = t /\ With(f, t, row)[u] = row
    BY <1>3, <1>4
<1> QED BY <1>2, <1>3, <1>5

\* The owner is the team of the service, and nothing else changes.
LEMMA OwnedFits ==
    ASSUME TypeOK, NEW t \in Things, NEW row, Formed(t, row)
    PROVE /\ Fitting(t, Owned(row))
          /\ Owned(row).service = row.service /\ Owned(row).environment = row.environment
<1>1. OwningService(row) \in Services \cup {Null}
    BY DiscoveryValues DEF OwningService, Formed, TypeOK, Row, Things
<1>2. row.service # Null => OwningService(row) = row.service
    BY DEF OwningService
<1> DEFINE owner == IF OwningService(row) = Null THEN Null ELSE TeamOf[OwningService(row)]
<1>3. owner \in Teams \cup {Null}
    BY <1>1, DiscoveryAssumption
<1>4. row.service # Null => owner = TeamOf[row.service]
    BY <1>2
<1>5. Owned(row) = [row EXCEPT !.owner = owner]
    BY DEF Owned
<1> HIDE DEF owner
<1>6. /\ Owned(row) \in Row /\ Owned(row).service = row.service
      /\ Owned(row).environment = row.environment /\ Owned(row).repository = row.repository
      /\ Owned(row).owner = owner
    BY <1>3, <1>5 DEF Formed, Row
<1> QED BY <1>4, <1>6 DEF Formed, Fitting

LEMMA BlankFits == \A t \in Things : Fitting(t, Blank)
<1>1. Blank \in Row /\ Blank.repository = Null /\ Blank.service = Null
    BY DEF Blank, Row, Statuses
<1> QED BY <1>1 DEF Fitting, Formed

\* A later find keeps the service and the environment a row has.
Keeps(row, new) ==
    /\ row.service # Null => new.service = row.service
    /\ row.environment # Null => new.environment = row.environment

LEMMA LookedUpFits ==
    ASSUME TypeInv, NEW t \in Things
    PROVE /\ Fitting(t, Stored(t)) /\ (rows[t] # Null => Stored(t) = rows[t])
          /\ \A row \in LookedUp(t) : Fitting(t, row)
BY BlankFits DEF Fill, Stored, LookedUp, TypeInv, LocalInv, RowsFit

LEMMA FoundRepositoryFits ==
    ASSUME NEW t \in Repositories, NEW row, Fitting(t, row)
    PROVE Fitting(t, FoundRepository(row)) /\ Keeps(row, FoundRepository(row))
BY DEF FoundRepository, Fitting, Formed, Row, Statuses, Keeps

LEMMA FoundFits ==
    ASSUME TypeInv, NEW t \in Things, NEW row, Fitting(t, row), NEW hint \in Guesses(t)
    PROVE Fitting(t, Found(t, row, hint)) /\ Keeps(row, Found(t, row, hint))
<1>1. Fitting(t, row)
    OBVIOUS
<1>2. CASE t \in Repositories
    <2>1. Found(t, row, hint) = FoundRepository(row)
        BY <1>2, DiscoveryValues DEF Found, Resources
    <2> QED BY <1>1, <1>2, <2>1, FoundRepositoryFits
<1>3. CASE t \in Workloads
    <2> DEFINE s == Fill(row.service, hint.service)
               e == Fill(row.environment, hint.environment)
               p == IF s # Null /\ hint.service # Null THEN Home[hint.service]
                    ELSE IF e # Null /\ hint.environment # Null THEN Home[hint.environment]
                    ELSE Null
               status == IF s # Null /\ e # Null THEN "mapped" ELSE Unmapped(row.status)
               project == Fill(row.project, p)
               new == [row EXCEPT !.service = s, !.environment = e,
                                  !.project = project, !.status = status]
    <2>1. /\ hint.service \in Services \cup {Null}
          /\ hint.environment \in Environments \cup {Null}
        BY <1>3, DiscoveryAssumption, DiscoveryValues DEF Guesses, Resources, Hints
    <2>2. s \in Services \cup {Null} /\ e \in Environments \cup {Null}
        BY <1>1, <2>1 DEF Fill, Fitting, Formed, Row
    <2>3. p \in Projects \cup {Null}
        BY <2>1, DiscoveryAssumption
    <2>4. status \in Statuses
        BY <1>1 DEF Unmapped, Statuses, Fitting, Formed, Row
    <2>5. /\ row.service # Null => s = row.service
          /\ row.environment # Null => e = row.environment
          /\ project \in Projects \cup {Null}
        BY <1>1, <2>3 DEF Fill, Fitting, Formed, Row
    <2>6. Found(t, row, hint) = Owned(new)
        BY <1>3, DiscoveryValues DEF Found, FoundWorkload, Resources
    <2> HIDE DEF s, e, project, status
    <2>7. Keeps(row, new) /\ Formed(t, new)
        BY <1>1, <2>2, <2>4, <2>5 DEF Keeps, Fitting, Formed, Row
    <2> HIDE DEF new
    <2>8. Fitting(t, Owned(new)) /\ Keeps(row, Owned(new))
        BY <2>7, OwnedFits DEF Keeps, TypeInv
    <2> QED BY <1>1, <2>6, <2>8
<1>4. CASE t \in Targets
    <2> DEFINE s == Fill(row.service, hint.service)
               e == Fill(row.environment, hint.environment)
               p == IF row.service = Null /\ hint.service # Null THEN Home[hint.service]
                    ELSE row.project
               q == IF row.environment = Null /\ hint.environment # Null
                    THEN Fill(p, Home[hint.environment]) ELSE p
               status == IF s # Null \/ e # Null THEN "mapped" ELSE Unmapped(row.status)
               new == [row EXCEPT !.service = s, !.environment = e, !.project = q,
                                  !.status = status]
    <2>1. /\ hint.service \in Services \cup {Null}
          /\ hint.environment \in Environments \cup {Null}
        BY <1>4, DiscoveryValues DEF Guesses, Resources, Hints
    <2>2. s \in Services \cup {Null} /\ e \in Environments \cup {Null}
        BY <1>1, <2>1 DEF Fill, Fitting, Formed, Row
    <2>3. q \in Projects \cup {Null}
        BY <1>1, <2>1, DiscoveryAssumption DEF Fill, Fitting, Formed, Row
    <2>4. status \in Statuses
        BY <1>1 DEF Unmapped, Statuses, Fitting, Formed, Row
    <2>5. Keeps(row, new) /\ Formed(t, new)
        BY ZenonT(60), <1>1, <2>2, <2>3, <2>4 DEF Fill, Keeps, Fitting, Formed, Row
    <2>6. Found(t, row, hint) = Owned(new)
        BY <1>4, DiscoveryValues DEF Found, FoundTarget, Resources
    <2> HIDE DEF new
    <2>7. Fitting(t, Owned(new)) /\ Keeps(row, Owned(new))
        BY <2>5, OwnedFits DEF Keeps, TypeInv
    <2> QED BY <1>1, <2>6, <2>7
<1> QED BY <1>2, <1>3, <1>4 DEF Things, Resources
----------------------------------------------------------------------------
(* What one step does to the types                                         *)

LEMMA SameRows == UNCHANGED rows => Lasting
BY DEF Lasting

LEMMA FittingStays ==
    ASSUME Lasting, NEW t, NEW row, Fitting(t, row)
    PROVE Fitting(t, row)'
<1>1. row.repository # Null => row.repository \in Things
    BY DEF Fitting, Formed, Row, Things
<1>2. row.repository # Null => rows'[row.repository] # Null
    BY <1>1 DEF Lasting, Fitting, Formed
<1> QED BY <1>2 DEF Fitting, Formed

LEMMA SoundStays ==
    ASSUME Lasting, NEW r, Sound(r)
    PROVE Sound(r)'
<1>1. \A t \in DOMAIN r.marks : Fitting(t, r.marks[t])'
    <2> SUFFICES ASSUME NEW t \in DOMAIN r.marks PROVE Fitting(t, r.marks[t])'
        OBVIOUS
    <2> DEFINE row == r.marks[t]
    <2>1. Fitting(t, row)
        BY DEF Sound
    <2> HIDE DEF row
    <2>2. Fitting(t, row)'
        BY <2>1, FittingStays
    <2> QED BY <2>2 DEF row
<1>2. \A t \in DOMAIN r.done : Fitting(t, r.done[t])'
    <2> SUFFICES ASSUME NEW t \in DOMAIN r.done PROVE Fitting(t, r.done[t])'
        OBVIOUS
    <2> DEFINE row == r.done[t]
    <2>1. Fitting(t, row)
        BY DEF Sound
    <2> HIDE DEF row
    <2>2. Fitting(t, row)'
        BY <2>1, FittingStays
    <2> QED BY <2>2 DEF row
<1>3. ASSUME Fitting(r.thing, r.row) PROVE Fitting(r.thing, r.row)'
    <2>1. \A t, row : Fitting(t, row) => Fitting(t, row)'
        BY FittingStays
    <2> QED BY <1>3, <2>1
<1> QED BY <1>1, <1>2, <1>3 DEF Sound

LEMMA RequestTypes ==
    ASSUME TypeInv, Lasting, NEW a \in Actors, NEW r, Sound(r),
           request' = [request EXCEPT ![a] = r]
    PROVE request' \in [Actors -> Requests] /\ \A b \in Actors : Sound(request[b])'
<1>1. request' \in [Actors -> Requests]
    BY DEF TypeInv, LocalInv, Sound
<1>2. ASSUME NEW b \in Actors PROVE Sound(request[b])'
    <2>1. Sound(request'[b])
        BY DEF TypeInv, LocalInv
    <2>2. ASSUME NEW q, q = request'[b] PROVE Sound(q)'
        BY <2>1, <2>2, SoundStays
    <2> QED BY <2>2
<1> QED BY <1>1, <1>2

\* A row is written: the others fit as they did.
LEMMA WriteTypes ==
    ASSUME TypeInv, NEW t \in Things, NEW row, Fitting(t, row), Write(row, t)
    PROVE /\ Lasting /\ RowsFit' /\ rows' \in [Things -> Row \cup {Null}]
          /\ \A u \in Things : rows'[u] # Null => Fitting(u, rows'[u])
<1>1. rows \in [Things -> Row \cup {Null}] /\ row \in Row /\ row # Null
    BY DiscoveryValues DEF TypeInv, TypeOK, Fitting, Formed
<1>2. Lasting /\ rows' \in [Things -> Row \cup {Null}]
    BY <1>1 DEF Write, Lasting
<1>3. \A u \in Things : rows'[u] # Null => Fitting(u, rows'[u])
    BY <1>1 DEF Write, TypeInv, LocalInv, RowsFit
<1>4. RowsFit'
    <2> SUFFICES ASSUME NEW u \in Things, rows'[u] # Null PROVE Fitting(u, rows[u])'
        BY DEF RowsFit
    <2>1. ASSUME NEW q, q = rows'[u] PROVE Fitting(u, q)'
        BY <1>2, <1>3, <2>1, FittingStays
    <2> QED BY <2>1
<1> QED BY <1>2, <1>3, <1>4

LEMMA SameRowsTypes ==
    ASSUME TypeInv, UNCHANGED rows
    PROVE /\ Lasting /\ RowsFit' /\ rows' \in [Things -> Row \cup {Null}]
          /\ \A u \in Things : rows'[u] # Null => Fitting(u, rows'[u])
<1>1. \A u \in Things : rows'[u] # Null => Fitting(u, rows'[u])
    BY DEF TypeInv, LocalInv, RowsFit
<1>2. RowsFit'
    <2> SUFFICES ASSUME NEW u \in Things, rows'[u] # Null PROVE Fitting(u, rows[u])'
        BY DEF RowsFit
    <2>1. ASSUME NEW q, q = rows'[u] PROVE Fitting(u, q)'
        BY <1>1, <2>1, FittingStays, SameRows
    <2> QED BY <2>1
<1> QED BY <1>1, <1>2, SameRows DEF TypeInv, TypeOK

LEMMA EdgesStay ==
    ASSUME TypeInv, NEW t \in Things, NEW row, Fitting(t, row)
    PROVE EdgesFit(edges) /\ EdgesFit(edges \cup EdgesOf(t, row))
<1>1. EdgesFit(edges)
    BY DEF TypeInv, TypeOK, EdgesFit
<1>2. /\ row.service \in Services \cup {Null} /\ row.repository \in Repositories \cup {Null}
      /\ row.service # Null => row.owner = TeamOf[row.service]
    BY DEF Fitting, Formed, Row
<1>3. ASSUME NEW edge \in EdgesOf(t, row), edge[1] \in Teams
      PROVE \E s \in Services : TeamOf[s] = edge[1] /\ <<s, edge[2]>> \in EdgesOf(t, row)
    <2>1. row.service # Null /\ edge = <<row.owner, t>>
        BY <1>2, <1>3, DiscoveryValues DEF EdgesOf
    <2>2. <<row.service, t>> \in EdgesOf(t, row)
        BY <2>1 DEF EdgesOf
    <2> QED BY <1>2, <2>1, <2>2
<1> QED BY <1>1, <1>3 DEF EdgesFit

\* The parts of the invariant that an action may disturb.
LEMMA TypesFrom ==
    ASSUME TypeInv,
           rows' \in [Things -> Row \cup {Null}], RowsFit',
           \A u \in Things : rows'[u] # Null => Fitting(u, rows'[u]),
           request' \in [Actors -> Requests], \A b \in Actors : Sound(request[b])',
           EdgesFit(edges'), \A c \in changes' : Null \notin {c.project, c.service, c.environment},
           budget' \in 0..MaxRequests
    PROVE TypeInv'
<1>1. \A t \in Things : rows'[t] # Null =>
          /\ t \in Repositories => rows'[t].repository = Null
          /\ rows'[t].service # Null => rows'[t].owner = TeamOf[rows'[t].service]
    BY DEF Fitting, Formed
<1>2. TypeOK'
    BY <1>1 DEF TypeOK, EdgesFit
<1> QED BY <1>2 DEF TypeInv, LocalInv

LEMMA IdleSound == Sound(Idle) /\ Idle.step = "idle" /\ DOMAIN Idle.marks = {}
<1> DEFINE none == << >>
<1>1. none \in Copies /\ DOMAIN none = {}
    BY NoCopies
<1>2. Idle = [step |-> "idle", kind |-> Null, seen |-> {}, todo |-> {}, thing |-> Null,
              row |-> Null, marks |-> none, done |-> none]
    BY DEF Idle
<1> HIDE DEF none
<1> QED BY <1>1, <1>2 DEF Sound, Requests, Steps

LEMMA BeginTypes ==
    ASSUME TypeInv, NEW a \in Actors, NEW r, Sound(r), Begin(a, r)
    PROVE TypeInv'
<1>1. request' = [request EXCEPT ![a] = r] /\ budget' \in 0..MaxRequests
    BY DiscoveryAssumption DEF Begin, TypeInv, TypeOK
<1>2. UNCHANGED <<rows, edges, changes>>
    BY DEF Begin
<1>3. EdgesFit(edges') /\ \A c \in changes' : Null \notin {c.project, c.service, c.environment}
    BY <1>2 DEF TypeInv, TypeOK, EdgesFit
<1> QED BY <1>1, <1>2, <1>3, SameRowsTypes, RequestTypes, TypesFrom

\* A step that only moves a request on.
LEMMA AdvanceTypes ==
    ASSUME TypeInv, NEW a \in Actors, NEW r, Sound(r), Advance(a, r),
           UNCHANGED <<rows, edges, changes>>
    PROVE TypeInv'
<1>1. request' = [request EXCEPT ![a] = r] /\ budget' \in 0..MaxRequests
    BY DEF Advance, TypeInv, TypeOK
<1>3. EdgesFit(edges') /\ \A c \in changes' : Null \notin {c.project, c.service, c.environment}
    BY DEF TypeInv, TypeOK, EdgesFit
<1> QED BY <1>1, <1>3, SameRowsTypes, RequestTypes, TypesFrom

LEMMA InitTypes == Init => TypeInv
<1> SUFFICES ASSUME Init PROVE TypeInv
    OBVIOUS
<1>1. request \in [Actors -> Requests] /\ \A a \in Actors : Sound(request[a])
    BY IdleSound DEF Init, Sound
<1>2. TypeOK /\ RowsFit
    BY DiscoveryAssumption DEF Init, TypeOK, RowsFit
<1> QED BY <1>1, <1>2 DEF TypeInv, LocalInv
----------------------------------------------------------------------------
(* Syncs and webhooks                                                      *)

\* Handled keeps the copy that was written among those to be related.
LEMMA HandledSound ==
    ASSUME NEW r, Sound(r), r.step \in {"write", "rewrite", "decide"}, NEW new,
           new.step \in {"scan", "webhook", "graph"}, new = [Handled(r) EXCEPT !.step = new.step]
    PROVE Sound(new) /\ new.marks = r.marks
<1>1. r \in Requests /\ r.thing \in Things /\ Fitting(r.thing, r.row)
    BY DEF Sound
<1> DEFINE g == With(r.done, r.thing, r.row)
<1>2. r.done \in Copies /\ r.row \in Row
    BY <1>1 DEF Requests, Fitting, Formed
<1>3. /\ g \in Copies /\ r.thing \in DOMAIN g
      /\ \A u \in DOMAIN g : \/ u \in DOMAIN r.done /\ g[u] = r.done[u]
                             \/ u = r.thing /\ g[u] = r.row
    BY <1>1, <1>2, Joined
<1>4. \A t \in DOMAIN g : Fitting(t, g[t])
    BY <1>1, <1>3 DEF Sound
<1>5. new = [r EXCEPT !.step = new.step, !.thing = Null, !.row = Null, !.done = g]
    BY <1>1 DEF Handled, Requests, With
<1> HIDE DEF g
<1>6. new \in Requests /\ new.done = g /\ new.marks = r.marks
    BY <1>1, <1>3, <1>5 DEF Requests, Steps
<1>7. \A t \in DOMAIN new.marks : Fitting(t, new.marks[t])
    BY <1>6 DEF Sound
<1>8. DOMAIN new.done # {} /\ DOMAIN new.marks = {}
    BY <1>3, <1>6 DEF Sound
<1> QED BY <1>4, <1>6, <1>7, <1>8 DEF Sound

LEMMA SyncTypes ==
    ASSUME TypeInv, NEW a \in Actors, NEW kind \in {Repositories, Workloads, Targets},
           NEW seen \in SUBSET kind, Sync(a, kind, seen)
    PROVE TypeInv'
<1> DEFINE r == [Idle EXCEPT !.step = "scan", !.kind = kind, !.seen = seen, !.todo = seen]
<1>1. kind \in SUBSET Things
    BY DEF Things, Resources
<1>2. Sound(r)
    <2>1. Idle \in Requests /\ Sound(Idle) /\ DOMAIN Idle.marks = {}
        BY IdleSound DEF Sound
    <2>2. r \in Requests /\ r.step = "scan" /\ r.marks = Idle.marks /\ r.done = Idle.done
        BY <1>1, <2>1 DEF Requests, Steps
    <2> HIDE DEF r
    <2> QED BY <2>1, <2>2 DEF Sound
<1>3. Begin(a, r)
    BY DEF Sync
<1> HIDE DEF r
<1> QED BY <1>2, <1>3, BeginTypes

LEMMA WebhookTypes ==
    ASSUME TypeInv, NEW a \in Actors, NEW t \in Repositories, Webhook(a, t)
    PROVE TypeInv'
<1> DEFINE row == FoundRepository(Stored(t))
           r == [Idle EXCEPT !.step = "write", !.kind = {}, !.thing = t, !.row = row]
<1>1. t \in Things /\ Fitting(t, row) /\ row \in Row
    BY LookedUpFits, FoundRepositoryFits DEF Things, Fitting, Formed
<1>2. Begin(a, r)
    BY DEF Webhook
<1> HIDE DEF row
<1>3. Sound(r)
    <2>1. Idle \in Requests /\ Sound(Idle) /\ DOMAIN Idle.marks = {}
        BY IdleSound DEF Sound
    <2>2. /\ r \in Requests /\ r.step = "write" /\ r.thing = t /\ r.row = row
          /\ r.marks = Idle.marks /\ r.done = Idle.done
        BY <1>1, <2>1 DEF Requests, Steps
    <2> HIDE DEF r
    <2> QED BY <1>1, <2>1, <2>2 DEF Sound
<1> HIDE DEF r
<1> QED BY <1>2, <1>3, BeginTypes

LEMMA ScanTypes ==
    ASSUME TypeInv, NEW a \in Actors, Scan(a) \/ EndScan(a) \/ Abandon(a)
    PROVE TypeInv'
<1> DEFINE r == request[a]
<1>0. r \in Requests /\ Sound(r)
    BY DEF TypeInv, LocalInv
<1>1. CASE Scan(a)
    <2>1. PICK t \in r.todo : \E old \in LookedUp(t), hint \in Guesses(t) :
             Advance(a, [r EXCEPT !.step = "write", !.thing = t, !.row = Found(t, old, hint),
                                  !.todo = @ \ {t}])
        BY <1>1 DEF Scan
    <2>p. PICK old \in LookedUp(t), hint \in Guesses(t) :
             Advance(a, [r EXCEPT !.step = "write", !.thing = t, !.row = Found(t, old, hint),
                                  !.todo = @ \ {t}])
        BY <2>1
    <2> DEFINE row == Found(t, old, hint)
               q == [r EXCEPT !.step = "write", !.thing = t, !.row = row, !.todo = @ \ {t}]
    <2>2. t \in Things /\ Fitting(t, row) /\ row \in Row
        BY <1>0, LookedUpFits, FoundFits DEF Requests, Fitting, Formed
    <2>3. Advance(a, q) /\ UNCHANGED <<rows, edges, changes>> /\ r.step = "scan"
        BY <1>1, <2>p DEF Scan, At
    <2> HIDE DEF r, row
    <2>4. /\ q \in Requests /\ q.step = "write" /\ q.thing = t /\ q.row = row
          /\ q.marks = r.marks /\ q.done = r.done
        BY <1>0, <2>2 DEF Requests, Steps
    <2> HIDE DEF q
    <2>5. Sound(q)
        BY <1>0, <2>2, <2>3, <2>4 DEF Sound
    <2> QED BY <2>3, <2>5, AdvanceTypes
<1>2. CASE EndScan(a)
    <2>0. PICK missing \in Missing(r) :
             Advance(a, [r EXCEPT !.step = "mark", !.marks = [t \in missing |-> rows[t]]])
        BY <1>2 DEF EndScan
    <2> DEFINE m == [t \in missing |-> rows[t]]
               q == [r EXCEPT !.step = "mark", !.marks = m]
    <2>1. Advance(a, q) /\ UNCHANGED <<rows, edges, changes>> /\ r.step = "scan"
        BY <1>2, <2>0 DEF EndScan, At
    <2>2. \A t \in missing : t \in Things /\ rows[t] \in Row /\ Fitting(t, rows[t])
        BY DEF Missing, Unseen, TypeInv, TypeOK, LocalInv, RowsFit, Things
    <2>3. m \in Copies /\ DOMAIN m = missing
        BY <2>2, CopiesOf
    <2>4. \A t \in DOMAIN m : Fitting(t, m[t])
        BY <2>2
    <2> HIDE DEF r, m
    <2>5. q \in Requests /\ q.step = "mark" /\ q.marks = m /\ q.done = r.done
        BY <1>0, <2>3 DEF Requests, Steps
    <2> HIDE DEF q
    <2>6. Sound(q)
        BY <1>0, <2>4, <2>5 DEF Sound
    <2> QED BY <2>1, <2>6, AdvanceTypes
<1>3. CASE Abandon(a)
    BY <1>3, IdleSound, AdvanceTypes DEF Abandon
<1> QED BY <1>1, <1>2, <1>3

LEMMA StoreTypes ==
    ASSUME TypeInv, NEW a \in Actors, Store(a) \/ RefreshOwnership(a)
    PROVE TypeInv'
<1>0. request[a] \in Requests /\ Sound(request[a])
    BY DEF TypeInv, LocalInv
<1>1. EdgesFit(edges') /\ \A c \in changes' : Null \notin {c.project, c.service, c.environment}
    BY DEF Store, RefreshOwnership, TypeInv, TypeOK, EdgesFit
<1>2. CASE Store(a)
    <2> DEFINE r == request[a]
               q == IF r.kind = {} THEN [Handled(r) EXCEPT !.step = "webhook"]
                    ELSE IF r.thing \in Repositories THEN [r EXCEPT !.step = "rewrite"]
                    ELSE Handled(r)
    <2>1. r.step = "write" /\ Write(r.row, r.thing) /\ Advance(a, q)
        BY <1>2 DEF Store, At
    <2>2. r.thing \in Things /\ Fitting(r.thing, r.row)
        BY <1>0, <2>1 DEF Sound
    <2>3. Sound([Handled(r) EXCEPT !.step = "webhook"])
        <3> DEFINE new == [Handled(r) EXCEPT !.step = "webhook"]
        <3>1. new.step = "webhook"
            BY <1>0 DEF Handled, Requests
        <3>2. new = [Handled(r) EXCEPT !.step = new.step]
            BY <3>1
        <3> HIDE DEF new
        <3>3. Sound(new)
            BY <1>0, <2>1, <3>1, <3>2, HandledSound
        <3> QED BY <3>3 DEF new
    <2>4. Sound(Handled(r))
        <3> DEFINE new == Handled(r)
        <3>1. new.step = "scan" /\ new = [Handled(r) EXCEPT !.step = new.step]
            BY <1>0 DEF Handled, Requests
        <3> QED BY <1>0, <2>1, <3>1, HandledSound
    <2>5. Sound([r EXCEPT !.step = "rewrite"])
        <3> DEFINE new == [r EXCEPT !.step = "rewrite"]
        <3>1. /\ new \in Requests /\ new.step = "rewrite" /\ new.thing = r.thing
              /\ new.row = r.row /\ new.marks = r.marks /\ new.done = r.done
            BY <1>0 DEF Requests, Steps
        <3> HIDE DEF new, r
        <3>2. Sound(new)
            BY <1>0, <2>1, <2>2, <3>1 DEF Sound, r
        <3> QED BY <3>2 DEF new
    <2>6. Sound(q)
        BY <2>3, <2>4, <2>5
    <2>7. request' = [request EXCEPT ![a] = q] /\ budget' \in 0..MaxRequests
        BY <2>1 DEF Advance, TypeInv, TypeOK
    <2> HIDE DEF q
    <2> QED BY <1>1, <2>1, <2>2, <2>6, <2>7, WriteTypes, RequestTypes, TypesFrom
<1>3. CASE RefreshOwnership(a)
    <2> DEFINE row == Owned(request[a].row)
               r == [request[a] EXCEPT !.row = row]
               q == Handled(r)
    <2>1. request[a].step = "rewrite" /\ Write(r.row, r.thing) /\ Advance(a, q)
        BY <1>3 DEF RefreshOwnership, At
    <2>2. /\ request[a].thing \in Things
          /\ Fitting(request[a].thing, row) /\ row \in Row
        BY <1>0, <2>1, OwnedFits DEF Sound, Fitting, Formed, TypeInv
    <2> HIDE DEF row
    <2>3. /\ r \in Requests /\ r.step = "rewrite" /\ r.thing = request[a].thing
          /\ r.row = row /\ r.marks = request[a].marks /\ r.done = request[a].done
        BY <1>0, <2>1, <2>2 DEF Requests, Steps
    <2> HIDE DEF r
    <2>4. Sound(r)
        BY <1>0, <2>1, <2>2, <2>3 DEF Sound
    <2>5. q.step = "scan" /\ q = [Handled(r) EXCEPT !.step = q.step]
        BY <2>3 DEF Handled, Requests
    <2>6. Sound(q)
        BY <2>3, <2>4, <2>5, HandledSound
    <2>7. request' = [request EXCEPT ![a] = q] /\ budget' \in 0..MaxRequests
        BY <2>1 DEF Advance, TypeInv, TypeOK
    <2> HIDE DEF q
    <2>8. r.thing \in Things /\ Fitting(r.thing, r.row)
        BY <2>2, <2>3
    <2> QED BY <1>1, <2>1, <2>8, <2>6, <2>7, WriteTypes, RequestTypes, TypesFrom
<1> QED BY <1>2, <1>3
LEMMA MarkTypes ==
    ASSUME TypeInv, NEW a \in Actors, MarkMissing(a)
    PROVE TypeInv'
<1> DEFINE r == request[a]
<1>0. r \in Requests /\ Sound(r) /\ r.step = "mark" /\ r.marks \in Copies
    BY DEF TypeInv, LocalInv, MarkMissing, At, Requests
<1>1. EdgesFit(edges') /\ \A c \in changes' : Null \notin {c.project, c.service, c.environment}
    BY DEF MarkMissing, TypeInv, TypeOK, EdgesFit
<1>2. CASE r.marks = << >>
    <2> DEFINE q == [r EXCEPT !.step = "graph"]
    <2>1. Advance(a, q) /\ UNCHANGED <<rows, edges, changes>>
        BY <1>2 DEF MarkMissing
    <2> HIDE DEF r
    <2>2. q \in Requests /\ q.step = "graph" /\ q.marks = r.marks /\ q.done = r.done
        BY <1>0 DEF Requests, Steps
    <2>3. DOMAIN q.marks = {}
        BY <1>2, <2>2, NoCopies
    <2> HIDE DEF q
    <2>4. Sound(q)
        BY <1>0, <2>2, <2>3 DEF Sound
    <2> QED BY <2>1, <2>4, AdvanceTypes
<1>3. CASE r.marks # << >>
    <2>1. PICK t \in DOMAIN r.marks :
             /\ Write([r.marks[t] EXCEPT !.status = "missing"], t)
             /\ Advance(a, [r EXCEPT !.marks = Restrict(@, DOMAIN @ \ {t})])
        BY <1>3 DEF MarkMissing
    <2> DEFINE row == [r.marks[t] EXCEPT !.status = "missing"]
               m == Restrict(r.marks, DOMAIN r.marks \ {t})
               q == [r EXCEPT !.marks = m]
    <2>2. Write(row, t) /\ Advance(a, q)
        BY <1>0, <2>1 DEF Requests
    <2>3. t \in Things /\ Fitting(t, r.marks[t])
        BY <1>0, CopyFacts DEF Sound
    <2>4. Fitting(t, row)
        BY <2>3 DEF Fitting, Formed, Row, Statuses
    <2>5. m \in Copies /\ DOMAIN m \subseteq DOMAIN r.marks /\ \A u \in DOMAIN m : m[u] = r.marks[u]
        BY <1>0, Restricted
    <2>6. request' = [request EXCEPT ![a] = q] /\ budget' \in 0..MaxRequests
        BY <2>2 DEF Advance, TypeInv, TypeOK
    <2> HIDE DEF r, m, row
    <2>7. q \in Requests /\ q.step = "mark" /\ q.marks = m /\ q.done = r.done
        BY <1>0, <2>5 DEF Requests
    <2> HIDE DEF q
    <2>8. Sound(q)
        BY <1>0, <2>5, <2>7 DEF Sound
    <2> QED BY <1>1, <2>2, <2>3, <2>4, <2>6, <2>8, WriteTypes, RequestTypes, TypesFrom
<1> QED BY <1>2, <1>3

LEMMA RelateTypes ==
    ASSUME TypeInv, NEW a \in Actors, Relate(a)
    PROVE TypeInv'
<1> DEFINE r == request[a]
<1>0. r \in Requests /\ Sound(r) /\ r.step = "graph" /\ r.done \in Copies
    BY DEF TypeInv, LocalInv, Relate, At, Requests
<1>1. CASE r.done = << >>
    <2>1. Advance(a, Idle) /\ UNCHANGED <<rows, edges, changes>>
        BY <1>1 DEF Relate
    <2> QED BY <2>1, IdleSound, AdvanceTypes
<1>2. CASE r.done # << >>
    <2>1. PICK t \in DOMAIN r.done :
             /\ edges' = edges \cup EdgesOf(t, r.done[t])
             /\ Advance(a, [r EXCEPT !.done = Restrict(@, DOMAIN @ \ {t})])
        BY <1>2 DEF Relate
    <2> DEFINE m == Restrict(r.done, DOMAIN r.done \ {t})
               q == [r EXCEPT !.done = m]
    <2>2. Advance(a, q) /\ UNCHANGED <<rows, changes>>
        BY <1>0, <2>1 DEF Requests, Relate
    <2>3. t \in Things /\ Fitting(t, r.done[t])
        BY <1>0, CopyFacts DEF Sound
    <2>4. EdgesFit(edges') /\ \A c \in changes' : Null \notin {c.project, c.service, c.environment}
        BY <2>1, <2>2, <2>3, EdgesStay DEF TypeInv, TypeOK
    <2>5. m \in Copies /\ DOMAIN m \subseteq DOMAIN r.done /\ \A u \in DOMAIN m : m[u] = r.done[u]
        BY <1>0, Restricted
    <2>6. request' = [request EXCEPT ![a] = q] /\ budget' \in 0..MaxRequests
        BY <2>2 DEF Advance, TypeInv, TypeOK
    <2> HIDE DEF r, m
    <2>7. q \in Requests /\ q.step = "graph" /\ q.marks = r.marks /\ q.done = m
        BY <1>0, <2>5 DEF Requests
    <2> HIDE DEF q
    <2>8. Sound(q)
        BY <1>0, <2>5, <2>7 DEF Sound
    <2> QED BY <2>2, <2>4, <2>6, <2>8, SameRowsTypes, RequestTypes, TypesFrom
<1> QED BY <1>1, <1>2

LEMMA TakeInTypes ==
    ASSUME TypeInv, NEW a \in Actors, TakeIn(a)
    PROVE TypeInv'
<1> DEFINE r == request[a]
           t == CHOOSE t \in DOMAIN r.done : TRUE
           row == r.done[t]
           scope == [project |-> row.project, service |-> row.service,
                     environment |-> row.environment]
<1>1. /\ edges' = edges \cup EdgesOf(t, row)
      /\ changes' = IF Null \in {scope.project, scope.service, scope.environment}
                    THEN changes ELSE changes \cup {scope}
      /\ Advance(a, Idle) /\ UNCHANGED rows
    BY DEF TakeIn
<1>2. Sound(r) /\ r.step = "webhook" /\ r.done \in Copies
    BY DEF TypeInv, LocalInv, TakeIn, At, Requests, Sound
<1>3. t \in DOMAIN r.done
    BY <1>2 DEF Sound
<1>4. t \in Things /\ Fitting(t, row)
    BY <1>2, <1>3, CopyFacts DEF Sound
<1> HIDE DEF t, row
<1>5. EdgesFit(edges')
    BY <1>1, <1>4, EdgesStay
<1>6. \A c \in changes' : Null \notin {c.project, c.service, c.environment}
    BY <1>1 DEF TypeInv, TypeOK
<1>7. request' = [request EXCEPT ![a] = Idle] /\ budget' \in 0..MaxRequests
    BY <1>1 DEF Advance, TypeInv, TypeOK
<1> QED BY <1>1, <1>5, <1>6, <1>7, IdleSound, SameRowsTypes, RequestTypes, TypesFrom

----------------------------------------------------------------------------
(* Operators and ingestions                                                *)

LEMMA MapRepositoryFits ==
    ASSUME TypeInv, NEW t \in Repositories, rows[t] # Null, NEW req \in RepositoryRequests
    PROVE Fitting(t, MapRepository(rows[t], req))
<1> DEFINE row == rows[t]
           s == Asked(row.service, req.service)
           e == Asked(row.environment, req.environment)
           p == IF Named(req.service) THEN Home[s] ELSE Asked(row.project, req.project)
           q == IF Named(req.environment) THEN Fill(p, Home[e]) ELSE p
           z == IF q = Null /\ s # Null THEN Home[s] ELSE q
           status == Asked(row.status, req.status)
           mark == IF status # "" THEN status
                   ELSE IF s # Null \/ e # Null THEN "mapped" ELSE "discovered"
           new == [row EXCEPT !.service = s, !.environment = e, !.project = z, !.status = mark]
<1>1. Fitting(t, row) /\ row \in Row /\ t \in Things
    BY DEF TypeInv, LocalInv, RowsFit, Things, Fitting, Formed
<1>2. req \in Wishes
    BY DiscoveryRequests
<1>3. MapRepository(row, req) = Owned(new)
    BY DEF MapRepository
<1> HIDE DEF row
<1>4. /\ s \in Services \cup {Null} /\ e \in Environments \cup {Null}
      /\ Named(req.service) => s \in Services
      /\ Named(req.environment) => e \in Environments
    BY <1>1, <1>2 DEF Asked, Named, Row, Wishes
<1>5. p \in Projects \cup {Null}
    BY <1>1, <1>2, <1>4, DiscoveryAssumption DEF Asked, Row, Wishes
<1>6. z \in Projects \cup {Null}
    BY <1>4, <1>5, DiscoveryAssumption DEF Fill
<1>7. mark \in Statuses
    BY <1>1, <1>2 DEF Asked, Row, Wishes, Statuses
<1> HIDE DEF s, e, z, mark
<1>8. Formed(t, new)
    BY <1>1, <1>4, <1>6, <1>7 DEF Fitting, Formed, Row
<1> HIDE DEF new
<1> QED BY <1>1, <1>3, <1>8, OwnedFits DEF row, TypeInv

LEMMA MapResourceFits ==
    ASSUME TypeInv, NEW t \in Resources, rows[t] # Null, NEW req \in ResourceRequests,
           Named(req.repository) => rows[req.repository] # Null
    PROVE Fitting(t, MapResource(rows[t], req))
<1> DEFINE row == rows[t]
           s == Asked(row.service, req.service)
           e == Asked(row.environment, req.environment)
           h == Asked(row.repository, req.repository)
           p == IF Named(req.service) THEN Home[s] ELSE Asked(row.project, req.project)
           q == IF Named(req.environment) THEN Fill(p, Home[e]) ELSE p
           z == IF Named(req.repository) THEN Fill(q, rows[h].project) ELSE q
           status == Asked(row.status, req.status)
           mark == IF status # "" THEN status
                   ELSE IF s # Null /\ e # Null THEN "mapped" ELSE "candidate"
           new == [row EXCEPT !.service = s, !.environment = e, !.repository = h,
                              !.project = z, !.status = mark]
<1>1. Fitting(t, row) /\ row \in Row /\ t \in Things /\ t \notin Repositories
    BY DiscoveryValues DEF TypeInv, LocalInv, RowsFit, Things, Fitting, Formed
<1>2. req \in Wishes
    BY DiscoveryRequests
<1>3. MapResource(row, req) = Owned(new)
    BY DEF MapResource
<1> HIDE DEF row
<1>4. /\ s \in Services \cup {Null} /\ e \in Environments \cup {Null}
      /\ Named(req.service) => s \in Services
      /\ Named(req.environment) => e \in Environments
    BY <1>1, <1>2 DEF Asked, Named, Row, Wishes
<1>5. p \in Projects \cup {Null}
    BY <1>1, <1>2, <1>4, DiscoveryAssumption DEF Asked, Row, Wishes
<1>6. q \in Projects \cup {Null}
    BY <1>4, <1>5, DiscoveryAssumption DEF Fill
<1>7. /\ h \in Repositories \cup {Null}
      /\ h # Null => rows[h] # Null
      /\ Named(req.repository) => h = req.repository /\ h \in Repositories
    <2>1. CASE req.repository = Keep
        BY <1>1, <2>1 DEF Asked, Named, Row, Fitting, Formed
    <2>2. CASE req.repository # Keep
        <3>1. h = req.repository /\ req.repository \in Repositories \cup {Null}
            BY <1>2, <2>2 DEF Asked, Wishes
        <3>2. req.repository # Null => Named(req.repository)
            BY <2>2 DEF Named
        <3> HIDE DEF h
        <3> QED BY <3>1, <3>2 DEF Named
    <2> QED BY <2>1, <2>2
<1>8. Named(req.repository) => rows[h].project \in Projects \cup {Null}
    <2> SUFFICES ASSUME Named(req.repository) PROVE rows[h] \in Row
        BY DEF Row
    <2> QED BY <1>7 DEF TypeInv, TypeOK, Things
<1>9. z \in Projects \cup {Null}
    BY <1>6, <1>8 DEF Fill
<1>10. mark \in Statuses
    BY <1>1, <1>2 DEF Asked, Row, Wishes, Statuses
<1> HIDE DEF s, e, h, z, mark
<1>11. new \in Row /\ new.repository = h
    BY <1>1, <1>4, <1>7, <1>9, <1>10 DEF Row
<1> HIDE DEF new
<1>12. Formed(t, new)
    BY <1>1, <1>7, <1>11 DEF Formed
<1> QED BY <1>1, <1>3, <1>12, OwnedFits DEF row, TypeInv
\* What a person or an ingesting client asks for is stored in the next step.
LEMMA DecideSound ==
    ASSUME NEW t \in Things, NEW row, Fitting(t, row), NEW kind \in {Null, Repositories},
           NEW r, r = [Idle EXCEPT !.step = "decide", !.kind = kind, !.thing = t, !.row = row]
    PROVE Sound(r) /\ r.step = "decide" /\ DOMAIN r.marks = {}
<1>1. Idle \in Requests /\ Sound(Idle) /\ DOMAIN Idle.marks = {}
    BY IdleSound DEF Sound
<1>2. row \in Row /\ kind \in (SUBSET Things) \cup {Null}
    BY DEF Fitting, Formed, Things
<1>3. /\ r \in Requests /\ r.step = "decide" /\ r.thing = t /\ r.row = row
      /\ r.marks = Idle.marks /\ r.done = Idle.done
    BY <1>1, <1>2 DEF Requests, Steps
<1> QED BY <1>1, <1>3 DEF Sound

LEMMA AskTypes ==
    ASSUME TypeInv, NEW a \in Actors,
           \/ \E t \in Repositories : \E req \in RepositoryRequests : UpdateRepository(a, t, req)
           \/ \E t \in Resources : \E req \in ResourceRequests :
                 UpdateDiscoveredResource(a, t, req)
           \/ \E t \in Repositories : \E req \in Ingestions : IngestIntegrationGraph(a, t, req)
    PROVE TypeInv' /\ \E r : Begin(a, r) /\ r.step = "decide" /\ DOMAIN r.marks = {}
<1>0. Idle.kind = Null /\ Idle \in Requests
    BY IdleSound DEF Idle, Sound
<1>1. ASSUME NEW t \in Repositories, NEW req \in RepositoryRequests,
             UpdateRepository(a, t, req)
      PROVE TypeInv' /\ \E r : Begin(a, r) /\ r.step = "decide" /\ DOMAIN r.marks = {}
    <2> DEFINE row == MapRepository(rows[t], req)
               r == [Idle EXCEPT !.step = "decide", !.thing = t, !.row = row]
    <2>1. Fitting(t, row) /\ t \in Things
        BY <1>1, MapRepositoryFits DEF UpdateRepository, Things
    <2>2. Begin(a, r)
        BY <1>1 DEF UpdateRepository
    <2> HIDE DEF row
    <2>3. r = [Idle EXCEPT !.step = "decide", !.kind = Null, !.thing = t, !.row = row]
        BY <1>0 DEF Requests
    <2> HIDE DEF r
    <2>4. Sound(r) /\ r.step = "decide" /\ DOMAIN r.marks = {}
        BY <2>1, <2>3, DecideSound
    <2> QED BY <2>2, <2>4, BeginTypes
<1>2. ASSUME NEW t \in Resources, NEW req \in ResourceRequests,
             UpdateDiscoveredResource(a, t, req)
      PROVE TypeInv' /\ \E r : Begin(a, r) /\ r.step = "decide" /\ DOMAIN r.marks = {}
    <2> DEFINE row == MapResource(rows[t], req)
               r == [Idle EXCEPT !.step = "decide", !.thing = t, !.row = row]
    <2>1. Fitting(t, row) /\ t \in Things
        BY <1>2, MapResourceFits DEF UpdateDiscoveredResource, Things
    <2>2. Begin(a, r)
        BY <1>2 DEF UpdateDiscoveredResource
    <2> HIDE DEF row
    <2>3. r = [Idle EXCEPT !.step = "decide", !.kind = Null, !.thing = t, !.row = row]
        BY <1>0 DEF Requests
    <2> HIDE DEF r
    <2>4. Sound(r) /\ r.step = "decide" /\ DOMAIN r.marks = {}
        BY <2>1, <2>3, DecideSound
    <2> QED BY <2>2, <2>4, BeginTypes
<1>3. ASSUME NEW t \in Repositories, NEW req \in Ingestions,
             IngestIntegrationGraph(a, t, req)
      PROVE TypeInv' /\ \E r : Begin(a, r) /\ r.step = "decide" /\ DOMAIN r.marks = {}
    <2> DEFINE old == Stored(t)
               p == IF req.project # Null THEN req.project ELSE Home[req.service]
               s == Asked(old.service, req.service)
               new == [old EXCEPT !.project = p, !.service = s]
               row == Owned(new)
               r == [Idle EXCEPT !.step = "decide", !.kind = Repositories, !.thing = t,
                                 !.row = row]
    <2>1. t \in Things /\ Fitting(t, old)
        BY LookedUpFits DEF Things
    <2>2. Begin(a, r)
        BY <1>3, <2>1 DEF IngestIntegrationGraph, Fitting, Formed, Row
    <2> HIDE DEF old
    <2>3. p \in Projects \cup {Null} /\ s \in Services \cup {Null}
        BY <2>1, DiscoveryRequests, DiscoveryAssumption DEF Asked, Fitting, Formed, Row
    <2>4. Formed(t, new)
        BY <2>1, <2>3 DEF Fitting, Formed, Row
    <2>5. Fitting(t, row)
        BY <2>1, <2>4, OwnedFits DEF TypeInv
    <2> HIDE DEF row, r
    <2>6. Sound(r) /\ r.step = "decide" /\ DOMAIN r.marks = {}
        BY <2>1, <2>5, DecideSound DEF r
    <2> QED BY <2>2, <2>6, BeginTypes
<1> QED BY <1>1, <1>2, <1>3

LEMMA StoreDecisionTypes ==
    ASSUME TypeInv, NEW a \in Actors, StoreDecision(a)
    PROVE TypeInv'
<1> DEFINE r == request[a]
           q == [Handled(r) EXCEPT !.step = "graph"]
           seen == [r.row EXCEPT !.environment = Null]
<1>1. r \in Requests /\ Sound(r) /\ r.step = "decide" /\ r.thing \in Things
    BY DEF TypeInv, LocalInv, StoreDecision, At, Sound
<1>2. Fitting(r.thing, r.row) /\ Write(r.row, r.thing)
    BY <1>1 DEF Sound, StoreDecision, Decide
<1>3. Fitting(r.thing, seen)
    BY <1>2 DEF Fitting, Formed, Row
<1>4. Sound(q)
    <2>1. q.step = "graph"
        BY <1>1 DEF Handled, Requests
    <2>2. q = [Handled(r) EXCEPT !.step = q.step]
        BY <2>1
    <2> HIDE DEF q
    <2> QED BY <1>1, <2>1, <2>2, HandledSound
<1>5. /\ \/ edges' = edges \cup EdgesOf(r.thing, seen) /\ Advance(a, Idle)
         \/ UNCHANGED edges /\ Advance(a, q)
      /\ UNCHANGED changes
    BY DEF StoreDecision
<1> HIDE DEF q, seen
<1>6. EdgesFit(edges') /\ \A c \in changes' : Null \notin {c.project, c.service, c.environment}
    BY <1>1, <1>2, <1>3, <1>5, EdgesStay DEF TypeInv, TypeOK
<1>7. \E new : Sound(new) /\ request' = [request EXCEPT ![a] = new]
    BY <1>4, <1>5, IdleSound DEF Advance
<1>8. budget' \in 0..MaxRequests
    BY <1>5 DEF Advance, TypeInv, TypeOK
<1>9. Lasting
    BY <1>1, <1>2, WriteTypes
<1>10. request' \in [Actors -> Requests] /\ \A b \in Actors : Sound(request[b])'
    BY <1>7, <1>9, RequestTypes
<1> QED BY <1>1, <1>2, <1>6, <1>8, <1>10, WriteTypes, TypesFrom

LEMMA NextTypes == TypeInv /\ [Next]_vars => TypeInv'
<1> SUFFICES ASSUME TypeInv, [Next]_vars PROVE TypeInv'
    OBVIOUS
<1>1. ASSUME NEW a \in Actors,
             \/ \E kind \in {Repositories, Workloads, Targets} :
                   \E seen \in SUBSET kind : Sync(a, kind, seen)
             \/ \E t \in Repositories : Webhook(a, t)
             \/ Scan(a) \/ Store(a) \/ RefreshOwnership(a) \/ EndScan(a) \/ MarkMissing(a)
             \/ Relate(a) \/ TakeIn(a) \/ StoreDecision(a) \/ Abandon(a)
      PROVE TypeInv'
    BY <1>1, SyncTypes, WebhookTypes, ScanTypes, StoreTypes, MarkTypes, RelateTypes,
       TakeInTypes, StoreDecisionTypes
<1>2. CASE UNCHANGED vars
    <2>1. UNCHANGED <<rows, edges, changes, request, budget>>
        BY <1>2 DEF vars
    <2>2. EdgesFit(edges') /\ \A c \in changes' : Null \notin {c.project, c.service, c.environment}
        BY <2>1 DEF TypeInv, TypeOK, EdgesFit
    <2>3. ASSUME NEW b \in Actors PROVE Sound(request[b])'
        <3>1. ASSUME NEW q, q = request[b] PROVE Sound(q)'
            BY <2>1, <3>1, SoundStays, SameRows DEF TypeInv, LocalInv
        <3> QED BY <2>1, <3>1
    <2> QED BY <2>1, <2>2, <2>3, SameRowsTypes, TypesFrom DEF TypeInv, TypeOK, LocalInv
<1> QED BY <1>1, <1>2, AskTypes DEF Next

\* Whoever maps what is found, and however syncs, webhooks and operators interleave,
\* rows keep their shape, the owner is the team of the service, and a team is related to
\* a thing only together with a service of that team.
THEOREM TypeInvariance == Spec => [](TypeOK /\ LocalInv)
<1>1. TypeInv => TypeOK /\ LocalInv
    BY DEF TypeInv
<1> QED BY <1>1, InitTypes, NextTypes, PTL DEF Spec
----------------------------------------------------------------------------
(* A decided mapping stays. It is not enough that the stored row agrees:   *)
(* a copy that is going to be written back, by a sync, a webhook or the    *)
(* marking of what is missing, has to agree too.                           *)

Agrees(pin, row) ==
    /\ pin.service \in {Null, row.service}
    /\ pin.environment \in {Null, row.environment}

\* What the request is going to write to t, unless it is a decision of its own.
Defers(r, t) ==
    /\ r.step \in {"write", "rewrite"} /\ r.thing = t => Agrees(pinned[t], r.row)
    /\ t \in DOMAIN r.marks => Agrees(pinned[t], r.marks[t])

PinInv ==
    /\ pinned \in [Things -> Hints \cup {Null}]
    /\ \A t \in Things : pinned[t] # Null =>
          /\ rows[t] # Null
          /\ Agrees(pinned[t], rows[t])
          /\ \A b \in Actors : Defers(request[b], t)

\* A step of a request that stores nothing. It may give decisions up.
LEMMA QuietSteps ==
    ASSUME TypeInv, PinInv, NEW a \in Actors, NEW r,
           request' = [request EXCEPT ![a] = r], UNCHANGED rows,
           pinned' \in [Things -> Hints \cup {Null}],
           \A t \in Things : pinned'[t] # Null => pinned'[t] = pinned[t] /\ Defers(r, t)
    PROVE PinInv'
<1>1. \A b \in Actors : request'[b] = IF b = a THEN r ELSE request[b]
    BY DEF TypeInv, LocalInv
<1>2. ASSUME NEW t \in Things, pinned'[t] # Null
      PROVE pinned'[t] = pinned[t] /\ \A b \in Actors : Defers(request'[b], t)
    BY <1>1, <1>2 DEF PinInv
<1>3. ASSUME NEW t \in Things, pinned'[t] # Null
      PROVE /\ rows'[t] # Null /\ Agrees(pinned'[t], rows'[t])
            /\ \A b \in Actors : Defers(request[b], t)'
    BY <1>2, <1>3 DEF PinInv, Defers
<1> QED BY <1>3 DEF PinInv

LEMMA SamePins ==
    ASSUME PinInv, UNCHANGED pinned, NEW r, \A t \in Things : pinned[t] # Null => Defers(r, t)
    PROVE /\ pinned' \in [Things -> Hints \cup {Null}]
          /\ \A t \in Things : pinned'[t] # Null => pinned'[t] = pinned[t] /\ Defers(r, t)
BY DEF PinInv

\* A copy that agrees is written, and the request goes on with copies that agree.
LEMMA DeferringWrites ==
    ASSUME TypeInv, PinInv, NEW a \in Actors, NEW r, NEW t \in Things, NEW row \in Row,
           request' = [request EXCEPT ![a] = r], Write(row, t), UNCHANGED pinned,
           pinned[t] # Null => Agrees(pinned[t], row),
           \A u \in Things : pinned[u] # Null => Defers(r, u)
    PROVE PinInv'
<1>1. \A b \in Actors : request'[b] = IF b = a THEN r ELSE request[b]
    BY DEF TypeInv, LocalInv
<1>2. \A u \in Things : pinned[u] # Null => \A b \in Actors : Defers(request'[b], u)
    BY <1>1 DEF PinInv
<1>3. \A u \in Things : rows'[u] = IF u = t THEN row ELSE rows[u]
    BY DEF Write, TypeInv, TypeOK
<1>4. \A u \in Things : pinned[u] # Null => rows'[u] # Null /\ Agrees(pinned[u], rows'[u])
    BY <1>3, DiscoveryValues DEF PinInv
<1> QED BY <1>2, <1>4 DEF PinInv, Defers

\* A request without copies of its own.
LEMMA EmptyDefers ==
    ASSUME NEW r, r.step \notin {"write", "rewrite"}, DOMAIN r.marks = {}
    PROVE \A t \in Things : Defers(r, t)
BY DEF Defers

\* A row made from the stored one agrees with the decision.
LEMMA FindingDefers ==
    ASSUME TypeInv, PinInv, NEW t \in Things, pinned[t] # Null, NEW new, Keeps(Stored(t), new)
    PROVE Agrees(pinned[t], new)
BY LookedUpFits DEF PinInv, Agrees, Keeps

LEMMA BeginPins ==
    ASSUME TypeInv, PinInv, NEW a \in Actors,
           \/ \E kind \in {Repositories, Workloads, Targets} :
                 \E seen \in SUBSET kind : Sync(a, kind, seen)
           \/ \E t \in Repositories : Webhook(a, t)
    PROVE PinInv'
<1>0. Idle \in Requests /\ Idle.step = "idle" /\ DOMAIN Idle.marks = {}
    BY IdleSound DEF Sound
<1>1. ASSUME NEW kind \in {Repositories, Workloads, Targets}, NEW seen \in SUBSET kind,
             Sync(a, kind, seen)
      PROVE PinInv'
    <2> DEFINE r == [Idle EXCEPT !.step = "scan", !.kind = kind, !.seen = seen, !.todo = seen]
    <2>1. request' = [request EXCEPT ![a] = r] /\ UNCHANGED <<rows, pinned>>
        BY <1>1 DEF Sync, Begin
    <2>2. r.step = "scan" /\ r.marks = Idle.marks
        BY <1>0 DEF Requests
    <2> HIDE DEF r
    <2> QED BY <1>0, <2>1, <2>2, EmptyDefers, SamePins, QuietSteps
<1>2. ASSUME NEW t \in Repositories, Webhook(a, t) PROVE PinInv'
    <2> DEFINE row == FoundRepository(Stored(t))
               r == [Idle EXCEPT !.step = "write", !.kind = {}, !.thing = t, !.row = row]
    <2>1. request' = [request EXCEPT ![a] = r] /\ UNCHANGED <<rows, pinned>>
        BY <1>2 DEF Webhook, Begin
    <2>2. t \in Things /\ (pinned[t] # Null => Agrees(pinned[t], row))
        BY LookedUpFits, FoundRepositoryFits, FindingDefers DEF Things
    <2> HIDE DEF row
    <2>3. r.thing = t /\ r.row = row /\ r.marks = Idle.marks
        BY <1>0 DEF Requests
    <2> HIDE DEF r
    <2>4. \A u \in Things : pinned[u] # Null => Defers(r, u)
        BY <1>0, <2>2, <2>3 DEF Defers
    <2> QED BY <2>1, <2>4, SamePins, QuietSteps
<1> QED BY <1>1, <1>2

LEMMA AskPins ==
    ASSUME TypeInv, PinInv, NEW a \in Actors,
           \/ \E t \in Repositories : \E req \in RepositoryRequests : UpdateRepository(a, t, req)
           \/ \E t \in Resources : \E req \in ResourceRequests :
                 UpdateDiscoveredResource(a, t, req)
           \/ \E t \in Repositories : \E req \in Ingestions : IngestIntegrationGraph(a, t, req)
    PROVE PinInv'
<1>1. PICK r : Begin(a, r) /\ r.step = "decide" /\ DOMAIN r.marks = {}
    BY AskTypes
<1>2. request' = [request EXCEPT ![a] = r] /\ UNCHANGED <<rows, pinned>>
    BY <1>1 DEF Begin
<1> QED BY <1>1, <1>2, EmptyDefers, SamePins, QuietSteps

LEMMA ScanPins ==
    ASSUME TypeInv, PinInv, NEW a \in Actors,
           Scan(a) \/ EndScan(a) \/ Abandon(a) \/ Relate(a) \/ TakeIn(a)
    PROVE PinInv'
<1> DEFINE r == request[a]
<1>0. r \in Requests /\ Sound(r)
    BY DEF TypeInv, LocalInv
<1>i. \A t \in Things : Defers(Idle, t)
    BY IdleSound, EmptyDefers
<1>1. CASE Scan(a)
    <2>p. PICK t \in r.todo : \E old \in LookedUp(t), hint \in Guesses(t) :
             /\ Advance(a, [r EXCEPT !.step = "write", !.thing = t,
                                     !.row = Found(t, old, hint), !.todo = @ \ {t}])
             /\ Forget(t, old)
        BY <1>1 DEF Scan
    <2>1. PICK old \in LookedUp(t), hint \in Guesses(t) :
             /\ Advance(a, [r EXCEPT !.step = "write", !.thing = t,
                                     !.row = Found(t, old, hint), !.todo = @ \ {t}])
             /\ Forget(t, old)
        BY <2>p
    <2> DEFINE row == Found(t, old, hint)
               q == [r EXCEPT !.step = "write", !.thing = t, !.row = row, !.todo = @ \ {t}]
    <2>2. request' = [request EXCEPT ![a] = q] /\ UNCHANGED rows /\ r.step = "scan"
        BY <1>1, <2>1 DEF Scan, Advance, At
    <2>3. t \in Things /\ Keeps(old, row)
        BY <1>0, LookedUpFits, FoundFits DEF Requests
    <2> HIDE DEF row
    <2>4. q.step = "write" /\ q.thing = t /\ q.row = row /\ q.marks = r.marks
        BY <1>0 DEF Requests
    <2> HIDE DEF q
    <2>5. /\ pinned' \in [Things -> Hints \cup {Null}]
          /\ \A u \in Things : pinned'[u] # Null => pinned'[u] = pinned[u]
          /\ pinned'[t] # Null => old = Stored(t)
        BY <2>1, <2>3 DEF Forget, PinInv
    <2>6. pinned'[t] # Null => Agrees(pinned[t], row)
        BY <2>3, <2>5, FindingDefers
    <2>7. DOMAIN q.marks = {}
        BY <1>0, <2>2, <2>4 DEF Sound
    <2>8. \A u \in Things : pinned'[u] # Null => Defers(q, u)
        BY <2>4, <2>6, <2>7 DEF Defers
    <2> QED BY <2>2, <2>5, <2>8, QuietSteps
<1>2. CASE EndScan(a)
    <2>0. PICK missing \in Missing(r) :
             Advance(a, [r EXCEPT !.step = "mark", !.marks = [t \in missing |-> rows[t]]])
        BY <1>2 DEF EndScan
    <2> DEFINE m == [t \in missing |-> rows[t]]
               q == [r EXCEPT !.step = "mark", !.marks = m]
    <2>1. request' = [request EXCEPT ![a] = q] /\ UNCHANGED <<rows, pinned>>
        BY <1>2, <2>0 DEF EndScan, Advance
    <2>2. \A t \in DOMAIN m : m[t] = rows[t]
        OBVIOUS
    <2> HIDE DEF m
    <2>3. q.step = "mark" /\ q.marks = m
        BY <1>0 DEF Requests
    <2> HIDE DEF q
    <2>4. \A u \in Things : pinned[u] # Null => Defers(q, u)
        BY <2>2, <2>3 DEF Defers, PinInv
    <2> QED BY <2>1, <2>4, SamePins, QuietSteps
<1>3. CASE Abandon(a) \/ TakeIn(a) \/ (Relate(a) /\ r.done = << >>)
    <2>1. request' = [request EXCEPT ![a] = Idle] /\ UNCHANGED <<rows, pinned>>
        BY <1>3 DEF Abandon, TakeIn, Relate, Advance
    <2> QED BY <1>i, <2>1, SamePins, QuietSteps
<1>4. CASE Relate(a) /\ r.done # << >>
    <2>1. PICK t \in DOMAIN r.done : Advance(a, [r EXCEPT !.done = Restrict(@, DOMAIN @ \ {t})])
        BY <1>4 DEF Relate
    <2> DEFINE q == [r EXCEPT !.done = Restrict(@, DOMAIN @ \ {t})]
    <2>2. /\ request' = [request EXCEPT ![a] = q] /\ UNCHANGED <<rows, pinned>>
          /\ r.step = "graph"
        BY <1>4, <2>1 DEF Relate, Advance, At
    <2>3. q.step = r.step /\ q.marks = r.marks
        BY <1>0 DEF Requests
    <2> HIDE DEF q
    <2>4. DOMAIN q.marks = {}
        BY <1>0, <2>2, <2>3 DEF Sound
    <2> QED BY <2>2, <2>3, <2>4, EmptyDefers, SamePins, QuietSteps
<1> QED BY <1>1, <1>2, <1>3, <1>4

LEMMA StorePins ==
    ASSUME TypeInv, PinInv, NEW a \in Actors, Store(a) \/ RefreshOwnership(a)
    PROVE PinInv'
<1> DEFINE r == request[a]
<1>1. /\ r \in Requests /\ Sound(r) /\ r.step \in {"write", "rewrite"}
      /\ r.thing \in Things /\ Fitting(r.thing, r.row) /\ r.row \in Row
    BY DEF TypeInv, LocalInv, Store, RefreshOwnership, At, Sound, Fitting, Formed
<1>2. /\ \A t \in Things : pinned[t] # Null => Defers(r, t)
      /\ pinned[r.thing] # Null => Agrees(pinned[r.thing], r.row)
      /\ DOMAIN r.marks = {}
    BY <1>1 DEF PinInv, Defers, Sound
<1>3. CASE Store(a)
    <2>1. PICK q : /\ request' = [request EXCEPT ![a] = q]
                   /\ \/ q = [Handled(r) EXCEPT !.step = "webhook"] \/ q = Handled(r)
                      \/ q = [r EXCEPT !.step = "rewrite"]
        BY <1>3 DEF Store, Advance
    <2>2. Write(r.row, r.thing) /\ UNCHANGED pinned
        BY <1>3 DEF Store
    <2>3. /\ q.marks = r.marks
          /\ q.step \notin {"write", "rewrite"} \/ (q.thing = r.thing /\ q.row = r.row)
        BY <1>1, <2>1 DEF Handled, Requests
    <2>4. \A t \in Things : pinned[t] # Null => Defers(q, t)
        BY <1>2, <2>3 DEF Defers
    <2> HIDE DEF r
    <2> QED BY <1>1, <1>2, <2>1, <2>2, <2>4, DeferringWrites
<1>4. CASE RefreshOwnership(a)
    <2> DEFINE row == Owned(r.row)
               s == [r EXCEPT !.row = row]
               q == Handled(s)
    <2>1. request' = [request EXCEPT ![a] = q] /\ Write(s.row, s.thing) /\ UNCHANGED pinned
        BY <1>4 DEF RefreshOwnership, Advance
    <2>2. /\ row \in Row /\ row.service = r.row.service /\ row.environment = r.row.environment
        BY <1>1, OwnedFits DEF TypeInv, Fitting, Formed
    <2>3. pinned[r.thing] # Null => Agrees(pinned[r.thing], row)
        BY <1>2, <2>2 DEF Agrees
    <2> HIDE DEF row
    <2>4. /\ s \in Requests /\ s.row = row /\ s.thing = r.thing
          /\ q.step = "scan" /\ q.marks = r.marks
        BY <1>1, <2>2 DEF Handled, Requests
    <2> HIDE DEF s, q, r
    <2>5. \A t \in Things : Defers(q, t)
        BY <1>2, <2>4, EmptyDefers
    <2> QED BY <1>1, <2>1, <2>2, <2>3, <2>4, <2>5, DeferringWrites
<1> QED BY <1>3, <1>4

LEMMA MarkPins ==
    ASSUME TypeInv, PinInv, NEW a \in Actors, MarkMissing(a)
    PROVE PinInv'
<1> DEFINE r == request[a]
<1>0. /\ r \in Requests /\ Sound(r) /\ r.step = "mark" /\ r.marks \in Copies
      /\ UNCHANGED pinned
    BY DEF TypeInv, LocalInv, MarkMissing, At, Requests
<1>1. \A t \in Things : pinned[t] # Null => Defers(r, t)
    BY DEF PinInv
<1>2. CASE r.marks = << >>
    <2> DEFINE q == [r EXCEPT !.step = "graph"]
    <2>1. request' = [request EXCEPT ![a] = q] /\ UNCHANGED rows
        BY <1>2 DEF MarkMissing, Advance
    <2>2. q.step = "graph" /\ q.marks = r.marks
        BY <1>0 DEF Requests
    <2> HIDE DEF q
    <2>3. \A t \in Things : Defers(q, t)
        BY <1>2, <2>2, NoCopies, EmptyDefers
    <2> QED BY <1>0, <2>1, <2>3, SamePins, QuietSteps
<1>3. CASE r.marks # << >>
    <2>1. PICK t \in DOMAIN r.marks :
             /\ Write([r.marks[t] EXCEPT !.status = "missing"], t)
             /\ Advance(a, [r EXCEPT !.marks = Restrict(@, DOMAIN @ \ {t})])
        BY <1>3 DEF MarkMissing
    <2> DEFINE row == [r.marks[t] EXCEPT !.status = "missing"]
               m == Restrict(r.marks, DOMAIN r.marks \ {t})
               q == [r EXCEPT !.marks = m]
    <2>2. Write(row, t) /\ request' = [request EXCEPT ![a] = q]
        BY <1>0, <2>1 DEF Requests, Advance
    <2>3. t \in Things /\ r.marks[t] \in Row
        BY <1>0, CopyFacts
    <2>4. row \in Row /\ row.service = r.marks[t].service
          /\ row.environment = r.marks[t].environment
        BY <2>3 DEF Row, Statuses
    <2>5. pinned[t] # Null => Agrees(pinned[t], row)
        BY <1>1, <2>3, <2>4 DEF Defers, Agrees
    <2>6. DOMAIN m \subseteq DOMAIN r.marks /\ \A u \in DOMAIN m : m[u] = r.marks[u]
        BY <1>0, Restricted
    <2> HIDE DEF m, row
    <2>7. q.step = "mark" /\ q.marks = m
        BY <1>0 DEF Requests
    <2> HIDE DEF q
    <2>8. \A u \in Things : pinned[u] # Null => Defers(q, u)
        BY <1>1, <2>6, <2>7 DEF Defers
    <2> QED BY <1>0, <2>2, <2>3, <2>4, <2>5, <2>8, DeferringWrites
<1> QED BY <1>2, <1>3

\* A decision is pinned when no other request is going to write the row back.
LEMMA StoreDecisionPins ==
    ASSUME TypeInv, PinInv, NEW a \in Actors, StoreDecision(a)
    PROVE PinInv'
<1> DEFINE r == request[a]
           pin == [service |-> r.row.service, environment |-> r.row.environment]
<1>1. /\ r \in Requests /\ Sound(r) /\ r.step = "decide" /\ r.thing \in Things
      /\ r.row \in Row /\ DOMAIN r.marks = {}
    BY DEF TypeInv, LocalInv, StoreDecision, At, Sound, Fitting, Formed
<1>2. /\ rows' = [rows EXCEPT ![r.thing] = r.row]
      /\ pinned' = [pinned EXCEPT ![r.thing] = IF HeldByOthers(a, r.thing) THEN Null ELSE pin]
    BY DEF StoreDecision, Decide, Write
<1>3. PICK q : /\ request' = [request EXCEPT ![a] = q]
               /\ q = Idle \/ q = [Handled(r) EXCEPT !.step = "graph"]
    BY DEF StoreDecision, Advance
<1>4. q.step \notin {"write", "rewrite"} /\ DOMAIN q.marks = {}
    BY <1>1, <1>3, IdleSound DEF Handled, Requests
<1>5. \A b \in Actors : request'[b] = IF b = a THEN q ELSE request[b]
    BY <1>3 DEF TypeInv, LocalInv
<1>6. \A t \in Things : rows'[t] = IF t = r.thing THEN r.row ELSE rows[t]
    BY <1>2 DEF TypeInv, TypeOK
<1>p. /\ pin \in Hints /\ pinned' \in [Things -> Hints \cup {Null}]
      /\ \A t \in Things : pinned'[t] = IF t # r.thing THEN pinned[t]
                                       ELSE IF HeldByOthers(a, r.thing) THEN Null ELSE pin
    BY <1>1, <1>2 DEF PinInv, Hints, Row
<1> SUFFICES ASSUME NEW t \in Things, pinned'[t] # Null
             PROVE /\ rows'[t] # Null /\ Agrees(pinned'[t], rows'[t])
                   /\ \A b \in Actors : Defers(request[b], t)'
    BY <1>p DEF PinInv
<1>7. CASE t # r.thing
    <2>1. pinned'[t] = pinned[t] /\ rows'[t] = rows[t]
        BY <1>p, <1>6, <1>7
    <2> QED BY <1>4, <1>5, <2>1 DEF PinInv, Defers
<1>8. CASE t = r.thing
    <2>1. ~HeldByOthers(a, t) /\ pinned'[t] = pin
        BY <1>p, <1>8
    <2>2. rows'[t] # Null /\ Agrees(pinned'[t], rows'[t])
        BY <1>1, <1>6, <1>8, <2>1, DiscoveryValues DEF Agrees
    <2>3. ASSUME NEW b \in Actors PROVE Defers(request[b], t)'
        <3>1. b # a => /\ ~(request[b].step \in {"write", "rewrite"} /\ request[b].thing = t)
                       /\ t \notin DOMAIN request[b].marks
            BY <2>1 DEF HeldByOthers
        <3> QED BY <1>4, <1>5, <3>1 DEF Defers
    <2> QED BY <2>2, <2>3
<1> QED BY <1>7, <1>8

LEMMA NextPins == TypeInv /\ PinInv /\ [Next]_vars => PinInv'
<1> SUFFICES ASSUME TypeInv, PinInv, [Next]_vars PROVE PinInv'
    OBVIOUS
<1>1. CASE UNCHANGED vars
    BY <1>1 DEF vars, PinInv, Defers
<1> QED BY <1>1, BeginPins, AskPins, ScanPins, StorePins, MarkPins, StoreDecisionPins DEF Next

\* A mapping that an operator or an ingestion stored while no copy of the row was about
\* to be written stays until the next such decision, whatever syncs and webhooks that
\* began later find, guess, and write back, unless a sync fails to read the row of a
\* workload or a target and goes on from a blank one.
THEOREM DecisionsStand == Spec => []DecidedMappingsStay
<1>1. Init => PinInv
    BY DEF Init, PinInv
<1>2. PinInv => DecidedMappingsStay
    BY DEF PinInv, Agrees, DecidedMappingsStay
<1> QED BY <1>1, <1>2, InitTypes, NextTypes, NextPins, PTL DEF Spec

=============================================================================
