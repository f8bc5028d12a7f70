----------------------- MODULE IntegrationSyncProofs -----------------------
(***************************************************************************)
(* Theorems about IntegrationSync, for any number of workers, handlers and *)
(* deliveries, any configurations and updates, and any number of requests  *)
(* and faults.                                                             *)
(***************************************************************************)
EXTENDS IntegrationSync, TLAPS

----------------------------------------------------------------------------
(* Types and the schedule: what holds of the row holds of every copy *)

TypeInv ==
    /\ TypeOK
    /\ Consistent(row)
    /\ \A p \in Procs : Consistent(held[p])
    /\ \A p \in Procs : pc[p] \in {"lookup", "ingest"} => task[p].delivery \in Deliveries

LEMMA ConstantTypes ==
    /\ NoCopy \in Rows /\ Consistent(NoCopy)
    /\ NoTask \in Tasks /\ NoTask.delivery = NoDelivery
    /\ ParsedOperation \in Operations
BY DEF NoCopy, Rows, Consistent, NoTask, Tasks, Operations, ParsedOperation

\* Switching off takes the schedule and the control along.
LEMMA GovernedTypes ==
    ASSUME NEW r \in Rows
    PROVE /\ Governed(r) \in Rows
          /\ Governed(r).control \/ Governed(r).scheduled => Governed(r).enabled
<1>1. Governed(r) \in Rows
    BY DEF Governed, Rows
<1>2. /\ Governed(r).scheduled = (r.enabled /\ r.scheduled)
      /\ Governed(r).control = (r.enabled /\ r.control)
      /\ Governed(r).enabled = r.enabled
    BY DEF Governed, Rows
<1> QED BY <1>1, <1>2

\* The due time follows the schedule.
LEMMA ScheduleTypes ==
    ASSUME NEW r \in Rows, r.control \/ r.scheduled => r.enabled, NEW s \in WithSchedule(r)
    PROVE s \in Rows /\ Consistent(s)
<1>1. CASE ~r.enabled \/ ~r.scheduled
    <2>1. s = [r EXCEPT !.next = "none", !.claim = "none"]
        BY <1>1 DEF WithSchedule
    <2>2. ~r.scheduled
        BY <1>1
    <2> QED BY <2>1, <2>2 DEF Rows, Consistent
<1>2. CASE r.enabled /\ r.scheduled /\ r.next # "none"
    <2>1. s = r
        BY <1>2 DEF WithSchedule
    <2> QED BY <1>2, <2>1 DEF Consistent
<1>3. CASE r.enabled /\ r.scheduled /\ r.next = "none"
    <2>1. PICK n \in {"later", "due"} : s = [r EXCEPT !.next = n]
        BY <1>3 DEF WithSchedule
    <2> QED BY <1>3, <2>1 DEF Rows, Consistent
<1> QED BY <1>1, <1>2, <1>3

LEMMA UpdateTypes ==
    ASSUME NEW r \in Rows, NEW u \in Updates, NEW now \in Elapsed(r), NEW s \in Updated(now, u)
    PROVE s \in Rows /\ Consistent(s)
<1>1. now \in Rows
    <2>1. now.claim \in {"none", "fresh", "stale"} /\ now.next \in {"none", "later", "due"}
        BY DEF Elapsed, Rows
    <2> QED BY <2>1 DEF Elapsed, Rows
<1> DEFINE asked == [now EXCEPT !.enabled = Wanted(@, u.enabled),
                                !.scheduled = Wanted(@, u.scheduled),
                                !.control = Wanted(@, u.control)]
<1>2. \A wish : \A old \in BOOLEAN : Wanted(old, wish) \in BOOLEAN
    BY DEF Wanted
<1>3. asked \in Rows
    BY <1>1, <1>2 DEF Rows
<1>4. s \in WithSchedule(Governed(asked))
    BY DEF Updated
<1> HIDE DEF asked
<1> QED BY <1>3, <1>4, GovernedTypes, ScheduleTypes

LEMMA InitialTypes ==
    ASSUME NEW r \in InitialRows
    PROVE r \in Rows /\ Consistent(r)
<1>1. PICK c \in Configurations :
        r \in WithSchedule(Governed([NoCopy EXCEPT !.enabled = c.enabled,
                                                   !.scheduled = c.scheduled,
                                                   !.control = c.control]))
    BY DEF InitialRows
<1> DEFINE asked == [NoCopy EXCEPT !.enabled = c.enabled,
                                   !.scheduled = c.scheduled,
                                   !.control = c.control]
<1>2. asked \in Rows
    <2>1. c \in [enabled : BOOLEAN, scheduled : BOOLEAN, control : BOOLEAN]
        BY SyncAssumption
    <2> QED BY <2>1 DEF NoCopy, Rows
<1>3. r \in WithSchedule(Governed(asked))
    BY <1>1
<1> HIDE DEF asked
<1> QED BY <1>2, <1>3, GovernedTypes, ScheduleTypes

LEMMA AfterRunTypes ==
    ASSUME NEW r \in Rows, Consistent(r)
    PROVE AfterRun(r) \in Rows /\ Consistent(AfterRun(r))
BY DEF AfterRun, Rows, Consistent

\* A process moves with a copy and a task of the right shape.
LEMMA GotoTypes ==
    ASSUME TypeInv,
           NEW p \in Procs, NEW s \in Steps, NEW r \in Rows, Consistent(r), NEW t \in Tasks,
           s \in {"lookup", "ingest"} => t.delivery \in Deliveries,
           Goto(p, s, r, t)
    PROVE /\ pc' \in [Procs -> Steps]
          /\ held' \in [Procs -> Rows]
          /\ task' \in [Procs -> Tasks]
          /\ \A q \in Procs : Consistent(held'[q])
          /\ \A q \in Procs : pc'[q] \in {"lookup", "ingest"} => task'[q].delivery \in Deliveries
BY DEF TypeInv, TypeOK, Goto

LEMMA ReturnTypes ==
    ASSUME TypeInv, NEW p \in Procs, Return(p)
    PROVE /\ pc' \in [Procs -> Steps]
          /\ held' \in [Procs -> Rows]
          /\ task' \in [Procs -> Tasks]
          /\ \A q \in Procs : Consistent(held'[q])
          /\ \A q \in Procs : pc'[q] \in {"lookup", "ingest"} => task'[q].delivery \in Deliveries
<1>1. "idle" \in Steps
    BY DEF Steps
<1> QED BY <1>1, ConstantTypes, GotoTypes DEF Return

LEMMA SyncInitTypes == Init => TypeInv
<1> SUFFICES ASSUME Init PROVE TypeInv
    OBVIOUS
<1>1. row \in Rows /\ Consistent(row)
    BY InitialTypes DEF Init
<1>2. "idle" \in Steps
    BY DEF Steps
<1> QED BY <1>1, <1>2, ConstantTypes, SyncAssumption DEF Init, TypeInv, TypeOK

LEMMA SyncNextTypes == TypeInv /\ [Next]_vars => TypeInv'
<1> SUFFICES ASSUME TypeInv, [Next]_vars PROVE TypeInv'
    OBVIOUS
<1> USE DEF TypeInv, TypeOK
<1>a. /\ Workers \subseteq Procs /\ Handlers \subseteq Procs
      /\ Syncing \subseteq Workers
      /\ "idle" \in Steps /\ "read" \in Steps /\ "work" \in Steps
      /\ "update" \in Steps /\ "graph" \in Steps /\ "lookup" \in Steps /\ "ingest" \in Steps
    BY DEF Procs, Syncing, Steps
<1>b. Disturb => budget' \in Nat
    BY DEF Disturb
<1>1. ASSUME NEW w \in Workers, ClaimSync(w) PROVE TypeInv'
    <2>1. row' \in Rows /\ Consistent(row')
        BY <1>1 DEF ClaimSync, Claimable, Rows, Consistent
    <2>2. Goto(w, "read", NoCopy, NoTask)
        BY <1>1 DEF ClaimSync
    <2> QED BY <1>1, <1>a, <2>1, <2>2, ConstantTypes, GotoTypes DEF ClaimSync, webhooks
<1>2. ASSUME NEW w \in Workers, ReadRow(w) PROVE TypeInv'
    <2>1. Goto(w, "work", row, task[w]) /\ task[w] \in Tasks
        BY <1>2, <1>a DEF ReadRow
    <2> QED BY <1>2, <1>a, <2>1, GotoTypes DEF ReadRow, webhooks
<1>3. ASSUME NEW p \in Procs, Persist(p) PROVE TypeInv'
    <2>1. row' \in Rows /\ Consistent(row') /\ trespassed' \subseteq Workers
        BY <1>3, <1>a, AfterRunTypes DEF Persist, WriteRow
    <2>2. runs' \subseteq Runs
        BY <1>3 DEF Persist, Recorded, Runs, Tasks
    <2> QED BY <1>3, <2>1, <2>2, ReturnTypes DEF Persist
<1>4. ASSUME NEW h \in Handlers, RequestRun(h) PROVE TypeInv'
    <2>1. Goto(h, "work", row, NoTask)
        BY <1>4 DEF RequestRun
    <2> QED BY <1>4, <1>a, <1>b, <2>1, ConstantTypes, GotoTypes DEF RequestRun, webhooks
<1>5. ASSUME NEW h \in Handlers, RequestUpdate(h) PROVE TypeInv'
    <2>1. Goto(h, "update", row, NoTask)
        BY <1>5 DEF RequestUpdate
    <2> QED BY <1>5, <1>a, <1>b, <2>1, ConstantTypes, GotoTypes DEF RequestUpdate, webhooks
<1>6. ASSUME NEW h \in Handlers, UpdateWrite(h) PROVE TypeInv'
    <2>1. PICK u \in Updates, now \in Elapsed(held[h]) : \E r \in Updated(now, u) : WriteRow(h, r)
        BY <1>6 DEF UpdateWrite
    <2>5. PICK r \in Updated(now, u) : WriteRow(h, r)
        BY <2>1
    <2>2. held[h] \in Rows
        BY <1>a
    <2>3. r \in Rows /\ Consistent(r)
        BY <2>2, UpdateTypes
    <2>4. row' \in Rows /\ Consistent(row') /\ trespassed' \subseteq Workers
        BY <1>a, <2>5, <2>3 DEF WriteRow
    <2> QED BY <1>6, <1>a, <2>4, ReturnTypes DEF UpdateWrite, webhooks
<1>14. ASSUME NEW h \in Handlers, RequestGraph(h) PROVE TypeInv'
    <2>1. Goto(h, "graph", row, NoTask)
        BY <1>14 DEF RequestGraph
    <2> QED BY <1>14, <1>a, <1>b, <2>1, ConstantTypes, GotoTypes DEF RequestGraph, webhooks
<1>15. ASSUME NEW h \in Handlers, GraphWrite(h) PROVE TypeInv'
    <2>1. PICK now \in Elapsed(held[h]) : WriteRow(h, now)
        BY <1>15 DEF GraphWrite
    <2>2. held[h] \in Rows /\ Consistent(held[h])
        BY <1>a
    <2>3. now \in Rows /\ Consistent(now)
        BY <2>2 DEF Elapsed, Rows, Consistent
    <2>4. row' \in Rows /\ Consistent(row') /\ trespassed' \subseteq Workers
        BY <1>a, <2>1, <2>3 DEF WriteRow
    <2> QED BY <1>15, <1>a, <2>4, ReturnTypes DEF GraphWrite, webhooks
<1>7. ASSUME NEW h \in Handlers, NEW d \in Deliveries, RequestWebhook(h, d) PROVE TypeInv'
    <2>1. [NoTask EXCEPT !.delivery = d] \in Tasks
        BY DEF NoTask, Tasks, Operations
    <2>2. \/ Goto(h, "lookup", row, [NoTask EXCEPT !.delivery = d])
          \/ Goto(h, "work", row, NoTask)
        BY <1>7 DEF RequestWebhook
    <2>3. [NoTask EXCEPT !.delivery = d].delivery \in Deliveries
        BY DEF NoTask
    <2>4. \E s \in Steps, t \in Tasks :
            (s \in {"lookup", "ingest"} => t.delivery \in Deliveries) /\ Goto(h, s, row, t)
        BY <1>a, <2>1, <2>2, <2>3, ConstantTypes
    <2> QED BY <1>7, <1>a, <1>b, <2>4, GotoTypes DEF RequestWebhook, webhooks
<1>8. ASSUME NEW h \in Handlers, Lookup(h) \/ LookupFails(h) PROVE TypeInv'
    <2>4. task[h].delivery \in Deliveries
        BY <1>8, <1>a DEF Lookup, LookupFails
    <2>1. held[h] \in Rows /\ Consistent(held[h]) /\ task[h] \in Tasks
        BY <1>a
    <2>2. Return(h) \/ Goto(h, "ingest", held[h], task[h])
        BY <1>8 DEF Lookup, LookupFails
    <2>3. interrupted' \subseteq Deliveries
        BY <1>8, <2>4 DEF Lookup, LookupFails
    <2> QED BY <1>8, <1>a, <1>b, <2>1, <2>2, <2>3, <2>4, ReturnTypes, GotoTypes DEF Lookup, LookupFails
<1>9. ASSUME NEW h \in Handlers, Ingest(h) PROVE TypeInv'
    <2>1. held[h] \in Rows /\ Consistent(held[h]) /\ task[h] \in Tasks
        BY <1>a
    <2>2. [task[h] EXCEPT !.operation = ParsedOperation] \in Tasks
        BY <2>1, ConstantTypes DEF Tasks
    <2>3. \E t \in Tasks : Goto(h, "work", held[h], t)
        BY <1>9, <2>1, <2>2 DEF Ingest
    <2>4. changes' \in [Deliveries -> 0..2]
        BY <1>9 DEF Ingest
    <2> QED BY <1>9, <1>a, <2>1, <2>3, <2>4, GotoTypes DEF Ingest
<1>10. ASSUME NEW p \in Procs, Abort(p) PROVE TypeInv'
    <2>1. interrupted' \subseteq Deliveries
        BY <1>10 DEF Abort, Tasks
    <2> QED BY <1>10, <1>b, <2>1, ReturnTypes DEF Abort
<1>11. CASE ClaimAges
    <2>1. row' \in Rows /\ Consistent(row')
        BY <1>11 DEF ClaimAges, Rows, Consistent
    <2>2. budget' \in Nat /\ trespassed' \subseteq Workers
        BY <1>11, <1>a, <1>b DEF ClaimAges
    <2> QED BY <1>11, <2>1, <2>2 DEF ClaimAges, webhooks, process
<1>12. CASE NextComesDue
    <2>1. row' \in Rows /\ Consistent(row')
        BY <1>12 DEF NextComesDue, Rows, Consistent
    <2> QED BY <1>12, <2>1 DEF NextComesDue, webhooks, process
<1>13. CASE UNCHANGED vars
    BY <1>13 DEF vars
<1> QED BY <1>1, <1>2, <1>3, <1>4, <1>5, <1>6, <1>7, <1>8, <1>9, <1>10, <1>11, <1>12, <1>13,
           <1>14, <1>15, <1>a DEF Next, Tick, Begin, Serve

LEMMA SyncTypeInvariance == Spec => []TypeInv
BY SyncInitTypes, SyncNextTypes, PTL DEF Spec

\* The row, its copies and the recorded runs keep their shape.
THEOREM SyncTypes == Spec => []TypeOK
BY SyncTypeInvariance, PTL DEF TypeInv

\* Schedule, claim and due time fit together under every race of whole-row writes:
\* each write stores a copy that was consistent when it was read.
THEOREM ScheduleConsistent == Spec => []ScheduleIsConsistent
<1>1. TypeInv => ScheduleIsConsistent
    BY DEF TypeInv, ScheduleIsConsistent
<1> QED BY <1>1, SyncTypeInvariance, PTL

----------------------------------------------------------------------------
(* The claim *)

\* Workers at a scheduled sync nobody came between: the claim is theirs.
Holders == Syncing \ trespassed

ClaimInv ==
    /\ \A v, w \in Holders : v = w
    /\ Holders # {} => row.claim = "fresh"

\* Whoever moves to a step that is no scheduled sync leaves the others alone.
LEMMA OthersKeepSyncing ==
    ASSUME TypeInv,
           NEW p \in Procs, NEW s, NEW r, NEW t, Goto(p, s, r, t),
           s \notin {"read", "work"} \/ p \notin Workers \/ p \in Syncing
    PROVE /\ Syncing' \subseteq Syncing
          /\ s = "idle" => p \notin Syncing'
BY DEF TypeInv, TypeOK, Goto, Syncing, Procs

\* A whole-row write ends every claim but the writer's, and the writer is done.
LEMMA WriteEndsClaims ==
    ASSUME TypeInv, NEW p \in Procs, NEW r, WriteRow(p, r), Return(p)
    PROVE Holders' = {}
<1>1. Syncing' \subseteq Syncing /\ p \notin Syncing'
    BY OthersKeepSyncing DEF Return
<1> QED BY <1>1 DEF WriteRow, Holders

LEMMA ClaimInvariance == Spec => []ClaimInv
<1>1. Init => ClaimInv
    BY DEF Init, ClaimInv, Holders, Syncing, Procs
<1>2. TypeInv /\ ClaimInv /\ [Next]_vars => ClaimInv'
    <2> SUFFICES ASSUME TypeInv, ClaimInv, [Next]_vars PROVE ClaimInv'
        OBVIOUS
    <2> DEFINE Kept == Holders' \subseteq Holders /\ row'.claim = row.claim
    <2>a. Kept \/ Holders' = {} => ClaimInv'
        BY DEF ClaimInv
    <2>b. /\ Workers \subseteq Procs /\ Handlers \subseteq Procs
          /\ \A h \in Handlers : h \notin Workers
        BY SyncAssumption DEF Procs
    <2>c. Syncing' \subseteq Syncing /\ UNCHANGED <<row, trespassed>> => Kept
        BY DEF Holders
    <2>1. ASSUME NEW w \in Workers, ClaimSync(w) PROVE ClaimInv'
        <3>1. Holders = {}
            BY <2>1 DEF ClaimSync, Claimable, ClaimInv
        <3>2. Syncing' = Syncing \cup {w} /\ row'.claim = "fresh"
            BY <2>1, <2>b DEF ClaimSync, Goto, Syncing, TypeInv, TypeOK, Rows
        <3>3. Holders' \subseteq {w}
            BY <2>1, <3>1, <3>2 DEF ClaimSync, Holders
        <3> QED BY <3>2, <3>3 DEF ClaimInv
    <2>2. ASSUME NEW w \in Workers, ReadRow(w) PROVE Kept
        <3>1. w \in Syncing
            BY <2>2 DEF ReadRow, Syncing
        <3>2. Syncing' \subseteq Syncing
            BY <2>2, <2>b, <3>1, OthersKeepSyncing DEF ReadRow
        <3> QED BY <2>2, <2>c, <3>2 DEF ReadRow
    <2>3. ASSUME NEW p \in Procs, Persist(p) PROVE Holders' = {}
        BY <2>3, WriteEndsClaims DEF Persist
    <2>4. ASSUME NEW h \in Handlers, Begin(h) PROVE Kept
        <3>1. \E s, r, t : Goto(h, s, r, t)
            BY <2>4 DEF Begin, RequestRun, RequestUpdate, RequestGraph, RequestWebhook
        <3>2. Syncing' \subseteq Syncing
            BY <2>b, <3>1, OthersKeepSyncing
        <3> QED BY <2>4, <2>c, <3>2 DEF Begin, RequestRun, RequestUpdate, RequestGraph, RequestWebhook
    <2>5. ASSUME NEW h \in Handlers, UpdateWrite(h) \/ GraphWrite(h) PROVE Holders' = {}
        <3>1. (\E r : WriteRow(h, r)) /\ Return(h)
            BY <2>5 DEF UpdateWrite, GraphWrite
        <3> QED BY <2>b, <3>1, WriteEndsClaims
    <2>6. ASSUME NEW h \in Handlers, Lookup(h) \/ LookupFails(h) \/ Ingest(h) PROVE Kept
        <3>1. \E s, r, t : Goto(h, s, r, t)
            BY <2>6 DEF Lookup, LookupFails, Ingest, Return
        <3>2. Syncing' \subseteq Syncing
            BY <2>b, <3>1, OthersKeepSyncing
        <3> QED BY <2>6, <2>c, <3>2 DEF Lookup, LookupFails, Ingest
    <2>7. ASSUME NEW p \in Procs, Abort(p) PROVE Kept
        <3>1. Syncing' \subseteq Syncing /\ p \notin Syncing'
            BY <2>7, OthersKeepSyncing DEF Abort, Return
        <3> QED BY <2>7, <3>1 DEF Abort, Holders
    <2>8. ASSUME ClaimAges PROVE Holders' = {}
        BY <2>8 DEF ClaimAges, process, Holders, Syncing
    <2>9. ASSUME NextComesDue PROVE Kept
        <3>1. row'.claim = row.claim
            BY <2>9 DEF NextComesDue, TypeInv, TypeOK, Rows
        <3>2. Holders' = Holders
            BY <2>9 DEF NextComesDue, process, Holders, Syncing
        <3> QED BY <3>1, <3>2
    <2>10. ASSUME UNCHANGED vars PROVE Kept
        BY <2>10 DEF vars, Holders, Syncing
    <2> HIDE DEF Kept
    <2> QED BY <2>1, <2>2, <2>3, <2>4, <2>5, <2>6, <2>7, <2>8, <2>9, <2>10, <2>a, <2>b
           DEF Next, Tick, Serve
<1> QED BY <1>1, <1>2, SyncTypeInvariance, PTL DEF Spec

\* A worker nobody came between has the claim, and it is the only one.
THEOREM SyncExclusive == Spec => []SyncIsExclusive
<1>1. ClaimInv => SyncIsExclusive
    BY DEF ClaimInv, Holders, SyncIsExclusive
<1> QED BY <1>1, ClaimInvariance, PTL

----------------------------------------------------------------------------
(* Deduplication, where lookup and record use the same operation *)

\* Handlers that are past the lookup with delivery d.
Ingesting(d) == {h \in Handlers : pc[h] \in {"ingest", "work"} /\ task[h].delivery = d}

Known(d) == [operation |-> "header", delivery |-> d] \in runs

\* Either nobody has d, or one handler has it that nobody else had before; and
\* a change set was made only by who has it or has recorded it.
OnceInv(d) ==
    /\ \A g, h \in Ingesting(d) : g = h
    /\ Known(d) => Ingesting(d) = {}
    /\ changes[d] <= 1
    /\ changes[d] = 1 => Known(d) \/ \E h \in Ingesting(d) : pc[h] = "work"

\* Workers have no delivery, and what is recorded is what is looked up.
TaskInv ==
    /\ \A w \in Workers : task[w] = NoTask
    /\ \A p \in Procs : task[p].operation = "header"

DedupInv ==
    /\ TaskInv
    /\ \A d \in Deliveries \ interrupted : OnceInv(d)

LEMMA TaskStep ==
    ASSUME Provider = "github", TypeInv, TaskInv, [Next]_vars
    PROVE TaskInv'
<1>a. /\ Workers \subseteq Procs /\ Handlers \subseteq Procs
      /\ \A h \in Handlers : h \notin Workers
      /\ NoTask.operation = "header" /\ task \in [Procs -> Tasks]
    BY SyncAssumption DEF Procs, NoTask, TypeInv, TypeOK
<1> DEFINE Moved == \E p \in Procs : \E s, r, t :
        /\ Goto(p, s, r, t)
        /\ t.operation = "header"
        /\ p \in Workers => t = NoTask
<1>1. Moved => TaskInv'
    BY <1>a DEF Goto, TaskInv
<1>2. ASSUME NEW p \in Procs, Return(p) PROVE Moved
    BY <1>2, <1>a DEF Return
<1>3. ASSUME NEW w \in Workers, Tick(w) PROVE Moved
    BY <1>3, <1>2, <1>a DEF Tick, ClaimSync, ReadRow, Persist, TaskInv
<1>4. ASSUME NEW h \in Handlers, Begin(h) PROVE Moved
    <2>1. \A d : [NoTask EXCEPT !.delivery = d].operation = "header"
        BY DEF NoTask
    <2> QED BY <1>4, <1>a, <2>1 DEF Begin, RequestRun, RequestUpdate, RequestGraph, RequestWebhook
<1>5. ASSUME NEW h \in Handlers, Serve(h) \/ LookupFails(h) PROVE Moved
    <2>1. [task[h] EXCEPT !.operation = ParsedOperation].operation = "header"
        BY <1>a DEF ParsedOperation, Tasks
    <2>2. task[h].operation = "header"
        BY <1>a DEF TaskInv
    <2>3. UpdateWrite(h) \/ GraphWrite(h) \/ Persist(h) => Return(h)
        BY DEF UpdateWrite, GraphWrite, Persist
    <2>4. Lookup(h) \/ LookupFails(h) => Return(h) \/ Goto(h, "ingest", held[h], task[h])
        BY DEF Lookup, LookupFails
    <2>5. Ingest(h) => \/ Goto(h, "work", held[h], task[h])
                       \/ Goto(h, "work", held[h], [task[h] EXCEPT !.operation = ParsedOperation])
        BY DEF Ingest
    <2> HIDE DEF Moved
    <2>6. \A s, r, t : Goto(h, s, r, t) /\ t.operation = "header" => Moved
        BY <1>a DEF Moved
    <2> QED BY <1>5, <1>2, <1>a, <2>1, <2>2, <2>3, <2>4, <2>5, <2>6 DEF Serve
<1>6. ASSUME NEW p \in Procs, Abort(p) PROVE Moved
    BY <1>6, <1>2 DEF Abort
<1>7. ASSUME ClaimAges \/ NextComesDue \/ UNCHANGED vars PROVE TaskInv'
    BY <1>7 DEF ClaimAges, NextComesDue, process, vars, TaskInv
<1> HIDE DEF Moved
<1> QED BY <1>1, <1>3, <1>4, <1>5, <1>6, <1>7 DEF Next

\* A process that has d neither before nor after its step does not disturb it.
LEMMA BystanderStep ==
    ASSUME TypeInv, NEW d \in Deliveries, OnceInv(d),
           NEW p \in Procs, NEW s, NEW r, NEW t, Goto(p, s, r, t),
           p \notin Ingesting(d),
           p \notin Handlers \/ s \notin {"ingest", "work"} \/ t.delivery # d,
           Known(d)' = Known(d), changes'[d] = changes[d]
    PROVE OnceInv(d)'
<1>1. Ingesting(d)' = Ingesting(d)
    BY DEF Goto, Ingesting, TypeInv, TypeOK, Procs
<1>2. \A h \in Ingesting(d) : pc'[h] = pc[h]
    BY DEF Goto, Ingesting, TypeInv, TypeOK, Procs
<1> QED BY <1>1, <1>2 DEF OnceInv

LEMMA DedupStep ==
    ASSUME Provider = "github", TypeInv, DedupInv, [Next]_vars
    PROVE DedupInv'
<1>1. TaskInv'
    BY TaskStep DEF DedupInv
<1> SUFFICES ASSUME NEW d \in Deliveries, d \notin interrupted' PROVE OnceInv(d)'
    BY <1>1, SyncNextTypes DEF DedupInv, TypeInv, TypeOK
<1>a. /\ Workers \subseteq Procs /\ Handlers \subseteq Procs
      /\ \A w \in Workers : w \notin Handlers /\ w \notin Ingesting(d)
      /\ NoTask.delivery # d /\ NoTask.delivery = NoDelivery
      /\ task \in [Procs -> Tasks] /\ pc \in [Procs -> Steps]
      /\ changes \in [Deliveries -> 0..2] /\ interrupted \subseteq Deliveries
    BY SyncAssumption DEF Procs, NoTask, TypeInv, TypeOK, Ingesting
<1>2. d \notin interrupted
    BY DEF Next, Tick, Begin, Serve, ClaimSync, ReadRow, Persist, RequestRun, RequestUpdate,
           RequestGraph, RequestWebhook, UpdateWrite, GraphWrite, Lookup, LookupFails, Ingest, Abort, ClaimAges,
           NextComesDue, webhooks, process, vars
<1>3. OnceInv(d) /\ TaskInv
    BY <1>2 DEF DedupInv
<1>4. UNCHANGED <<runs, changes>> => Known(d)' = Known(d) /\ changes'[d] = changes[d]
    BY DEF Known
<1>5. ASSUME NEW w \in Workers, Tick(w) PROVE OnceInv(d)'
    <2>1. \E s, r, t : Goto(w, s, r, t)
        BY <1>5 DEF Tick, ClaimSync, ReadRow, Persist, Return
    <2>2. Recorded(task[w]) = {}
        BY <1>3, <1>a DEF TaskInv, Recorded
    <2>3. UNCHANGED <<runs, changes>>
        BY <1>5, <2>2 DEF Tick, ClaimSync, ReadRow, Persist, webhooks
    <2> QED BY <1>3, <1>4, <1>a, <2>1, <2>3, BystanderStep
<1>6. ASSUME NEW h \in Handlers, Begin(h) PROVE OnceInv(d)'
    <2>1. h \notin Ingesting(d)
        BY <1>6 DEF Begin, RequestRun, RequestUpdate, RequestGraph, RequestWebhook, Ingesting
    <2>2. \E s, r, t : Goto(h, s, r, t) /\ (s \notin {"ingest", "work"} \/ t.delivery # d)
        <3>1. CASE RequestRun(h)
            BY <3>1, <1>a DEF RequestRun
        <3>2. CASE RequestUpdate(h)
            BY <3>2 DEF RequestUpdate
        <3>5. CASE RequestGraph(h)
            BY <3>5 DEF RequestGraph
        <3>3. ASSUME NEW e \in Deliveries, RequestWebhook(h, e)
              PROVE \/ Goto(h, "lookup", row, [NoTask EXCEPT !.delivery = e])
                    \/ Goto(h, "work", row, NoTask)
            BY <3>3 DEF RequestWebhook
        <3>4. "lookup" \notin {"ingest", "work"}
            OBVIOUS
        <3> QED BY <1>6, <1>a, <3>1, <3>2, <3>3, <3>4, <3>5 DEF Begin
    <2>3. UNCHANGED <<runs, changes>>
        BY <1>6 DEF Begin, RequestRun, RequestUpdate, RequestGraph, RequestWebhook, webhooks
    <2> QED BY <1>3, <1>4, <1>a, <2>1, <2>2, <2>3, BystanderStep
<1>7. ASSUME NEW h \in Handlers, UpdateWrite(h) \/ GraphWrite(h) PROVE OnceInv(d)'
    <2>1. h \notin Ingesting(d) /\ UNCHANGED <<runs, changes>> /\ Return(h)
        BY <1>7 DEF UpdateWrite, GraphWrite, Ingesting, webhooks
    <2> QED BY <1>3, <1>4, <1>a, <2>1, BystanderStep DEF Return
<1>8. ASSUME NEW h \in Handlers, task[h].delivery # d,
             Lookup(h) \/ LookupFails(h) \/ Ingest(h) \/ Persist(h)
      PROVE OnceInv(d)'
    <2>1. h \notin Ingesting(d) /\ task[h] \in Tasks
        BY <1>8, <1>a DEF Ingesting
    <2>2. [task[h] EXCEPT !.operation = ParsedOperation].delivery = task[h].delivery
        BY <2>1 DEF Tasks
    <2>3. \E s, r, t : Goto(h, s, r, t) /\ (s \notin {"ingest", "work"} \/ t.delivery # d)
        <3>1. Persist(h) => Goto(h, "idle", NoCopy, NoTask)
            BY DEF Persist, Return
        <3>2. Lookup(h) \/ LookupFails(h) =>
                Goto(h, "idle", NoCopy, NoTask) \/ Goto(h, "ingest", held[h], task[h])
            BY DEF Lookup, LookupFails, Return
        <3>3. Ingest(h) => \/ Goto(h, "work", held[h], task[h])
                           \/ Goto(h, "work", held[h], [task[h] EXCEPT !.operation = ParsedOperation])
            BY DEF Ingest
        <3>4. Goto(h, "idle", NoCopy, NoTask) \/ (\E s, t : Goto(h, s, held[h], t) /\ t.delivery # d)
            BY <1>8, <2>2, <3>1, <3>2, <3>3, Zenon
        <3>5. "idle" \notin {"ingest", "work"}
            OBVIOUS
        <3> QED BY <3>4, <3>5, Zenon
    <2>4. Persist(h) => Known(d)' = Known(d)
        BY <1>8, <2>1 DEF Persist, Recorded, Known
    <2>5. ~Persist(h) => UNCHANGED runs
        BY <1>8 DEF Lookup, LookupFails, Ingest
    <2>6. changes'[d] = changes[d]
        BY <1>8, <1>a DEF Lookup, LookupFails, Ingest, Persist
    <2>7. Known(d)' = Known(d)
        BY <2>4, <2>5 DEF Known
    <2> QED BY <1>3, <1>a, <2>1, <2>3, <2>6, <2>7, BystanderStep
<1>9. ASSUME NEW h \in Handlers, task[h].delivery = d, Lookup(h) PROVE OnceInv(d)'
    <2>1. h \notin Ingesting(d) /\ UNCHANGED <<runs, changes>>
        BY <1>9 DEF Lookup, Ingesting
    <2>2. CASE Duplicate(d)
        BY <1>3, <1>4, <1>9, <1>a, <2>1, <2>2, BystanderStep DEF Lookup, Return
    <2>3. CASE ~Duplicate(d)
        <3>1. Goto(h, "ingest", held[h], task[h]) /\ Others(h, d) = {}
            BY <1>9, <2>3 DEF Lookup
        <3>2. Ingesting(d) = {}
            BY <2>1, <3>1 DEF Others, Ingesting
        <3>3. Ingesting(d)' \subseteq {h}
            BY <1>a, <3>1, <3>2 DEF Goto, Ingesting
        <3>4. ~Known(d) /\ changes[d] = 0
            BY <1>3, <1>a, <2>3, <3>2 DEF OnceInv, Known, Duplicate
        <3> QED BY <1>4, <2>1, <3>3, <3>4 DEF OnceInv
    <2> QED BY <2>2, <2>3
<1>10. ASSUME NEW h \in Handlers, task[h].delivery = d, Ingest(h) PROVE OnceInv(d)'
    <2>1. h \in Ingesting(d) /\ pc[h] = "ingest" /\ UNCHANGED runs
        BY <1>10 DEF Ingest, Ingesting
    <2>2. ~Known(d) /\ changes[d] = 0
        BY <1>3, <1>a, <2>1 DEF OnceInv
    <2>3. ~Known(d)'
        BY <2>1, <2>2 DEF Known
    <2>4. changes'[d] \in {0, 1}
        BY <1>10, <1>a, <2>2 DEF Ingest
    <2>5. task[h] \in Tasks
        BY <1>a
    <2>6. pc' = [pc EXCEPT ![h] = "work"] /\ task'[h].delivery = d
          /\ \A g \in Handlers \ {h} : task'[g] = task[g]
        BY <1>10, <1>a, <2>5 DEF Ingest, Goto, Tasks
    <2>7. Ingesting(d)' = Ingesting(d) /\ pc'[h] = "work"
        BY <1>a, <2>1, <2>6 DEF Ingesting
    <2> QED BY <1>3, <2>1, <2>3, <2>4, <2>7 DEF OnceInv
<1>11. ASSUME NEW h \in Handlers, task[h].delivery = d, Persist(h) PROVE OnceInv(d)'
    <2>1. h \in Ingesting(d) /\ UNCHANGED changes
        BY <1>11 DEF Persist, Ingesting
    <2>2. Ingesting(d)' = {}
        BY <1>3, <1>11, <1>a, <2>1 DEF OnceInv, Persist, Return, Goto, Ingesting
    <2>3. Known(d)'
        <3>1. task[h].operation = "header" /\ d # NoDelivery
            BY <1>3, <1>a DEF TaskInv
        <3> QED BY <1>11, <3>1 DEF Persist, Recorded, Known
    <2> QED BY <1>3, <2>1, <2>2, <2>3 DEF OnceInv
<1>12. ASSUME NEW h \in Handlers, LookupFails(h) PROVE task[h].delivery # d
    BY <1>12 DEF LookupFails
<1>13. ASSUME NEW p \in Procs, Abort(p) PROVE OnceInv(d)'
    <2>1. task[p].delivery # d
        BY <1>13, <1>a DEF Abort
    <2>2. p \notin Ingesting(d) /\ UNCHANGED <<runs, changes>>
        BY <1>13, <2>1 DEF Abort, Ingesting
    <2> QED BY <1>3, <1>4, <1>13, <2>2, BystanderStep DEF Abort, Return
<1>14. ASSUME ClaimAges \/ NextComesDue \/ UNCHANGED vars PROVE OnceInv(d)'
    BY <1>3, <1>14 DEF ClaimAges, NextComesDue, webhooks, process, vars, OnceInv, Ingesting, Known
<1> QED BY <1>5, <1>6, <1>7, <1>8, <1>9, <1>10, <1>11, <1>12, <1>13, <1>14 DEF Next, Serve

LEMMA DedupInit == Provider = "github" /\ Init => DedupInv
BY DEF Init, DedupInv, TaskInv, OnceInv, Ingesting, Known, NoTask, Procs

\* A GitHub delivery becomes one change set at most, however often it is sent and
\* whatever happens to the other deliveries.
THEOREM GitHubIngestedOnce == Provider = "github" /\ Spec => []IngestedOnce
<1>1. Provider = "github" /\ Init => DedupInv
    BY DedupInit
<1>2. Provider = "github" /\ TypeInv /\ DedupInv /\ [Next]_vars => DedupInv'
    BY DedupStep
<1>3. DedupInv => IngestedOnce
    BY DEF DedupInv, OnceInv, IngestedOnce
<1>4. Provider = "github" => (Provider = "github")'
    OBVIOUS
<1> QED BY <1>1, <1>2, <1>3, <1>4, SyncTypeInvariance, PTL DEF Spec
=============================================================================
