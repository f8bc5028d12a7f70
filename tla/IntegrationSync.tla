-------------------------- MODULE IntegrationSync --------------------------
(***************************************************************************)
(* One integration row: scheduled syncs by workers, syncs and connection   *)
(* tests by operators, configuration changes, graphs that clients report   *)
(* to it, and webhook deliveries.                                          *)
(*                                                                         *)
(* A worker claims a due sync in one conditional statement.  Everything    *)
(* else reads the row, works (seconds of provider calls), and writes EVERY *)
(* column back from its copy, mostly with the outcome of the run and a new *)
(* due time (persistIntegrationRun).                                       *)
(*                                                                         *)
(*   row            the integration                                        *)
(*   runs, changes  the recorded webhook runs; per delivery the change     *)
(*                  sets made of it                                        *)
(*   pc, held, task each process: its step, its copy of the row, its work  *)
(*   trespassed     history: the workers at a scheduled sync whose claim   *)
(*                  grew old or whose row somebody else wrote meanwhile    *)
(*   interrupted    history: the deliveries whose handling overlapped,     *)
(*                  was cut short or could not look up earlier runs        *)
(*   budget         how many more requests and faults may occur            *)
(***************************************************************************)
EXTENDS Integers, FiniteSets

CONSTANTS
    Workers,          \* control-loop processes
    Handlers,         \* API handlers
    Deliveries,       \* delivery ids of the provider
    NoDelivery,       \* the run of something else than an accepted delivery
    Provider,         \* "github" or "gitlab"
    Configurations,   \* how the integration may be created
    Updates,          \* what operators ask UpdateIntegration for
    RequestKinds,     \* what API requests do
    MaxDisturbances   \* bound on requests and faults

ASSUME SyncAssumption ==
    /\ Workers \cap Handlers = {}
    /\ NoDelivery \notin Deliveries
    /\ Provider \in {"github", "gitlab"}
    /\ Configurations \subseteq [enabled : BOOLEAN, scheduled : BOOLEAN, control : BOOLEAN]
    /\ Updates \subseteq [enabled : {"keep", "on", "off"}, scheduled : {"keep", "on", "off"},
                          control : {"keep", "on", "off"}]
    /\ RequestKinds \subseteq {"run", "update", "graph", "webhook"}
    /\ MaxDisturbances \in Nat

VARIABLES row, runs, changes, pc, held, task, trespassed, interrupted, budget

process == <<pc, held, task>>
webhooks == <<runs, changes, interrupted>>
vars == <<row, runs, changes, pc, held, task, trespassed, interrupted, budget>>

Procs == Workers \cup Handlers

\* control: mode is active_control and control_enabled. claim: none, younger or
\* older than two minutes. next: next_scheduled_sync_at is null, lies ahead, has
\* come.
Rows == [enabled : BOOLEAN, scheduled : BOOLEAN, control : BOOLEAN,
         claim : {"none", "fresh", "stale"}, next : {"none", "later", "due"}]

\* A webhook run is found again by its operation, which is made of the event
\* header or is the parser's name for the event.
Operations == {"header", "parsed"}
Runs == [operation : Operations, delivery : Deliveries]

Steps == {"idle", "read", "work", "update", "graph", "lookup", "ingest"}

\* What the run is about that a process will record.
Tasks == [delivery : Deliveries \cup {NoDelivery}, operation : Operations]

NoTask == [delivery |-> NoDelivery, operation |-> "header"]

\* What a process holds that has no copy.
NoCopy == [enabled |-> FALSE, scheduled |-> FALSE, control |-> FALSE,
           claim |-> "none", next |-> "none"]

\* Slip: switching an integration off leaves its schedule alone.
WithScheduleKept(r) ==
    IF r.enabled /\ r.scheduled /\ r.next = "none" THEN {[r EXCEPT !.next = "due"]} ELSE {r}

\* applyIntegrationScheduleDefaults: the due time follows the schedule; a new
\* schedule is due at once, or an interval after the last success if there was
\* one.
WithSchedule(r) ==
    IF ~r.enabled \/ ~r.scheduled
    THEN {[r EXCEPT !.next = "none", !.claim = "none"]}
    ELSE IF r.next # "none" THEN {r}
    ELSE {[r EXCEPT !.next = n] : n \in {"later", "due"}}

\* A disabled integration has neither schedule nor control.
Governed(r) ==
    [r EXCEPT !.scheduled = r.enabled /\ @, !.control = r.enabled /\ @]

InitialRows ==
    UNION {WithSchedule(Governed([NoCopy EXCEPT !.enabled = c.enabled,
                                                !.scheduled = c.scheduled,
                                                !.control = c.control]))
           : c \in Configurations}

Init ==
    /\ row \in InitialRows
    /\ runs = {}
    /\ changes = [d \in Deliveries |-> 0]
    /\ pc = [p \in Procs |-> "idle"]
    /\ held = [p \in Procs |-> NoCopy]
    /\ task = [p \in Procs |-> NoTask]
    /\ trespassed = {}
    /\ interrupted = {}
    /\ budget = MaxDisturbances

----------------------------------------------------------------------------
Disturb == budget > 0 /\ budget' = budget - 1

\* p moves to step s with the copy r and the task t.
Goto(p, s, r, t) ==
    /\ pc' = [pc EXCEPT ![p] = s]
    /\ held' = [held EXCEPT ![p] = r]
    /\ task' = [task EXCEPT ![p] = t]

Return(p) == Goto(p, "idle", NoCopy, NoTask)

\* The workers between their claim and the end of the run.
Syncing == {w \in Workers : pc[w] \in {"read", "work"}}

\* p writes the whole row: whoever else is at a scheduled sync loses his claim.
WriteRow(p, r) ==
    /\ row' = r
    /\ trespassed' = (trespassed \cup Syncing) \ {p}

\* What a copy reads like when it is written: time has passed.
Elapsed(r) ==
    [enabled : {r.enabled}, scheduled : {r.scheduled}, control : {r.control},
     claim : IF r.claim = "fresh" THEN {"fresh", "stale"} ELSE {r.claim},
     next : IF r.next = "later" THEN {"later", "due"} ELSE {r.next}]

----------------------------------------------------------------------------
(* The worker: ClaimScheduledIntegrationSync, RunScheduledIntegrationSync  *)

\* Slips: claims are not looked at; a claim is never taken over.
ClaimableAnyway(r) == r.enabled /\ r.scheduled /\ r.next = "due"
ClaimableOnce(r) == r.enabled /\ r.scheduled /\ r.next = "due" /\ r.claim = "none"

Claimable(r) == r.enabled /\ r.scheduled /\ r.next = "due" /\ r.claim # "fresh"

ClaimSync(w) ==
    /\ pc[w] = "idle"
    /\ Claimable(row)
    /\ row' = [row EXCEPT !.claim = "fresh"]
    /\ Goto(w, "read", NoCopy, NoTask)
    /\ UNCHANGED <<webhooks, trespassed, budget>>

ReadRow(w) ==
    /\ pc[w] = "read"
    /\ Goto(w, "work", row, task[w])
    /\ UNCHANGED <<row, webhooks, trespassed, budget>>

----------------------------------------------------------------------------
(* persistIntegrationRun, at the end of a sync, a test or a delivery *)

\* A run of any kind and outcome gives the claim up and sets the due time anew:
\* now and the interval, or the backoff after an error.
AfterRun(r) ==
    [r EXCEPT !.claim = "none",
              !.next = IF r.enabled /\ r.scheduled THEN "later" ELSE "none"]

\* Slip: the two columns are swapped.
RecordedSwapped(t) ==
    IF t.delivery = NoDelivery THEN {} ELSE {[operation |-> t.delivery, delivery |-> t.operation]}

\* The run as far as a later delivery can find it.
Recorded(t) ==
    IF t.delivery = NoDelivery THEN {}
    ELSE {[operation |-> t.operation, delivery |-> t.delivery]}

Persist(p) ==
    /\ pc[p] = "work"
    /\ WriteRow(p, AfterRun(held[p]))
    /\ runs' = runs \cup Recorded(task[p])
    /\ Return(p)
    /\ UNCHANGED <<changes, interrupted, budget>>

----------------------------------------------------------------------------
(* API requests *)

\* SyncIntegration and TestIntegrationConnection: no claim is asked for.
RequestRun(h) ==
    /\ "run" \in RequestKinds
    /\ pc[h] = "idle"
    /\ Disturb
    /\ Goto(h, "work", row, NoTask)
    /\ UNCHANGED <<row, webhooks, trespassed>>

\* UpdateIntegration: read, change what the request names, write.
RequestUpdate(h) ==
    /\ "update" \in RequestKinds
    /\ pc[h] = "idle"
    /\ Disturb
    /\ Goto(h, "update", row, NoTask)
    /\ UNCHANGED <<row, webhooks, trespassed>>

Wanted(old, wish) == wish = "on" \/ (wish = "keep" /\ old)

Updated(r, u) ==
    WithSchedule(Governed([r EXCEPT !.enabled = Wanted(@, u.enabled),
                                    !.scheduled = Wanted(@, u.scheduled),
                                    !.control = Wanted(@, u.control)]))

UpdateWrite(h) ==
    /\ pc[h] = "update"
    /\ \E u \in Updates : \E now \in Elapsed(held[h]) : \E r \in Updated(now, u) :
        WriteRow(h, r)
    /\ Return(h)
    /\ UNCHANGED <<webhooks, budget>>

\* IngestIntegrationGraph: a long transaction on other tables that ends by writing the
\* row back as it was read before, claim and due time included.
RequestGraph(h) ==
    /\ "graph" \in RequestKinds
    /\ pc[h] = "idle"
    /\ Disturb
    /\ Goto(h, "graph", row, NoTask)
    /\ UNCHANGED <<row, webhooks, trespassed>>

GraphWrite(h) ==
    /\ pc[h] = "graph"
    /\ \E now \in Elapsed(held[h]) : WriteRow(h, now)
    /\ Return(h)
    /\ UNCHANGED <<webhooks, budget>>

----------------------------------------------------------------------------
(* HandleGitHubWebhook, HandleGitLabWebhook *)

\* A disabled integration only records that it ignored something.
RequestWebhook(h, d) ==
    /\ "webhook" \in RequestKinds
    /\ pc[h] = "idle"
    /\ Disturb
    /\ IF row.enabled
       THEN Goto(h, "lookup", row, [NoTask EXCEPT !.delivery = d])
       ELSE Goto(h, "work", row, NoTask)
    /\ UNCHANGED <<row, webhooks, trespassed>>

\* Slip: only what failed to parse is recognised as a duplicate.
DuplicateUnparsed(d) == [operation |-> "unparsed", delivery |-> d] \in runs

\* The delivery was seen before, as far as the operation made of the event
\* header tells.
Duplicate(d) == [operation |-> "header", delivery |-> d] \in runs

\* The name a parsed event is recorded under: GitHub's is the header's again,
\* GitLab's is not ("Push Hook" is looked up as push_hook, recorded as push).
ParsedOperation == IF Provider = "github" THEN "header" ELSE "parsed"

Others(h, d) == {g \in Handlers \ {h} : pc[g] \in {"ingest", "work"} /\ task[g].delivery = d}

Lookup(h) ==
    /\ pc[h] = "lookup"
    /\ LET d == task[h].delivery
       IN IF Duplicate(d)
          THEN Return(h) /\ UNCHANGED interrupted
          ELSE /\ Goto(h, "ingest", held[h], task[h])
               /\ interrupted' = IF Others(h, d) = {} THEN interrupted
                                 ELSE interrupted \cup {d}
    /\ UNCHANGED <<row, runs, changes, trespassed, budget>>

\* A lookup that fails is taken for one that found nothing.
LookupFails(h) ==
    /\ pc[h] = "lookup"
    /\ Disturb
    /\ Goto(h, "ingest", held[h], task[h])
    /\ interrupted' = interrupted \cup {task[h].delivery}
    /\ UNCHANGED <<row, runs, changes, trespassed>>

\* The payload is parsed, which may take a provider call and fail; an event that
\* describes a change of a mapped repository makes a change set. What comes
\* before or after that write may fail, too.
Ingest(h) ==
    /\ pc[h] = "ingest"
    /\ \/ Goto(h, "work", held[h], task[h]) /\ UNCHANGED changes
       \/ /\ Goto(h, "work", held[h], [task[h] EXCEPT !.operation = ParsedOperation])
          /\ \/ UNCHANGED changes
             \/ changes' = [changes EXCEPT ![task[h].delivery] = IF @ < 2 THEN @ + 1 ELSE 2]
    /\ UNCHANGED <<row, runs, trespassed, interrupted, budget>>

----------------------------------------------------------------------------
(* Faults and time *)

\* The process dies or a statement fails; what it wrote stays.
Abort(p) ==
    /\ pc[p] # "idle"
    /\ Disturb
    /\ Return(p)
    /\ trespassed' = trespassed \ {p}
    /\ interrupted' = IF task[p].delivery = NoDelivery THEN interrupted
                      ELSE interrupted \cup {task[p].delivery}
    /\ UNCHANGED <<row, runs, changes>>

\* Two minutes pass since the claim: its worker is dead or takes longer.
ClaimAges ==
    /\ row.claim = "fresh"
    /\ row' = [row EXCEPT !.claim = "stale"]
    /\ IF Syncing \subseteq trespassed THEN UNCHANGED budget ELSE Disturb
    /\ trespassed' = trespassed \cup Syncing
    /\ UNCHANGED <<webhooks, process>>

NextComesDue ==
    /\ row.next = "later"
    /\ row' = [row EXCEPT !.next = "due"]
    /\ UNCHANGED <<webhooks, process, trespassed, budget>>

----------------------------------------------------------------------------
Tick(w) == ClaimSync(w) \/ ReadRow(w) \/ Persist(w)

Begin(h) ==
    \/ RequestRun(h)
    \/ RequestUpdate(h)
    \/ RequestGraph(h)
    \/ \E d \in Deliveries : RequestWebhook(h, d)

Serve(h) == UpdateWrite(h) \/ GraphWrite(h) \/ Lookup(h) \/ Ingest(h) \/ Persist(h)

Next ==
    \/ \E w \in Workers : Tick(w)
    \/ \E h \in Handlers : Begin(h) \/ Serve(h) \/ LookupFails(h)
    \/ \E p \in Procs : Abort(p)
    \/ ClaimAges
    \/ NextComesDue

Spec == Init /\ [][Next]_vars

\* Workers tick for ever, what was begun is carried to its end, time passes.
FairSpec ==
    /\ Spec
    /\ \A w \in Workers : WF_vars(Tick(w))
    /\ \A h \in Handlers : WF_vars(Serve(h))
    /\ WF_vars(ClaimAges)

----------------------------------------------------------------------------
(* Properties *)

\* The row, its copies and the recorded runs have the columns of
\* types.Integration and types.IntegrationSyncRun in their ranges.
TypeOK ==
    /\ row \in Rows
    /\ runs \subseteq Runs
    /\ changes \in [Deliveries -> 0..2]
    /\ pc \in [Procs -> Steps]
    /\ held \in [Procs -> Rows]
    /\ task \in [Procs -> Tasks]
    /\ trespassed \subseteq Workers /\ interrupted \subseteq Deliveries
    /\ budget \in Nat

\* No disabled integration is in control or scheduled, what is scheduled has a
\* due time, and only what is scheduled is claimed.
Consistent(r) ==
    /\ r.control \/ r.scheduled => r.enabled
    /\ r.scheduled <=> r.next # "none"
    /\ r.claim # "none" => r.scheduled

\* However many whole-row writes and claims race, schedule, claim and due time of
\* the integration fit together.
ScheduleIsConsistent == Consistent(row)

\* No two workers are at the scheduled sync at once, unless a claim grew old or
\* somebody without a claim wrote the row (ADR 0031: duplicate-claim prevention).
SyncIsExclusive ==
    \A v, w \in Syncing \ trespassed : v = w

\* A delivery makes one change set at most however often it is repeated, unless
\* two handlers had it at once, a handler died with it or could not look it up.
IngestedOnce ==
    \A d \in Deliveries \ interrupted : changes[d] <= 1

\* A due sync does not stay due for ever, whoever died with its claim.
DueSyncIsRun == row.next = "due" ~> row.next # "due"

=============================================================================
