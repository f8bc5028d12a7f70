------------------------- MODULE DatabaseGovernance -------------------------
(***************************************************************************)
(* Database governance of one change set in one environment: connection    *)
(* references and their health tests, validation checks and their runtime  *)
(* executions, database changes.                                           *)
(*                                                                         *)
(* Every handler reads rows, works on its copies (a test or an execution   *)
(* holds them while it talks to the external database) and writes whole    *)
(* rows back, one statement each, without a condition or a transaction.    *)
(* The step of a request is the next statement it will issue.              *)
(*                                                                         *)
(*   connections, checks, changes   the tables: a row or Null per id       *)
(*   production     whether the environment is a production one            *)
(*   tests, runs    the newest started connection test per connection and  *)
(*                  the newest started execution per check                 *)
(*   request        per operator: the step and the copies it holds         *)
(*   probed         history: <<connection, source>> a read-only            *)
(*                  transaction was opened on                              *)
(*   proved         history: the checks that passed, as they were executed *)
(*   lenient        history: the changes whose newest write went by an     *)
(*                  environment that was not a production one              *)
(*   budget         how many more edits, tests and executions may start    *)
(***************************************************************************)
EXTENDS Naturals

CONSTANTS
    Operators,      \* API requests in flight
    Connections,    \* ids of connection references
    Checks,         \* ids of validation checks
    Changes,        \* ids of database changes
    Sources,        \* what a connection is opened with: driver, DSN env or secret
    Unbound,        \* sources that are secret references without an env binding
    Unset,          \* sources whose env variable has no value in this process
    CheckShapes,    \* mode, phase and requiredness a check is given
    Attested,       \* statuses operators set on other checks than runtime ones
    ChangeFacts,    \* classifications a database change is given
    Null,           \* no row, no reference
    MaxRequests     \* bound on edits, tests and executions

ASSUME DatabaseAssumption ==
    /\ Unbound \subseteq Sources /\ Unset \subseteq Sources
    /\ CheckShapes \subseteq
         [mode : {"manual_attestation", "advisory_only", "runtime_read_only"},
          phase : {"pre_deploy", "post_deploy", "rollback"}, required : BOOLEAN]
    /\ Attested \subseteq {"defined", "passed", "failed", "blocked", "advisory_only"}
    /\ ChangeFacts \subseteq
         [operation : {"schema_change", "data_backfill", "index_change",
                       "destructive_change", "expand_contract"},
          compatibility : {"backward_compatible", "expand_contract", "forward_incompatible"},
          reversibility : {"reversible", "irreversible", "manual_only"},
          lockRisk : BOOLEAN]
    /\ Null \notin Connections \cup Changes
    /\ MaxRequests \in Nat

VARIABLES connections, checks, changes, production, tests, runs, request,
          probed, proved, lenient, budget

tables == <<connections, checks, changes, production>>
evidence == <<tests, runs>>
history == <<probed, proved, lenient>>
vars == <<connections, checks, changes, production, tests, runs, request,
          probed, proved, lenient, budget>>

\* "unsupported" is a status, too, but no handler stores a source of another type.
ConnectionRows ==
    [source : Sources, status : {"defined", "testing", "ready", "error", "unresolved"}]

CheckRows ==
    [shape : CheckShapes, connection : Connections \cup {Null},
     status : {"defined", "passed", "failed", "blocked"} \cup Attested]

ChangeRows == [facts : ChangeFacts, manual : BOOLEAN]

ASSUME NullIsNoRow == Null \notin ConnectionRows \cup CheckRows

Outcomes == {"running", "passed", "failed", "blocked", "errored"}

\* What a check checks, its type and specification, is left out: an unacceptable
\* one is refused, and nothing else depends on it.

\* The newest test or execution: whose request it is and how it stands.
Evidence == [by : Operators, status : Outcomes]

Steps == {"idle", "edit_connection", "edit_check", "announce_test", "probe",
          "store_health", "execute", "store_run_health", "store_check", "store_change"}

Requests ==
    [step : Steps, connection : Connections \cup {Null}, check : Checks \cup {Null},
     connectionRow : ConnectionRows \cup {Null}, checkRow : CheckRows \cup {Null},
     change : Changes \cup {Null}, production : BOOLEAN]

Idle == [step |-> "idle", connection |-> Null, check |-> Null,
         connectionRow |-> Null, checkRow |-> Null, change |-> Null, production |-> FALSE]

Init ==
    /\ connections = [c \in Connections |-> Null]
    /\ checks = [k \in Checks |-> Null]
    /\ changes = [d \in Changes |-> Null]
    /\ production \in BOOLEAN
    /\ tests = [c \in Connections |-> Null]
    /\ runs = [k \in Checks |-> Null]
    /\ request = [o \in Operators |-> Idle]
    /\ probed = {}
    /\ proved = {}
    /\ lenient = {}
    /\ budget = MaxRequests

----------------------------------------------------------------------------
(* The store: every update names all columns and only the id in its WHERE. *)

WriteConnection(c, row) == connections' = [connections EXCEPT ![c] = row]

WriteCheck(k, row) == checks' = [checks EXCEPT ![k] = row]

WriteChange(d, row) == changes' = [changes EXCEPT ![d] = row]

\* Started tests and executions are ordered by started_at; an outcome is stored
\* in the record of the request and shows only if no newer one was started.
Started(newest, id, o) == [newest EXCEPT ![id] = [by |-> o, status |-> "running"]]

Settled(newest, id, o, outcome) ==
    IF newest[id] # Null /\ newest[id].by = o
    THEN [newest EXCEPT ![id].status = outcome]
    ELSE newest

Begin(o, r) ==
    /\ request[o] = Idle
    /\ budget > 0
    /\ budget' = budget - 1
    /\ request' = [request EXCEPT ![o] = r]

At(o, step) == request[o].step = step

Advance(o, r) == request' = [request EXCEPT ![o] = r] /\ UNCHANGED budget

Finish(o) == Advance(o, Idle)

----------------------------------------------------------------------------
(* Connection references *)

Resolvable(source) == source \notin Unbound \cup Unset

BaseStatus(source) == IF source \in Unbound THEN "unresolved" ELSE "defined"

\* resetDatabaseConnectionHealth
Untested(source) == [source |-> source, status |-> BaseStatus(source)]

CreateConnection(c) ==
    /\ connections[c] = Null
    /\ \E s \in Sources : WriteConnection(c, Untested(s))
    /\ UNCHANGED <<checks, changes, production, evidence, request, history, budget>>

BeginEditConnection(o, c) ==
    /\ connections[c] # Null
    /\ Begin(o, [Idle EXCEPT !.step = "edit_connection", !.connection = c,
                             !.connectionRow = connections[c]])
    /\ UNCHANGED <<tables, evidence, history>>

\* Slip: new inputs keep the health of the old ones.
PatchedKeepingHealth(row, s) == {[row EXCEPT !.source = s]}

\* databaseConnectionHealthInputsChanged decides whether the health is reset.
PatchedConnection(row, s) == {IF s = row.source THEN row ELSE Untested(s)}

EditConnection(o) ==
    /\ At(o, "edit_connection")
    /\ \E s \in Sources : \E row \in PatchedConnection(request[o].connectionRow, s) :
         WriteConnection(request[o].connection, row)
    /\ Finish(o)
    /\ UNCHANGED <<checks, changes, production, evidence, history>>

----------------------------------------------------------------------------
(* Connection tests *)

\* What a probe can say of a source, and the status the connection gets.
ProbeResults(source) ==
    IF Resolvable(source)
    THEN {[status |-> "passed", connection |-> "ready"],
          [status |-> "errored", connection |-> "error"]}
    ELSE {[status |-> "blocked", connection |-> "unresolved"]}

\* The read of the row and the insert of the test are one step: what happens in
\* between can as well have happened before both.
BeginTest(o, c) ==
    /\ connections[c] # Null
    /\ Begin(o, [Idle EXCEPT !.step = "announce_test", !.connection = c,
                             !.connectionRow = connections[c]])
    /\ tests' = Started(tests, c, o)
    /\ UNCHANGED <<tables, runs, history>>

AnnounceTest(o) ==
    LET r == request[o]
        testing == [r.connectionRow EXCEPT !.status = "testing"]
    IN  /\ At(o, "announce_test")
        /\ WriteConnection(r.connection, testing)
        /\ Advance(o, [r EXCEPT !.step = "probe", !.connectionRow = testing])
        /\ UNCHANGED <<checks, changes, production, evidence, history>>

Probe(o) ==
    LET r == request[o]
    IN  /\ At(o, "probe")
        /\ \E result \in ProbeResults(r.connectionRow.source) :
             /\ tests' = Settled(tests, r.connection, o, result.status)
             /\ Advance(o, [r EXCEPT !.step = "store_health",
                                     !.connectionRow.status = result.connection])
             /\ probed' = IF result.status = "passed"
                          THEN probed \cup {<<r.connection, r.connectionRow.source>>}
                          ELSE probed
        /\ UNCHANGED <<tables, runs, proved, lenient>>

StoreHealth(o) ==
    /\ At(o, "store_health")
    /\ WriteConnection(request[o].connection, request[o].connectionRow)
    /\ Finish(o)
    /\ UNCHANGED <<checks, changes, production, evidence, history>>

----------------------------------------------------------------------------
(* Validation checks *)

Runtime(row) == row.shape.mode = "runtime_read_only"

\* A check starts with the status its creator attests; a runtime check starts
\* defined. Whatever a runtime check is made of, it has a connection.
NewChecks ==
    {row \in CheckRows : IF Runtime(row)
                         THEN row.connection # Null /\ row.status = "defined"
                         ELSE row.status \in Attested}

CreateCheck(k) ==
    /\ checks[k] = Null
    /\ \E row \in NewChecks :
         /\ row.connection # Null => connections[row.connection] # Null
         /\ WriteCheck(k, row)
    /\ UNCHANGED <<connections, changes, production, evidence, request, history, budget>>

BeginEditCheck(o, k) ==
    /\ checks[k] # Null
    /\ Begin(o, [Idle EXCEPT !.step = "edit_check", !.check = k, !.checkRow = checks[k]])
    /\ UNCHANGED <<tables, evidence, history>>

\* Slip: a check that becomes a runtime check keeps its attested status.
PatchedKeepingStatus(row, modeGiven, statusGiven) ==
    {new \in CheckRows :
       /\ ~modeGiven => new.shape.mode = row.shape.mode
       /\ Runtime(new) => ~statusGiven /\ new.connection # Null
       /\ IF statusGiven THEN new.status \in Attested ELSE new.status = row.status}

\* The rows UpdateDatabaseValidationCheck may make of one. The status of a
\* runtime check cannot be set, and naming the runtime mode resets it; a patch
\* of what a runtime check checks leaves it as it is.
PatchedCheck(row, modeGiven, statusGiven) ==
    {new \in CheckRows :
       /\ ~modeGiven => new.shape.mode = row.shape.mode
       /\ Runtime(new) => ~statusGiven /\ new.connection # Null
       /\ CASE statusGiven -> new.status \in Attested
            [] ~statusGiven /\ modeGiven /\ Runtime(new) -> new.status = "defined"
            [] OTHER -> new.status = row.status}

EditCheck(o) ==
    /\ At(o, "edit_check")
    /\ \E modeGiven, statusGiven \in BOOLEAN :
       \E new \in PatchedCheck(request[o].checkRow, modeGiven, statusGiven) :
         /\ new.connection \notin {Null, request[o].checkRow.connection}
              => connections[new.connection] # Null
         /\ WriteCheck(request[o].check, new)
    /\ Finish(o)
    /\ UNCHANGED <<connections, changes, production, evidence, history>>

----------------------------------------------------------------------------
(* Runtime executions *)

\* An assertion holds or does not, the session cannot be opened or committed, or
\* a query fails on an open session.
ValidationResults(source) ==
    IF Resolvable(source)
    THEN {[status |-> "passed", connection |-> "ready"],
          [status |-> "failed", connection |-> "ready"],
          [status |-> "errored", connection |-> "error"],
          [status |-> "errored", connection |-> "ready"]}
    ELSE {[status |-> "blocked", connection |-> "unresolved"]}

\* Slip: the check gets the status of the execution.
RawVerdict(outcome) == outcome

Verdict(outcome) == IF outcome \in {"passed", "failed"} THEN outcome ELSE "blocked"

BeginExecution(o, k) ==
    /\ checks[k] # Null
    /\ Runtime(checks[k])
    /\ checks[k].connection # Null
    /\ Begin(o, [Idle EXCEPT !.step = "execute", !.check = k, !.checkRow = checks[k],
                             !.connection = checks[k].connection,
                             !.connectionRow = connections[checks[k].connection]])
    /\ runs' = Started(runs, k, o)
    /\ UNCHANGED <<tables, tests, history>>

ExecuteValidation(o) ==
    LET r == request[o]
    IN  /\ At(o, "execute")
        /\ \E result \in ValidationResults(r.connectionRow.source) :
             /\ runs' = Settled(runs, r.check, o, result.status)
             /\ Advance(o, [r EXCEPT !.step = "store_run_health",
                                     !.connectionRow.status = result.connection,
                                     !.checkRow.status = Verdict(result.status)])
             /\ probed' = IF result.connection = "ready"
                          THEN probed \cup {<<r.connection, r.connectionRow.source>>}
                          ELSE probed
             /\ proved' = IF result.status = "passed" THEN proved \cup {r.check} ELSE proved
        /\ UNCHANGED <<tables, tests, lenient>>

StoreRunHealth(o) ==
    /\ At(o, "store_run_health")
    /\ WriteConnection(request[o].connection, request[o].connectionRow)
    /\ Advance(o, [request[o] EXCEPT !.step = "store_check"])
    /\ UNCHANGED <<checks, changes, production, evidence, history>>

StoreCheck(o) ==
    /\ At(o, "store_check")
    /\ WriteCheck(request[o].check, request[o].checkRow)
    /\ Finish(o)
    /\ UNCHANGED <<connections, changes, production, evidence, history>>

----------------------------------------------------------------------------
(* Database changes *)

\* The risks databaseChangeRequiresManualApproval knows.
Risky(f) ==
    f.lockRisk \/ f.operation = "destructive_change" \/ f.reversibility = "irreversible"

\* Slip: what the request says of the approval is final.
PatchedAsAsked(f, asked, inProduction) == [facts |-> f, manual |-> asked]

\* asked: the request's flag, or the row's when the request has none.
PatchedChange(f, asked, inProduction) ==
    [facts |-> f, manual |-> asked \/ (inProduction /\ Risky(f))]

\* A change is created or updated by the environment as it was read. An update
\* reads the row of the change, too, but no row can result of a stale copy of it
\* that could not of a fresh one: the classification is whatever the patch makes it.
Judging(d) == [Idle EXCEPT !.step = "store_change", !.change = d, !.production = production]

BeginCreateChange(o, d) ==
    /\ request[o] = Idle
    /\ changes[d] = Null
    /\ \A p \in Operators : request[p].change # d
    /\ Advance(o, Judging(d))
    /\ UNCHANGED <<tables, evidence, history>>

BeginEditChange(o, d) ==
    /\ changes[d] # Null
    /\ Begin(o, Judging(d))
    /\ UNCHANGED <<tables, evidence, history>>

StoreChange(o) ==
    LET r == request[o]
    IN  /\ At(o, "store_change")
        /\ \E f \in ChangeFacts, asked \in BOOLEAN :
             WriteChange(r.change, PatchedChange(f, asked, r.production))
        /\ lenient' = IF r.production THEN lenient \ {r.change} ELSE lenient \cup {r.change}
        /\ Finish(o)
        /\ UNCHANGED <<connections, checks, production, evidence, probed, proved>>

\* The flag is the request's, or that of a copy of the row which may be stale. The
\* stored changes are not judged again.
UpdateEnvironment ==
    /\ budget > 0
    /\ budget' = budget - 1
    /\ production' \in BOOLEAN
    /\ UNCHANGED <<connections, checks, changes, evidence, request, history>>

----------------------------------------------------------------------------
\* The process dies or a statement fails: the rest of the request is not done,
\* and nothing ever does it.
Abandon(o) ==
    /\ request[o] # Idle
    /\ Finish(o)
    /\ UNCHANGED <<tables, evidence, history>>

Next ==
    \/ \E c \in Connections : CreateConnection(c)
    \/ \E k \in Checks : CreateCheck(k)
    \/ UpdateEnvironment
    \/ \E o \in Operators :
         \/ \E c \in Connections : BeginEditConnection(o, c) \/ BeginTest(o, c)
         \/ \E k \in Checks : BeginEditCheck(o, k) \/ BeginExecution(o, k)
         \/ \E d \in Changes : BeginCreateChange(o, d) \/ BeginEditChange(o, d)
         \/ EditConnection(o) \/ EditCheck(o) \/ StoreChange(o)
         \/ AnnounceTest(o) \/ Probe(o) \/ StoreHealth(o)
         \/ ExecuteValidation(o) \/ StoreRunHealth(o) \/ StoreCheck(o)
         \/ Abandon(o)

Spec == Init /\ [][Next]_vars
=============================================================================
