----------------------- MODULE DatabasePostureProofs -----------------------
(***************************************************************************)
(* Theorems about DatabaseGovernance and the posture built on it, for any  *)
(* number of operators, connections, checks and changes, any sources and   *)
(* shapes of checks, and any number of edits, tests and executions.        *)
(***************************************************************************)
EXTENDS DatabasePosture, TLAPS

----------------------------------------------------------------------------
(* Types. The tables are typed only together with the copies the requests  *)
(* hold: every row that is written is made of one.                         *)

\* The steps at which a request holds the copy of a connection, of a check.
ConnectionSteps == {"edit_connection", "announce_test", "probe", "store_health",
                    "execute", "store_run_health"}
CheckSteps == {"edit_check", "execute", "store_run_health", "store_check"}

\* A check that names a connection names one there is, and a runtime check does.
Linked(row) ==
    /\ row.connection # Null => connections[row.connection] # Null
    /\ Runtime(row) => row.connection # Null

HoldsConnection(r) ==
    /\ r.connection \in Connections
    /\ r.connectionRow \in ConnectionRows
    /\ connections[r.connection] # Null

HoldsCheck(r) ==
    /\ r.check \in Checks
    /\ r.checkRow \in CheckRows
    /\ Linked(r.checkRow)
    /\ checks[r.check] # Null

LinkInv == \A k \in PresentChecks : Linked(checks[k])

CopyInv ==
    \A o \in Operators :
        /\ request[o].step \in ConnectionSteps => HoldsConnection(request[o])
        /\ request[o].step \in CheckSteps => HoldsCheck(request[o])

JudgeInv ==
    \A o \in Operators : request[o].step = "store_change" => request[o].change \in Changes

TypeInv == TypeOK /\ LinkInv /\ CopyInv /\ JudgeInv

\* Rows never go away, so what was linked and what was held stays so.
Growing ==
    /\ \A c \in Connections : connections[c] # Null => connections'[c] # Null
    /\ \A k \in Checks : checks[k] # Null => checks'[k] # Null

LEMMA LinksStay ==
    ASSUME Growing, NEW row \in CheckRows, Linked(row)
    PROVE Linked(row)'
BY DEF Growing, Linked, CheckRows, Runtime

LEMMA PatchTypes ==
    ASSUME NEW s \in Sources
    PROVE /\ Untested(s) \in ConnectionRows
          /\ \A row \in ConnectionRows : PatchedConnection(row, s) \subseteq ConnectionRows
BY DEF Untested, BaseStatus, ConnectionRows, PatchedConnection

LEMMA StartedTypes ==
    ASSUME NEW S, NEW newest \in [S -> Evidence \cup {Null}], NEW id \in S,
           NEW o \in Operators
    PROVE Started(newest, id, o) \in [S -> Evidence \cup {Null}]
<1>1. [by |-> o, status |-> "running"] \in Evidence
    BY DEF Evidence, Outcomes
<1> QED BY <1>1 DEF Started

LEMMA SettledTypes ==
    ASSUME NEW S, NEW newest \in [S -> Evidence \cup {Null}], NEW id \in S,
           NEW o \in Operators, NEW outcome \in Outcomes
    PROVE Settled(newest, id, o, outcome) \in [S -> Evidence \cup {Null}]
<1>1. ASSUME newest[id] # Null PROVE [newest[id] EXCEPT !.status = outcome] \in Evidence
    BY <1>1 DEF Evidence
<1> QED BY <1>1 DEF Settled

LEMMA ResultTypes ==
    ASSUME NEW source
    PROVE /\ \A result \in ProbeResults(source) :
               /\ result.status \in Outcomes
               /\ result.connection \in {"ready", "error", "unresolved"}
          /\ \A result \in ValidationResults(source) :
               /\ result.status \in Outcomes
               /\ result.connection \in {"ready", "error", "unresolved"}
               /\ Verdict(result.status) \in {"passed", "failed", "blocked"}
BY DEF ProbeResults, ValidationResults, Outcomes, Verdict

\* One request took a step; the others hold what they held.
LEMMA RequestTypes ==
    ASSUME TypeInv, Growing, NEW o \in Operators, NEW r \in Requests,
           request' = [request EXCEPT ![o] = r],
           r.step \in ConnectionSteps => HoldsConnection(r),
           r.step \in CheckSteps => HoldsCheck(r)
    PROVE request' \in [Operators -> Requests] /\ CopyInv'
<1>1. request' \in [Operators -> Requests]
    BY DEF TypeInv, TypeOK
<1>2. ASSUME NEW p \in Operators, request'[p].step \in ConnectionSteps
      PROVE HoldsConnection(request[p])'
    <2>1. HoldsConnection(request'[p])
        BY <1>2 DEF TypeInv, TypeOK, CopyInv
    <2> QED BY <2>1 DEF HoldsConnection, Growing
<1>3. ASSUME NEW p \in Operators, request'[p].step \in CheckSteps
      PROVE HoldsCheck(request[p])'
    <2>1. HoldsCheck(request'[p])
        BY <1>3 DEF TypeInv, TypeOK, CopyInv
    <2> QED BY <2>1, LinksStay DEF HoldsCheck, Growing
<1> QED BY <1>1, <1>2, <1>3 DEF CopyInv

\* One row was written, the copies did not change.
LEMMA ConnectionTypes ==
    ASSUME TypeInv, NEW c \in Connections, NEW row \in ConnectionRows,
           WriteConnection(c, row), UNCHANGED checks
    PROVE /\ connections' \in [Connections -> ConnectionRows \cup {Null}]
          /\ Growing /\ LinkInv'
<1>1. connections' \in [Connections -> ConnectionRows \cup {Null}]
    BY DEF TypeInv, TypeOK, WriteConnection
<1>2. Growing
    BY NullIsNoRow DEF TypeInv, TypeOK, WriteConnection, Growing
<1>3. LinkInv'
    BY <1>2, LinksStay DEF TypeInv, TypeOK, LinkInv, PresentChecks
<1> QED BY <1>1, <1>2, <1>3

LEMMA CheckTypes ==
    ASSUME TypeInv, NEW k \in Checks, NEW row \in CheckRows, Linked(row),
           WriteCheck(k, row), UNCHANGED connections
    PROVE /\ checks' \in [Checks -> CheckRows \cup {Null}]
          /\ Growing /\ LinkInv'
<1>1. checks' \in [Checks -> CheckRows \cup {Null}]
    BY DEF TypeInv, TypeOK, WriteCheck
<1>2. Growing
    BY NullIsNoRow DEF TypeInv, TypeOK, WriteCheck, Growing
<1>3. ASSUME NEW l \in PresentChecks' PROVE Linked(checks[l])'
    <2>1. checks'[l] \in CheckRows /\ Linked(checks'[l])
        BY <1>3 DEF TypeInv, TypeOK, WriteCheck, LinkInv, PresentChecks
    <2> QED BY <1>2, <2>1, LinksStay
<1> QED BY <1>1, <1>2, <1>3 DEF LinkInv

LEMMA SameTables ==
    ASSUME TypeInv, UNCHANGED <<connections, checks>>
    PROVE Growing /\ LinkInv'
BY DEF Growing, TypeInv, LinkInv, PresentChecks, Linked

\* Edits of changes and steps that end or abandon a request leave the copies alone.
LEMMA CopiesStay ==
    ASSUME TypeInv, Growing, UNCHANGED request
    PROVE CopyInv'
<1>1. ASSUME NEW o \in Operators, request[o].step \in ConnectionSteps
      PROVE HoldsConnection(request[o])'
    BY <1>1 DEF TypeInv, CopyInv, HoldsConnection, Growing
<1>2. ASSUME NEW o \in Operators, request[o].step \in CheckSteps
      PROVE HoldsCheck(request[o])'
    BY <1>2, LinksStay DEF TypeInv, CopyInv, HoldsCheck, Growing
<1> QED BY <1>1, <1>2 DEF CopyInv

LEMMA IdleTypes ==
    /\ Idle \in Requests
    /\ Idle.step \notin ConnectionSteps /\ Idle.step \notin CheckSteps
    /\ Idle.step # "store_change"
BY DEF Idle, Requests, Steps, ConnectionSteps, CheckSteps

LEMMA InitTypes == Init => TypeInv
<1> SUFFICES ASSUME Init PROVE TypeInv
    OBVIOUS
<1>1. TypeOK
    BY IdleTypes, DatabaseAssumption DEF Init, TypeOK
<1>2. LinkInv /\ CopyInv /\ JudgeInv
    BY IdleTypes DEF Init, LinkInv, PresentChecks, CopyInv, JudgeInv
<1> QED BY <1>1, <1>2 DEF TypeInv

\* Whoever stores a change began with it.
LEMMA NextJudged == TypeInv /\ [Next]_vars => JudgeInv'
<1> SUFFICES ASSUME TypeInv, [Next]_vars PROVE JudgeInv'
    OBVIOUS
<1>t. request \in [Operators -> Requests] /\ JudgeInv
    BY DEF TypeInv, TypeOK
<1>1. ASSUME UNCHANGED request PROVE JudgeInv'
    BY <1>1, <1>t DEF JudgeInv
<1>2. ASSUME NEW o \in Operators, NEW r,
             request' = [request EXCEPT ![o] = r],
             r.step = "store_change" => r.change \in Changes
      PROVE JudgeInv'
    BY <1>2, <1>t DEF JudgeInv
<1>3. ASSUME NEW o \in Operators, NEW d \in Changes,
             BeginCreateChange(o, d) \/ BeginEditChange(o, d)
      PROVE JudgeInv'
    <2>1. Judging(d).change = d
        BY DEF Judging, Idle
    <2> QED BY <1>2, <1>3, <2>1 DEF BeginCreateChange, BeginEditChange, Begin, Advance
<1>4. ASSUME NEW o \in Operators, Finish(o) PROVE JudgeInv'
    BY <1>2, <1>4, IdleTypes DEF Finish, Advance
<1>5. ASSUME NEW o \in Operators, NEW c \in Connections,
             BeginEditConnection(o, c) \/ BeginTest(o, c)
      PROVE JudgeInv'
    <2>1. PICK step \in {"edit_connection", "announce_test"} :
            request' = [request EXCEPT ![o] =
                [Idle EXCEPT !.step = step, !.connection = c, !.connectionRow = connections[c]]]
        BY <1>5 DEF BeginEditConnection, BeginTest, Begin
    <2>2. [Idle EXCEPT !.step = step, !.connection = c,
                       !.connectionRow = connections[c]].step # "store_change"
        BY DEF Idle
    <2> QED BY <1>2, <2>1, <2>2
<1>6. ASSUME NEW o \in Operators, NEW k \in Checks, BeginEditCheck(o, k) \/ BeginExecution(o, k)
      PROVE JudgeInv'
    <2>1. request'[o].step # "store_change"
        BY <1>6, <1>t DEF BeginEditCheck, BeginExecution, Begin, Idle
    <2>2. \A p \in Operators \ {o} : request'[p] = request[p]
        BY <1>6, <1>t DEF BeginEditCheck, BeginExecution, Begin
    <2> QED BY <1>t, <2>1, <2>2 DEF JudgeInv
<1>7. ASSUME NEW o \in Operators,
             AnnounceTest(o) \/ Probe(o) \/ ExecuteValidation(o) \/ StoreRunHealth(o)
      PROVE JudgeInv'
    <2>1. request'[o].step # "store_change"
        <3>1. CASE AnnounceTest(o)
            BY <3>1, <1>t DEF AnnounceTest, Advance, Requests
        <3>2. CASE Probe(o)
            BY <3>2, <1>t DEF Probe, Advance, Requests
        <3>3. CASE ExecuteValidation(o)
            BY <3>3, <1>t DEF ExecuteValidation, Advance, Requests
        <3>4. CASE StoreRunHealth(o)
            BY <3>4, <1>t DEF StoreRunHealth, Advance, Requests
        <3> QED BY <1>7, <3>1, <3>2, <3>3, <3>4
    <2>2. \A p \in Operators \ {o} : request'[p] = request[p]
        BY <1>7, <1>t DEF AnnounceTest, Probe, ExecuteValidation, StoreRunHealth, Advance
    <2> QED BY <1>t, <2>1, <2>2 DEF JudgeInv
<1> QED BY <1>1, <1>3, <1>4, <1>5, <1>6, <1>7
        DEF Next, CreateConnection, CreateCheck, UpdateEnvironment, EditConnection, EditCheck,
            StoreChange, StoreHealth, StoreCheck, Abandon, vars

LEMMA NextTypes == TypeInv /\ [Next]_vars => TypeInv'
<1> SUFFICES ASSUME TypeInv, [Next]_vars PROVE TypeInv'
    OBVIOUS
<1>t. TypeOK /\ LinkInv /\ CopyInv
    BY DEF TypeInv
<1>j. JudgeInv'
    BY NextJudged
<1> USE DEF tables, evidence, history
<1>1. ASSUME NEW c \in Connections, CreateConnection(c) PROVE TypeInv'
    <2>1. PICK s \in Sources : WriteConnection(c, Untested(s))
        BY <1>1 DEF CreateConnection
    <2>2. connections' \in [Connections -> ConnectionRows \cup {Null}] /\ Growing /\ LinkInv'
        BY <1>1, <2>1, PatchTypes, ConnectionTypes DEF CreateConnection
    <2>3. CopyInv'
        BY <1>1, <2>2, CopiesStay DEF CreateConnection
    <2> QED BY <1>1, <1>t, <1>j, <2>2, <2>3 DEF CreateConnection, TypeInv, TypeOK
<1>2. ASSUME NEW k \in Checks, CreateCheck(k) PROVE TypeInv'
    <2>1. PICK row \in NewChecks :
            /\ row.connection # Null => connections[row.connection] # Null
            /\ WriteCheck(k, row)
        BY <1>2 DEF CreateCheck
    <2>2. row \in CheckRows /\ Linked(row)
        BY <2>1 DEF NewChecks, Linked
    <2>3. checks' \in [Checks -> CheckRows \cup {Null}] /\ Growing /\ LinkInv'
        BY <1>2, <2>1, <2>2, CheckTypes DEF CreateCheck
    <2>4. CopyInv'
        BY <1>2, <2>3, CopiesStay DEF CreateCheck
    <2> QED BY <1>2, <1>t, <1>j, <2>3, <2>4 DEF CreateCheck, TypeInv, TypeOK
<1>3. ASSUME NEW o \in Operators, NEW d \in Changes,
             BeginCreateChange(o, d) \/ BeginEditChange(o, d)
      PROVE TypeInv'
    <2>1. Judging(d) \in Requests /\ Judging(d).step \notin ConnectionSteps \cup CheckSteps
        BY <1>t DEF Judging, Idle, Requests, Steps, ConnectionSteps, CheckSteps, TypeOK
    <2>2. request' = [request EXCEPT ![o] = Judging(d)] /\ budget' \in 0 .. MaxRequests
        BY <1>3, <1>t, DatabaseAssumption
           DEF BeginCreateChange, BeginEditChange, Begin, Advance, TypeOK
    <2>3. Growing /\ LinkInv'
        BY <1>3, SameTables DEF BeginCreateChange, BeginEditChange
    <2>4. request' \in [Operators -> Requests] /\ CopyInv'
        BY <2>1, <2>2, <2>3, RequestTypes
    <2> QED BY <1>3, <1>t, <1>j, <2>2, <2>3, <2>4
            DEF BeginCreateChange, BeginEditChange, TypeInv, TypeOK
<1>4. ASSUME NEW o \in Operators, NEW c \in Connections,
             BeginEditConnection(o, c) \/ BeginTest(o, c)
      PROVE TypeInv'
    <2>1. PICK step \in {"edit_connection", "announce_test"} :
            Begin(o, [Idle EXCEPT !.step = step, !.connection = c,
                                  !.connectionRow = connections[c]])
        BY <1>4 DEF BeginEditConnection, BeginTest
    <2> DEFINE r == [Idle EXCEPT !.step = step, !.connection = c,
                                 !.connectionRow = connections[c]]
    <2>2. connections[c] # Null /\ connections[c] \in ConnectionRows
        BY <1>4, <1>t DEF BeginEditConnection, BeginTest, TypeOK
    <2>3. r \in Requests /\ HoldsConnection(r) /\ r.step \notin CheckSteps
        BY <2>1, <2>2 DEF Idle, Requests, Steps, HoldsConnection, CheckSteps
    <2>4. request' = [request EXCEPT ![o] = r] /\ budget' \in 0 .. MaxRequests
        BY <2>1, <1>t, DatabaseAssumption DEF Begin, TypeOK
    <2>5. Growing /\ LinkInv'
        BY <1>4, SameTables DEF BeginEditConnection, BeginTest
    <2>6. request' \in [Operators -> Requests] /\ CopyInv'
        <3> HIDE DEF r
        <3> QED BY <2>3, <2>4, <2>5, RequestTypes
    <2>7. tests' = tests \/ tests' = Started(tests, c, o)
        BY <1>4 DEF BeginEditConnection, BeginTest
    <2>8. tests' \in [Connections -> Evidence \cup {Null}]
        BY <2>7, <1>t, StartedTypes DEF TypeOK
    <2> QED BY <1>4, <1>t, <1>j, <2>4, <2>5, <2>6, <2>8
            DEF BeginEditConnection, BeginTest, TypeInv, TypeOK
<1>5. ASSUME NEW o \in Operators, NEW k \in Checks, BeginEditCheck(o, k) \/ BeginExecution(o, k)
      PROVE TypeInv'
    <2>1. PICK r \in Requests :
            /\ Begin(o, r)
            /\ r.step \in ConnectionSteps => HoldsConnection(r)
            /\ r.step \in CheckSteps => HoldsCheck(r)
        <3>1. checks[k] # Null /\ checks[k] \in CheckRows /\ Linked(checks[k])
            BY <1>5, <1>t DEF BeginEditCheck, BeginExecution, TypeOK, LinkInv, PresentChecks
        <3>2. CASE BeginEditCheck(o, k)
            <4> DEFINE r == [Idle EXCEPT !.step = "edit_check", !.check = k,
                                         !.checkRow = checks[k]]
            <4>1. /\ r \in Requests /\ HoldsCheck(r)
                  /\ r.step \notin ConnectionSteps
                BY <3>1 DEF Idle, Requests, Steps, HoldsCheck, ConnectionSteps
            <4>2. Begin(o, r)
                BY <3>2 DEF BeginEditCheck
            <4> QED BY <4>1, <4>2
        <3>3. CASE BeginExecution(o, k)
            <4> DEFINE c == checks[k].connection
                       r == [Idle EXCEPT !.step = "execute", !.check = k,
                                         !.checkRow = checks[k], !.connection = c,
                                         !.connectionRow = connections[c]]
            <4>1. c \in Connections /\ connections[c] # Null
                BY <3>1, <3>3 DEF BeginExecution, CheckRows, Linked
            <4>2. connections[c] \in ConnectionRows
                BY <4>1, <1>t DEF TypeOK
            <4>3. Begin(o, r)
                BY <3>3 DEF BeginExecution
            <4> HIDE DEF c
            <4>4. r \in Requests /\ HoldsCheck(r) /\ HoldsConnection(r)
                BY <3>1, <4>1, <4>2 DEF Idle, Requests, Steps, HoldsCheck, HoldsConnection
            <4> QED BY <4>3, <4>4
        <3> QED BY <1>5, <3>2, <3>3
    <2>2. request' = [request EXCEPT ![o] = r] /\ budget' \in 0 .. MaxRequests
        BY <2>1, <1>t, DatabaseAssumption DEF Begin, TypeOK
    <2>3. Growing /\ LinkInv'
        BY <1>5, SameTables DEF BeginEditCheck, BeginExecution
    <2>4. request' \in [Operators -> Requests] /\ CopyInv'
        BY <2>1, <2>2, <2>3, RequestTypes
    <2>5. runs' \in [Checks -> Evidence \cup {Null}]
        BY <1>5, <1>t, StartedTypes DEF BeginEditCheck, BeginExecution, TypeOK
    <2> QED BY <1>5, <1>t, <1>j, <2>2, <2>3, <2>4, <2>5
            DEF BeginEditCheck, BeginExecution, TypeInv, TypeOK
<1>6. ASSUME NEW o \in Operators, EditConnection(o) PROVE TypeInv'
    <2>1. HoldsConnection(request[o])
        BY <1>6, <1>t DEF EditConnection, At, CopyInv, ConnectionSteps
    <2>2. PICK row \in ConnectionRows : WriteConnection(request[o].connection, row)
        BY <1>6, <2>1, PatchTypes DEF EditConnection, HoldsConnection
    <2>3. connections' \in [Connections -> ConnectionRows \cup {Null}] /\ Growing /\ LinkInv'
        BY <1>6, <2>1, <2>2, ConnectionTypes DEF EditConnection, HoldsConnection
    <2>4. request' \in [Operators -> Requests] /\ CopyInv'
        BY <1>6, <2>3, IdleTypes, RequestTypes DEF EditConnection, Finish, Advance
    <2> QED BY <1>6, <1>t, <1>j, <2>3, <2>4 DEF EditConnection, Finish, Advance, TypeInv, TypeOK
<1>7. ASSUME NEW o \in Operators, EditCheck(o) PROVE TypeInv'
    <2>1. HoldsCheck(request[o])
        BY <1>7, <1>t DEF EditCheck, At, CopyInv, CheckSteps
    <2>2. PICK new \in CheckRows :
            /\ Runtime(new) => new.connection # Null
            /\ new.connection \notin {Null, request[o].checkRow.connection}
                 => connections[new.connection] # Null
            /\ WriteCheck(request[o].check, new)
        BY <1>7 DEF EditCheck, PatchedCheck
    <2>3. Linked(new)
        BY <2>1, <2>2 DEF HoldsCheck, Linked
    <2>4. checks' \in [Checks -> CheckRows \cup {Null}] /\ Growing /\ LinkInv'
        BY <1>7, <2>1, <2>2, <2>3, CheckTypes DEF EditCheck, HoldsCheck
    <2>5. request' \in [Operators -> Requests] /\ CopyInv'
        BY <1>7, <2>4, IdleTypes, RequestTypes DEF EditCheck, Finish, Advance
    <2> QED BY <1>7, <1>t, <1>j, <2>4, <2>5 DEF EditCheck, Finish, Advance, TypeInv, TypeOK
<1>8. ASSUME NEW o \in Operators, AnnounceTest(o) PROVE TypeInv'
    <2> DEFINE testing == [request[o].connectionRow EXCEPT !.status = "testing"]
               r == [request[o] EXCEPT !.step = "probe", !.connectionRow = testing]
    <2>1. HoldsConnection(request[o]) /\ request[o] \in Requests
        BY <1>8, <1>t DEF AnnounceTest, At, CopyInv, ConnectionSteps, TypeOK
    <2>2. testing \in ConnectionRows
        BY <2>1 DEF HoldsConnection, ConnectionRows
    <2>3. WriteConnection(request[o].connection, testing) /\ Advance(o, r)
        BY <1>8 DEF AnnounceTest
    <2> HIDE DEF testing
    <2>4. r \in Requests /\ HoldsConnection(r) /\ r.step \notin CheckSteps
        BY <2>1, <2>2 DEF Requests, Steps, HoldsConnection, CheckSteps
    <2>5. connections' \in [Connections -> ConnectionRows \cup {Null}] /\ Growing /\ LinkInv'
        BY <1>8, <2>1, <2>2, <2>3, ConnectionTypes DEF AnnounceTest, HoldsConnection
    <2>6. request' \in [Operators -> Requests] /\ CopyInv'
        <3> HIDE DEF r
        <3> QED BY <2>3, <2>4, <2>5, RequestTypes DEF Advance
    <2> QED BY <1>8, <1>t, <1>j, <2>5, <2>6 DEF AnnounceTest, Advance, TypeInv, TypeOK
<1>9. ASSUME NEW o \in Operators, Probe(o) PROVE TypeInv'
    <2>1. HoldsConnection(request[o]) /\ request[o] \in Requests
        BY <1>9, <1>t DEF Probe, At, CopyInv, ConnectionSteps, TypeOK
    <2>2. PICK result \in ProbeResults(request[o].connectionRow.source) :
            /\ tests' = Settled(tests, request[o].connection, o, result.status)
            /\ Advance(o, [request[o] EXCEPT !.step = "store_health",
                                             !.connectionRow.status = result.connection])
        BY <1>9 DEF Probe
    <2> DEFINE r == [request[o] EXCEPT !.step = "store_health",
                                       !.connectionRow.status = result.connection]
    <2>3. [request[o].connectionRow EXCEPT !.status = result.connection] \in ConnectionRows
        BY <2>1, <2>2, ResultTypes DEF HoldsConnection, ConnectionRows
    <2>4. r \in Requests /\ HoldsConnection(r) /\ r.step \notin CheckSteps
        BY <2>1, <2>3 DEF Requests, Steps, HoldsConnection, CheckSteps
    <2>5. Growing /\ LinkInv'
        BY <1>9, SameTables DEF Probe
    <2>6. request' \in [Operators -> Requests] /\ CopyInv'
        <3>1. request' = [request EXCEPT ![o] = r]
            BY <2>2 DEF Advance
        <3> HIDE DEF r
        <3> QED BY <3>1, <2>4, <2>5, RequestTypes
    <2>7. tests' \in [Connections -> Evidence \cup {Null}]
        BY <1>t, <2>1, <2>2, ResultTypes, SettledTypes DEF TypeOK, HoldsConnection
    <2>8. probed' \subseteq Connections \X Sources
        BY <1>9, <1>t, <2>1 DEF Probe, TypeOK, HoldsConnection, ConnectionRows
    <2> QED BY <1>9, <1>t, <1>j, <2>2, <2>5, <2>6, <2>7, <2>8 DEF Probe, Advance, TypeInv, TypeOK
<1>10. ASSUME NEW o \in Operators, StoreHealth(o) PROVE TypeInv'
    <2>1. HoldsConnection(request[o])
        BY <1>10, <1>t DEF StoreHealth, At, CopyInv, ConnectionSteps
    <2>2. connections' \in [Connections -> ConnectionRows \cup {Null}] /\ Growing /\ LinkInv'
        BY <1>10, <2>1, ConnectionTypes DEF StoreHealth, HoldsConnection
    <2>3. request' \in [Operators -> Requests] /\ CopyInv'
        BY <1>10, <2>2, IdleTypes, RequestTypes DEF StoreHealth, Finish, Advance
    <2> QED BY <1>10, <1>t, <1>j, <2>2, <2>3 DEF StoreHealth, Finish, Advance, TypeInv, TypeOK
<1>11. ASSUME NEW o \in Operators, ExecuteValidation(o) PROVE TypeInv'
    <2>1. /\ HoldsConnection(request[o]) /\ HoldsCheck(request[o])
          /\ request[o] \in Requests
        BY <1>11, <1>t DEF ExecuteValidation, At, CopyInv, ConnectionSteps, CheckSteps, TypeOK
    <2>2. PICK result \in ValidationResults(request[o].connectionRow.source) :
            /\ runs' = Settled(runs, request[o].check, o, result.status)
            /\ Advance(o, [request[o] EXCEPT !.step = "store_run_health",
                                             !.connectionRow.status = result.connection,
                                             !.checkRow.status = Verdict(result.status)])
        BY <1>11 DEF ExecuteValidation
    <2> DEFINE r == [request[o] EXCEPT !.step = "store_run_health",
                                       !.connectionRow.status = result.connection,
                                       !.checkRow.status = Verdict(result.status)]
    <2>3. [request[o].connectionRow EXCEPT !.status = result.connection] \in ConnectionRows
        BY <2>1, <2>2, ResultTypes DEF HoldsConnection, ConnectionRows
    <2>4. PICK verdict : /\ verdict = Verdict(result.status)
                         /\ verdict \in {"passed", "failed", "blocked"}
        BY <2>2, ResultTypes
    <2>5. /\ [request[o].checkRow EXCEPT !.status = verdict] \in CheckRows
          /\ Linked([request[o].checkRow EXCEPT !.status = verdict])
        BY <2>1, <2>4 DEF HoldsCheck, CheckRows, Linked, Runtime
    <2>6. r \in Requests /\ HoldsConnection(r) /\ HoldsCheck(r)
        BY <2>1, <2>3, <2>4, <2>5 DEF Requests, Steps, HoldsConnection, HoldsCheck
    <2>7. Growing /\ LinkInv'
        BY <1>11, SameTables DEF ExecuteValidation
    <2>8. request' \in [Operators -> Requests] /\ CopyInv'
        <3>1. request' = [request EXCEPT ![o] = r]
            BY <2>2 DEF Advance
        <3> HIDE DEF r
        <3> QED BY <3>1, <2>6, <2>7, RequestTypes
    <2>9. runs' \in [Checks -> Evidence \cup {Null}]
        BY <1>t, <2>1, <2>2, ResultTypes, SettledTypes DEF TypeOK, HoldsCheck
    <2>10. probed' \subseteq Connections \X Sources /\ proved' \subseteq Checks
        BY <1>11, <1>t, <2>1
           DEF ExecuteValidation, TypeOK, HoldsConnection, HoldsCheck, ConnectionRows
    <2> QED BY <1>11, <1>t, <1>j, <2>2, <2>7, <2>8, <2>9, <2>10
            DEF ExecuteValidation, Advance, TypeInv, TypeOK
<1>12. ASSUME NEW o \in Operators, StoreRunHealth(o) PROVE TypeInv'
    <2> DEFINE r == [request[o] EXCEPT !.step = "store_check"]
    <2>1. /\ HoldsConnection(request[o]) /\ HoldsCheck(request[o])
          /\ request[o] \in Requests
        BY <1>12, <1>t DEF StoreRunHealth, At, CopyInv, ConnectionSteps, CheckSteps, TypeOK
    <2>2. connections' \in [Connections -> ConnectionRows \cup {Null}] /\ Growing /\ LinkInv'
        BY <1>12, <2>1, ConnectionTypes DEF StoreRunHealth, HoldsConnection
    <2>3. r \in Requests /\ HoldsCheck(r) /\ r.step \notin ConnectionSteps
        BY <2>1 DEF Requests, Steps, HoldsCheck, ConnectionSteps
    <2>4. request' = [request EXCEPT ![o] = r]
        BY <1>12 DEF StoreRunHealth, Advance
    <2>5. request' \in [Operators -> Requests] /\ CopyInv'
        <3> HIDE DEF r
        <3> QED BY <2>2, <2>3, <2>4, RequestTypes
    <2> QED BY <1>12, <1>t, <1>j, <2>2, <2>5 DEF StoreRunHealth, Advance, TypeInv, TypeOK
<1>13. ASSUME NEW o \in Operators, StoreCheck(o) PROVE TypeInv'
    <2>1. HoldsCheck(request[o])
        BY <1>13, <1>t DEF StoreCheck, At, CopyInv, CheckSteps
    <2>2. checks' \in [Checks -> CheckRows \cup {Null}] /\ Growing /\ LinkInv'
        BY <1>13, <2>1, CheckTypes DEF StoreCheck, HoldsCheck
    <2>3. request' \in [Operators -> Requests] /\ CopyInv'
        BY <1>13, <2>2, IdleTypes, RequestTypes DEF StoreCheck, Finish, Advance
    <2> QED BY <1>13, <1>t, <1>j, <2>2, <2>3 DEF StoreCheck, Finish, Advance, TypeInv, TypeOK
<1>14. ASSUME NEW o \in Operators, Abandon(o) PROVE TypeInv'
    <2>1. Growing /\ LinkInv'
        BY <1>14, SameTables DEF Abandon
    <2>2. request' \in [Operators -> Requests] /\ CopyInv'
        BY <1>14, <2>1, IdleTypes, RequestTypes DEF Abandon, Finish, Advance
    <2> QED BY <1>14, <1>t, <1>j, <2>1, <2>2 DEF Abandon, Finish, Advance, TypeInv, TypeOK
<1>15. ASSUME NEW o \in Operators, StoreChange(o) PROVE TypeInv'
    <2>1. request[o].change \in Changes /\ request[o].production \in BOOLEAN
        BY <1>15, <1>t DEF StoreChange, At, TypeInv, JudgeInv, TypeOK, Requests
    <2>2. PICK f \in ChangeFacts, asked \in BOOLEAN :
            WriteChange(request[o].change, PatchedChange(f, asked, request[o].production))
        BY <1>15 DEF StoreChange
    <2>3. PatchedChange(f, asked, request[o].production) \in ChangeRows
        BY <2>2 DEF PatchedChange, ChangeRows
    <2>4. changes' \in [Changes -> ChangeRows \cup {Null}] /\ lenient' \subseteq Changes
        BY <1>15, <1>t, <2>1, <2>2, <2>3 DEF StoreChange, WriteChange, TypeOK
    <2>5. Growing /\ LinkInv'
        BY <1>15, SameTables DEF StoreChange
    <2>6. request' \in [Operators -> Requests] /\ CopyInv'
        BY <1>15, <2>5, IdleTypes, RequestTypes DEF StoreChange, Finish, Advance
    <2> QED BY <1>15, <1>t, <1>j, <2>4, <2>5, <2>6
            DEF StoreChange, Finish, Advance, TypeInv, TypeOK
<1>16. ASSUME UpdateEnvironment PROVE TypeInv'
    <2>1. Growing /\ LinkInv' /\ CopyInv'
        BY <1>16, SameTables, CopiesStay DEF UpdateEnvironment
    <2>2. budget' \in 0 .. MaxRequests
        BY <1>16, <1>t, DatabaseAssumption DEF UpdateEnvironment, TypeOK
    <2> QED BY <1>16, <1>t, <1>j, <2>1, <2>2 DEF UpdateEnvironment, TypeInv, TypeOK
<1>17. ASSUME UNCHANGED vars PROVE TypeInv'
    BY <1>17, <1>t, <1>j, SameTables, CopiesStay DEF vars, TypeInv, TypeOK
<1> QED BY <1>1, <1>2, <1>3, <1>4, <1>5, <1>6, <1>7, <1>8, <1>9, <1>10, <1>11, <1>12,
           <1>13, <1>14, <1>15, <1>16, <1>17 DEF Next

\* The tables hold whole rows and each request the copies its step needs, however
\* edits, tests, executions and failed requests interleave.
THEOREM TypeInvariance == Spec => [](TypeOK /\ LinkInv /\ CopyInv /\ JudgeInv)
BY InitTypes, NextTypes, PTL DEF Spec, TypeInv

----------------------------------------------------------------------------
(* What was probed and what was proven. A row says no more than the copy   *)
(* it was written from, and a copy no more than the row it was read from.  *)

ProbeInv ==
    /\ ReadyMeansProbed
    /\ \A o \in Operators :
        LET r == request[o]
        IN  r.step \in ConnectionSteps /\ r.connectionRow.status = "ready"
              => <<r.connection, r.connectionRow.source>> \in probed

ProvenInv ==
    /\ PassedMeansRun
    /\ \A o \in Operators :
        LET r == request[o]
        IN  r.step \in CheckSteps /\ Runtime(r.checkRow) /\ r.checkRow.status = "passed"
              => r.check \in proved

\* New inputs make a connection untested, the old ones leave it as it was.
LEMMA PatchFacts ==
    ASSUME NEW old \in ConnectionRows, NEW s \in Sources, NEW row \in PatchedConnection(old, s),
           row.status = "ready"
    PROVE row = old
BY DEF PatchedConnection, Untested, BaseStatus

LEMMA NextProbed == TypeInv /\ ProbeInv /\ [Next]_vars => ProbeInv'
<1> SUFFICES ASSUME TypeInv, ProbeInv, [Next]_vars PROVE ProbeInv'
    OBVIOUS
<1>t. /\ TypeOK
      /\ \A o \in Operators :
           request[o].step \in ConnectionSteps => HoldsConnection(request[o])
    BY DEF TypeInv, CopyInv
<1>r. ReadyMeansProbed
    BY DEF ProbeInv
<1> USE DEF tables, evidence, history
<1>1. ASSUME NEW c \in Connections, CreateConnection(c) PROVE ProbeInv'
    <2>1. PICK s \in Sources : connections' = [connections EXCEPT ![c] = Untested(s)]
        BY <1>1 DEF CreateConnection, WriteConnection
    <2>2. Untested(s).status # "ready"
        BY DEF Untested, BaseStatus
    <2> QED BY <1>1, <1>t, <2>1, <2>2 DEF CreateConnection, ProbeInv, ReadyMeansProbed, TypeOK
<1>2. ASSUME NEW o \in Operators, NEW c \in Connections,
             BeginEditConnection(o, c) \/ BeginTest(o, c)
      PROVE ProbeInv'
    <2>1. PICK step : request' = [request EXCEPT ![o] =
                        [Idle EXCEPT !.step = step, !.connection = c,
                                     !.connectionRow = connections[c]]]
        BY <1>2 DEF BeginEditConnection, BeginTest, Begin
    <2>2. connections[c] # Null
        BY <1>2 DEF BeginEditConnection, BeginTest
    <2> QED BY <1>2, <1>t, <2>1, <2>2
            DEF BeginEditConnection, BeginTest, ProbeInv, ReadyMeansProbed, TypeOK, Idle
<1>3. ASSUME NEW o \in Operators, NEW k \in Checks, BeginExecution(o, k) PROVE ProbeInv'
    <2> DEFINE c == checks[k].connection
    <2>1. c \in Connections /\ connections[c] # Null
        BY <1>3, <1>t
           DEF BeginExecution, TypeOK, TypeInv, LinkInv, PresentChecks, Linked, CheckRows
    <2>2. request' = [request EXCEPT ![o] =
                        [Idle EXCEPT !.step = "execute", !.check = k, !.checkRow = checks[k],
                                     !.connection = c, !.connectionRow = connections[c]]]
        BY <1>3 DEF BeginExecution, Begin
    <2> HIDE DEF c
    <2> QED BY <1>3, <1>t, <2>1, <2>2
            DEF BeginExecution, ProbeInv, ReadyMeansProbed, TypeOK, Idle
<1>4. ASSUME NEW o \in Operators, NEW k \in Checks, BeginEditCheck(o, k) PROVE ProbeInv'
    <2>1. request'[o].step \notin ConnectionSteps
        BY <1>4, <1>t DEF BeginEditCheck, Begin, Idle, ConnectionSteps, TypeOK
    <2> QED BY <1>4, <1>t, <2>1 DEF BeginEditCheck, Begin, ProbeInv, ReadyMeansProbed, TypeOK
<1>5. ASSUME NEW o \in Operators, Finish(o), UNCHANGED <<connections, probed>> PROVE ProbeInv'
    BY <1>5, <1>t, IdleTypes DEF Finish, Advance, ProbeInv, ReadyMeansProbed, TypeOK
<1>6. ASSUME NEW o \in Operators, EditConnection(o) PROVE ProbeInv'
    <2> DEFINE r == request[o]
    <2>1. r.step \in ConnectionSteps /\ HoldsConnection(r)
        BY <1>6, <1>t DEF EditConnection, At, ConnectionSteps
    <2>2. PICK s \in Sources : \E row \in PatchedConnection(r.connectionRow, s) :
            connections' = [connections EXCEPT ![r.connection] = row]
        BY <1>6 DEF EditConnection, WriteConnection
    <2>3. PICK row \in PatchedConnection(r.connectionRow, s) :
            connections' = [connections EXCEPT ![r.connection] = row]
        BY <2>2
    <2>4. row.status = "ready" => <<r.connection, row.source>> \in probed
        BY <2>1, PatchFacts DEF ProbeInv, HoldsConnection
    <2>5. ReadyMeansProbed'
        BY <1>6, <1>r, <1>t, <2>1, <2>3, <2>4
           DEF EditConnection, ReadyMeansProbed, HoldsConnection, TypeOK
    <2> QED BY <1>6, <1>t, <2>5, IdleTypes DEF EditConnection, Finish, Advance, ProbeInv, TypeOK
<1>7. ASSUME NEW o \in Operators, AnnounceTest(o) PROVE ProbeInv'
    <2> DEFINE testing == [request[o].connectionRow EXCEPT !.status = "testing"]
    <2>1. HoldsConnection(request[o]) /\ request[o] \in Requests
        BY <1>7, <1>t DEF AnnounceTest, At, ConnectionSteps, TypeOK
    <2>2. /\ connections' = [connections EXCEPT ![request[o].connection] = testing]
          /\ request' = [request EXCEPT ![o] =
                [request[o] EXCEPT !.step = "probe", !.connectionRow = testing]]
          /\ probed' = probed
        BY <1>7 DEF AnnounceTest, WriteConnection, Advance
    <2>3. testing.status = "testing"
        BY <2>1 DEF HoldsConnection, ConnectionRows
    <2> HIDE DEF testing
    <2>4. ReadyMeansProbed'
        BY <1>r, <1>t, <2>1, <2>2, <2>3 DEF ReadyMeansProbed, HoldsConnection, TypeOK
    <2> QED BY <1>t, <2>1, <2>2, <2>3, <2>4 DEF ProbeInv, TypeOK, Requests
<1>8. ASSUME NEW o \in Operators, StoreHealth(o) PROVE ProbeInv'
    <2>1. request[o].step \in ConnectionSteps /\ HoldsConnection(request[o])
        BY <1>8, <1>t DEF StoreHealth, At, ConnectionSteps
    <2>2. ReadyMeansProbed'
        BY <1>8, <1>r, <1>t, <2>1
           DEF StoreHealth, WriteConnection, ReadyMeansProbed, ProbeInv, HoldsConnection, TypeOK
    <2> QED BY <1>8, <1>t, <2>2, IdleTypes DEF StoreHealth, Finish, Advance, ProbeInv, TypeOK
<1>9. ASSUME NEW o \in Operators, Probe(o) \/ ExecuteValidation(o) PROVE ProbeInv'
    <2>1. HoldsConnection(request[o]) /\ request[o] \in Requests
        BY <1>9, <1>t DEF Probe, ExecuteValidation, At, ConnectionSteps, TypeOK
    <2>2. PICK status \in {"ready", "error", "unresolved"} :
            /\ request'[o].connection = request[o].connection
            /\ request'[o].connectionRow = [request[o].connectionRow EXCEPT !.status = status]
            /\ status = "ready"
                 => <<request[o].connection, request[o].connectionRow.source>> \in probed'
        <3>1. CASE Probe(o)
            BY <1>t, <3>1 DEF Probe, ProbeResults, Advance, TypeOK, Requests
        <3>2. CASE ExecuteValidation(o)
            BY <1>t, <3>2 DEF ExecuteValidation, ValidationResults, Advance, TypeOK, Requests
        <3> QED BY <1>9, <3>1, <3>2
    <2>3. probed \subseteq probed' /\ connections' = connections
        BY <1>9 DEF Probe, ExecuteValidation
    <2>4. \A p \in Operators \ {o} : request'[p] = request[p]
        BY <1>9, <1>t DEF Probe, ExecuteValidation, Advance, TypeOK
    <2>5. /\ request'[o].connectionRow.status = status
          /\ request'[o].connectionRow.source = request[o].connectionRow.source
        BY <2>1, <2>2 DEF HoldsConnection, ConnectionRows
    <2> QED BY <1>r, <2>2, <2>3, <2>4, <2>5 DEF ProbeInv, ReadyMeansProbed
<1>10. ASSUME NEW o \in Operators, StoreRunHealth(o) PROVE ProbeInv'
    <2>1. request[o].step \in ConnectionSteps /\ HoldsConnection(request[o])
        BY <1>10, <1>t DEF StoreRunHealth, At, ConnectionSteps
    <2>2. ReadyMeansProbed'
        BY <1>10, <1>r, <1>t, <2>1
           DEF StoreRunHealth, WriteConnection, ReadyMeansProbed, ProbeInv, HoldsConnection, TypeOK
    <2>3. request'[o].step \notin ConnectionSteps
        BY <1>10, <1>t DEF StoreRunHealth, Advance, TypeOK, Requests, ConnectionSteps
    <2> QED BY <1>10, <1>t, <2>2, <2>3 DEF StoreRunHealth, Advance, ProbeInv, TypeOK
<1>11. ASSUME UNCHANGED <<connections, request, probed>> PROVE ProbeInv'
    BY <1>11 DEF ProbeInv, ReadyMeansProbed
<1>12. ASSUME NEW o \in Operators, NEW d \in Changes,
              BeginCreateChange(o, d) \/ BeginEditChange(o, d)
       PROVE ProbeInv'
    <2>1. request' = [request EXCEPT ![o] = Judging(d)]
        BY <1>12 DEF BeginCreateChange, BeginEditChange, Begin, Advance
    <2>2. Judging(d).step \notin ConnectionSteps
        BY DEF Judging, Idle, ConnectionSteps
    <2> QED BY <1>12, <1>t, <2>1, <2>2
            DEF BeginCreateChange, BeginEditChange, ProbeInv, ReadyMeansProbed, TypeOK
<1> QED BY <1>1, <1>2, <1>3, <1>4, <1>5, <1>6, <1>7, <1>8, <1>9, <1>10, <1>11, <1>12
        DEF Next, CreateCheck, UpdateEnvironment, EditCheck, StoreChange, StoreCheck, Abandon, vars

\* A connection reads ready only with a source on which a read-only transaction was
\* opened, in whatever order edits, tests and executions write their copies back.
THEOREM ReadyConnectionsWereProbed == Spec => []ReadyMeansProbed
<1>1. Init => ProbeInv
    BY IdleTypes DEF Init, ProbeInv, ReadyMeansProbed
<1>2. ProbeInv => ReadyMeansProbed
    BY DEF ProbeInv
<1> QED BY <1>1, <1>2, InitTypes, NextTypes, NextProbed, PTL DEF Spec

\* An edit never makes a runtime check of another one, nor a passed one.
LEMMA EditFacts ==
    ASSUME NEW old, NEW modeGiven \in BOOLEAN, NEW statusGiven \in BOOLEAN,
           NEW new \in PatchedCheck(old, modeGiven, statusGiven),
           Runtime(new), new.status = "passed"
    PROVE Runtime(old) /\ old.status = "passed"
BY DEF PatchedCheck, Runtime

LEMMA NextProven == TypeInv /\ ProvenInv /\ [Next]_vars => ProvenInv'
<1> SUFFICES ASSUME TypeInv, ProvenInv, [Next]_vars PROVE ProvenInv'
    OBVIOUS
<1>t. /\ TypeOK
      /\ \A o \in Operators : request[o].step \in CheckSteps => HoldsCheck(request[o])
    BY DEF TypeInv, CopyInv
<1>p. PassedMeansRun
    BY DEF ProvenInv
<1> USE DEF tables, evidence, history
<1>1. ASSUME NEW k \in Checks, CreateCheck(k) PROVE ProvenInv'
    <2>1. PICK row \in NewChecks : checks' = [checks EXCEPT ![k] = row]
        BY <1>1 DEF CreateCheck, WriteCheck
    <2>2. Runtime(row) => row.status # "passed"
        BY DEF NewChecks
    <2> QED BY <1>1, <1>t, <2>1, <2>2
            DEF CreateCheck, ProvenInv, PassedMeansRun, PresentChecks, TypeOK
<1>2. ASSUME NEW o \in Operators, NEW k \in Checks, BeginEditCheck(o, k) \/ BeginExecution(o, k)
      PROVE ProvenInv'
    <2>1. /\ checks[k] # Null /\ checks' = checks /\ proved' = proved
          /\ request'[o].check = k /\ request'[o].checkRow = checks[k]
        BY <1>2, <1>t DEF BeginEditCheck, BeginExecution, Begin, Idle, TypeOK
    <2>2. \A p \in Operators \ {o} : request'[p] = request[p]
        BY <1>2, <1>t DEF BeginEditCheck, BeginExecution, Begin, TypeOK
    <2> QED BY <1>p, <2>1, <2>2 DEF ProvenInv, PassedMeansRun, PresentChecks
<1>3. ASSUME NEW o \in Operators, NEW c \in Connections,
             BeginEditConnection(o, c) \/ BeginTest(o, c)
      PROVE ProvenInv'
    <2>1. request'[o].step \notin CheckSteps
        BY <1>3, <1>t DEF BeginEditConnection, BeginTest, Begin, Idle, CheckSteps, TypeOK
    <2>2. \A p \in Operators \ {o} : request'[p] = request[p]
        BY <1>3, <1>t DEF BeginEditConnection, BeginTest, Begin, TypeOK
    <2> QED BY <1>3, <1>p, <2>1, <2>2
            DEF BeginEditConnection, BeginTest, ProvenInv, PassedMeansRun, PresentChecks
<1>4. ASSUME NEW o \in Operators, Finish(o), UNCHANGED <<checks, proved>> PROVE ProvenInv'
    BY <1>4, <1>t, IdleTypes
       DEF Finish, Advance, ProvenInv, PassedMeansRun, PresentChecks, TypeOK
<1>5. ASSUME NEW o \in Operators, EditCheck(o) \/ StoreCheck(o) PROVE ProvenInv'
    <2> DEFINE r == request[o]
    <2>1. r.step \in CheckSteps /\ HoldsCheck(r)
        BY <1>5, <1>t DEF EditCheck, StoreCheck, At, CheckSteps
    <2>2. PICK row : /\ checks' = [checks EXCEPT ![r.check] = row]
                     /\ Runtime(row) /\ row.status = "passed"
                          => Runtime(r.checkRow) /\ r.checkRow.status = "passed"
        BY <1>5, EditFacts DEF EditCheck, StoreCheck, WriteCheck
    <2>3. PassedMeansRun'
        BY <1>5, <1>p, <1>t, <2>1, <2>2
           DEF EditCheck, StoreCheck, ProvenInv, PassedMeansRun, PresentChecks, HoldsCheck, TypeOK
    <2> QED BY <1>5, <1>t, <2>3, IdleTypes
            DEF EditCheck, StoreCheck, Finish, Advance, ProvenInv, TypeOK
<1>6. ASSUME NEW o \in Operators, ExecuteValidation(o) PROVE ProvenInv'
    <2>1. HoldsCheck(request[o]) /\ request[o] \in Requests
        BY <1>6, <1>t DEF ExecuteValidation, At, CheckSteps, TypeOK
    <2>2. PICK verdict \in {"passed", "failed", "blocked"} :
            /\ request'[o].check = request[o].check
            /\ request'[o].checkRow = [request[o].checkRow EXCEPT !.status = verdict]
            /\ verdict = "passed" => request[o].check \in proved'
        BY <1>6, <1>t DEF ExecuteValidation, ValidationResults, Verdict, Advance, TypeOK, Requests
    <2>3. proved \subseteq proved' /\ checks' = checks
        BY <1>6 DEF ExecuteValidation
    <2>4. \A p \in Operators \ {o} : request'[p] = request[p]
        BY <1>6, <1>t DEF ExecuteValidation, Advance, TypeOK
    <2>5. request'[o].checkRow.status = verdict
        BY <2>1, <2>2 DEF HoldsCheck, CheckRows
    <2> QED BY <1>p, <2>2, <2>3, <2>4, <2>5 DEF ProvenInv, PassedMeansRun, PresentChecks
<1>7. ASSUME NEW o \in Operators, AnnounceTest(o) \/ Probe(o) PROVE ProvenInv'
    <2>1. PICK step, row :
            /\ step \notin CheckSteps
            /\ request' = [request EXCEPT ![o] =
                              [request[o] EXCEPT !.step = step, !.connectionRow = row]]
        <3>1. {"probe", "store_health"} \cap CheckSteps = {}
            BY DEF CheckSteps
        <3> QED BY <1>7, <3>1 DEF AnnounceTest, Probe, Advance
    <2>2. /\ request'[o].step \notin CheckSteps
          /\ \A p \in Operators \ {o} : request'[p] = request[p]
        BY <1>t, <2>1 DEF TypeOK, Requests
    <2> QED BY <1>7, <1>p, <2>2
            DEF AnnounceTest, Probe, ProvenInv, PassedMeansRun, PresentChecks
<1>8. ASSUME NEW o \in Operators, StoreRunHealth(o) PROVE ProvenInv'
    <2>1. /\ request[o].step \in CheckSteps
          /\ request'[o].check = request[o].check
          /\ request'[o].checkRow = request[o].checkRow
          /\ \A p \in Operators \ {o} : request'[p] = request[p]
        BY <1>8, <1>t DEF StoreRunHealth, At, CheckSteps, Advance, TypeOK, Requests
    <2> QED BY <1>8, <1>p, <2>1
            DEF StoreRunHealth, ProvenInv, PassedMeansRun, PresentChecks
<1>9. ASSUME UNCHANGED <<checks, request, proved>> PROVE ProvenInv'
    BY <1>9 DEF ProvenInv, PassedMeansRun, PresentChecks
<1>10. ASSUME NEW o \in Operators, NEW d \in Changes,
              BeginCreateChange(o, d) \/ BeginEditChange(o, d)
       PROVE ProvenInv'
    <2>1. request' = [request EXCEPT ![o] = Judging(d)]
        BY <1>10 DEF BeginCreateChange, BeginEditChange, Begin, Advance
    <2>2. Judging(d).step \notin CheckSteps
        BY DEF Judging, Idle, CheckSteps
    <2> QED BY <1>10, <1>p, <1>t, <2>1, <2>2
            DEF BeginCreateChange, BeginEditChange, ProvenInv, PassedMeansRun, PresentChecks,
                TypeOK
<1> QED BY <1>1, <1>2, <1>3, <1>4, <1>5, <1>6, <1>7, <1>8, <1>9, <1>10
        DEF Next, CreateConnection, UpdateEnvironment, EditConnection, StoreChange,
            StoreHealth, Abandon, vars

\* A runtime check reads passed only if an execution of it has passed: no attested
\* status and no change of mode makes it so, however stale the copy that is written.
THEOREM PassedChecksWereRun == Spec => []PassedMeansRun
<1>1. Init => ProvenInv
    BY IdleTypes DEF Init, ProvenInv, PassedMeansRun, PresentChecks
<1>2. ProvenInv => PassedMeansRun
    BY DEF ProvenInv
<1> QED BY <1>1, <1>2, InitTypes, NextTypes, NextProven, PTL DEF Spec

----------------------------------------------------------------------------
(* The posture *)

\* Every write of a change row, the first one too, decides again, by the environment
\* as the request read it.
ManualInv ==
    \A d \in PresentChanges \ lenient : Risky(changes[d].facts) => changes[d].manual

LEMMA NextManual == TypeInv /\ ManualInv /\ [Next]_vars => ManualInv'
<1> SUFFICES ASSUME TypeInv, ManualInv, [Next]_vars PROVE ManualInv'
    OBVIOUS
<1>1. ASSUME NEW o \in Operators, StoreChange(o) PROVE ManualInv'
    <2> DEFINE d == request[o].change
               inProduction == request[o].production
    <2>1. d \in Changes
        BY <1>1 DEF StoreChange, At, TypeInv, JudgeInv
    <2>2. PICK f \in ChangeFacts, asked \in BOOLEAN :
            changes' = [changes EXCEPT ![d] = PatchedChange(f, asked, inProduction)]
        BY <1>1 DEF StoreChange, WriteChange
    <2>3. lenient' = IF inProduction THEN lenient \ {d} ELSE lenient \cup {d}
        BY <1>1 DEF StoreChange
    <2>4. changes \in [Changes -> ChangeRows \cup {Null}]
        BY DEF TypeInv, TypeOK
    <2> HIDE DEF d, inProduction
    <2>5. /\ PatchedChange(f, asked, inProduction).facts = f
          /\ inProduction /\ Risky(f) => PatchedChange(f, asked, inProduction).manual
        BY DEF PatchedChange
    <2>6. ASSUME NEW e \in Changes, e # d, changes'[e] # Null, e \notin lenient',
                 Risky(changes'[e].facts)
          PROVE changes'[e].manual
        BY <2>2, <2>3, <2>4, <2>6 DEF ManualInv, PresentChanges
    <2>7. ASSUME d \notin lenient', Risky(changes'[d].facts) PROVE changes'[d].manual
        BY <2>1, <2>2, <2>3, <2>4, <2>5, <2>7
    <2> QED BY <2>6, <2>7 DEF ManualInv, PresentChanges
<1>2. ASSUME UNCHANGED <<changes, lenient>> PROVE ManualInv'
    BY <1>2 DEF ManualInv, PresentChanges
<1> QED BY <1>1, <1>2
        DEF Next, CreateConnection, CreateCheck, BeginCreateChange, BeginEditChange,
            UpdateEnvironment, BeginEditConnection, BeginTest, BeginEditCheck, BeginExecution,
            EditConnection, EditCheck, AnnounceTest, Probe, StoreHealth, ExecuteValidation,
            StoreRunHealth, StoreCheck, Abandon, tables, history, vars

\* Nothing blocks an advisory release and nothing warns about it.
LEMMA AdvisoryIsClean == PostureStatus = "advisory" => ~Blocked /\ ~Warned
BY DEF PostureStatus

LEMMA AdvisoryHolds ==
    TypeInv /\ ReadyMeansProbed /\ PassedMeansRun => AdvisoryIsProven
<1> SUFFICES ASSUME TypeInv, ReadyMeansProbed, PassedMeansRun, PostureStatus = "advisory",
                    NEW k \in PresentChecks
             PROVE /\ checks[k].shape.required => checks[k].status = "passed"
                   /\ Runtime(checks[k]) =>
                        LET c == checks[k].connection
                        IN  /\ <<c, connections[c].source>> \in probed
                            /\ checks[k].shape.required => k \in proved
    BY DEF AdvisoryIsProven
<1>1. checks[k].shape.required => checks[k].status = "passed"
    BY AdvisoryIsClean DEF Blocked, StatusBlocks, Warned, StatusWarns, RequiredIn
<1>2. ASSUME Runtime(checks[k])
      PROVE <<checks[k].connection, connections[checks[k].connection].source>> \in probed
    <2> DEFINE c == checks[k].connection
    <2>1. checks[k] \in CheckRows /\ Linked(checks[k])
        BY DEF TypeInv, TypeOK, LinkInv, PresentChecks
    <2>2. c \in Connections /\ connections[c] # Null
        BY <1>2, <2>1 DEF Linked, CheckRows
    <2>3. connections[c].status \in {"defined", "testing", "ready", "error", "unresolved"}
        BY <2>2 DEF TypeInv, TypeOK, ConnectionRows
    <2>4. connections[c].status \notin {"defined", "testing", "error", "unresolved"}
        BY <1>2, AdvisoryIsClean
           DEF Blocked, Warned, ConnectionBlocks, ConnectionWarns
    <2> QED BY <2>2, <2>3, <2>4 DEF ReadyMeansProbed
<1> QED BY <1>1, <1>2 DEF PassedMeansRun

\* The best posture rests on evidence: every required check has passed, the runtime
\* ones by an execution, over a connection that was probed with its present source.
THEOREM AdvisoryReleasesAreProven == Spec => []AdvisoryIsProven
BY InitTypes, NextTypes, ReadyConnectionsWereProbed, PassedChecksWereRun, AdvisoryHolds, PTL
   DEF Spec

LEMMA RiskHolds == TypeInv /\ ManualInv => RiskIsReviewed
<1> SUFFICES ASSUME TypeInv, ManualInv, NEW d \in PresentChanges, d \notin lenient,
                    Risky(changes[d].facts)
             PROVE /\ changes[d].manual
                   /\ PostureStatus \in {"blocked", "review_required"}
                   /\ RollbackSafety # "standard"
    BY DEF RiskIsReviewed
<1>1. changes[d].manual
    BY DEF ManualInv
<1>2. Warned /\ PresentChanges # {}
    BY <1>1 DEF Warned, ChangeWarns
<1>3. PostureStatus \in {"blocked", "review_required"}
    BY <1>2 DEF PostureStatus
<1>4. RollbackSafety # "standard"
    BY <1>2 DEF RollbackSafety
<1> QED BY <1>1, <1>3, <1>4

\* A change that locks, destroys or cannot be undone keeps its manual approval through
\* every update of a request that read the environment as a production one, and no
\* release with such a change is routine, whatever becomes of the environment later.
THEOREM RiskyReleasesAreReviewed == Spec => []RiskIsReviewed
<1>1. Init => ManualInv
    BY DEF Init, ManualInv, PresentChanges
<1> QED BY <1>1, InitTypes, NextTypes, NextManual, RiskHolds, PTL DEF Spec

=============================================================================
