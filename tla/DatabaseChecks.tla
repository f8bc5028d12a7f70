--------------------------- MODULE DatabaseChecks ---------------------------
(***************************************************************************)
(* What a runtime validation check asks a database, and the result its     *)
(* execution stores (DatabaseGovernance says which row it ends up in).     *)
(*                                                                         *)
(* A specification is [json, schema, table, column, index, subject, value, *)
(* operator, expected], with Blank for a field that is not given, and      *)
(* expected a set of at most one number. A database is the sets of its     *)
(* tables <<schema, table>>, columns <<schema, table, column>>, indexes    *)
(* <<schema, index>> and values <<schema, table, column, value>>, and the  *)
(* number of rows of each table.                                           *)
(***************************************************************************)
EXTENDS Integers

CONSTANTS
    Blank,          \* the empty text
    Identifiers     \* names of letters, digits and underscores, no digit first

----------------------------------------------------------------------------
(* Specifications: refused when the check is written, and again before it runs. *)

CheckTypes == {"existence_assertion", "migration_completion", "row_count_assertion"}

Comparators == {"eq", "gt", "gte", "lt", "lte"}

Or(value, fallback) == IF value = Blank THEN fallback ELSE value

\* The fields that are not given and have a default.
Completed(type, spec) ==
    [spec EXCEPT !.schema = Or(@, "public"),
                 !.subject = IF type = "row_count_assertion" THEN @ ELSE Or(@, "table")]

\* What a subject of a check type cannot do without; a type has no other subject.
Needs(type, spec) ==
    CASE type \in {"existence_assertion", "migration_completion"} /\ spec.subject = "table" ->
            {spec.table}
      [] type = "existence_assertion" /\ spec.subject = "column" -> {spec.table, spec.column}
      [] type = "existence_assertion" /\ spec.subject = "index" -> {spec.index}
      [] type = "migration_completion" /\ spec.subject = "migration_marker" ->
            {spec.table, spec.column, spec.value}
      [] type = "row_count_assertion" /\ spec.operator \in Comparators /\ spec.expected # {} ->
            {spec.table}
      [] OTHER -> {Blank}

Accepted(type, spec) ==
    /\ spec.json
    /\ Blank \notin Needs(type, Completed(type, spec))
    /\ {Completed(type, spec).schema, spec.table, spec.column, spec.index}
         \subseteq Identifiers \cup {Blank}

----------------------------------------------------------------------------
(* The questions, in the order they are asked: a result, or the next question. *)

Table(spec) == <<spec.schema, spec.table>>
Column(spec) == <<spec.schema, spec.table, spec.column>>

Compare(actual, operator, expected) ==
    CASE operator = "eq" -> actual = expected
      [] operator = "gt" -> actual > expected
      [] operator = "gte" -> actual >= expected
      [] operator = "lt" -> actual < expected
      [] operator = "lte" -> actual <= expected
      [] OTHER -> FALSE

Verdict(holds) == IF holds THEN "passed" ELSE "failed"

\* The marker's table and column, and the table to be counted, are looked for first.
Exists(db, spec) ==
    CASE spec.subject = "table" -> Verdict(Table(spec) \in db.tables)
      [] spec.subject = "column" -> Verdict(Column(spec) \in db.columns)
      [] spec.subject = "index" -> Verdict(<<spec.schema, spec.index>> \in db.indexes)
      [] spec.subject = "migration_marker" ->
            Verdict(/\ Table(spec) \in db.tables
                    /\ Column(spec) \in db.columns
                    /\ <<spec.schema, spec.table, spec.column, spec.value>> \in db.values)
      [] OTHER -> "blocked"

RowCount(db, spec) ==
    Verdict(/\ Table(spec) \in db.tables
            /\ \E n \in spec.expected : Compare(db.rows[Table(spec)], spec.operator, n))

Answer(db, type, spec) ==
    IF type = "row_count_assertion" THEN RowCount(db, spec) ELSE Exists(db, spec)

----------------------------------------------------------------------------
(* An execution *)

Result(status, class, connection) ==
    [status |-> status, class |-> class, connection |-> connection]

\* The run goes through a resolved source, a read-only transaction, the questions and the
\* commit; `trouble` names the first of them that fails. A question that fails leaves the
\* connection ready.
Execute(db, type, spec, trouble) ==
    LET answer == Answer(db, type, Completed(type, spec))
    IN CASE trouble = "resolve" -> Result("blocked", "resolution", "unresolved")
         [] trouble = "open" -> Result("errored", "connect", "error")
         [] trouble = "query" -> Result("errored", "query_failed", "ready")
         [] trouble = "commit" /\ answer \in {"passed", "failed"} ->
                Result("errored", "commit", "error")
         [] trouble \in {"none", "commit"} /\ answer = "blocked" ->
                Result("blocked", "unsupported_subject", "defined")
         [] trouble = "none" /\ answer \in {"passed", "failed"} ->
                Result(answer, "none", "ready")

----------------------------------------------------------------------------
(* Rows are normalised on the way in: what is left out has a default, and a trigger
   that is not known is a manual one. *)

Triggers == {"manual", "release_analysis", "rollout_pre_deploy", "rollout_post_deploy", "rollback"}

NormalRisk(level) == Or(level, "medium")
NormalMode(mode) == Or(mode, "manual_attestation")
NormalStatus(status) == Or(status, "defined")
NormalTrigger(trigger) == IF trigger \in Triggers THEN trigger ELSE "manual"
=============================================================================
