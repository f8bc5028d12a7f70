------------------------- MODULE MCDatabasePosture -------------------------
(* Checks and changes the run of DatabasePosture chooses from, and the       *)
(* bounded inputs on which it evaluates the analysis of a release that is    *)
(* built on the posture.                                                     *)
EXTENDS DatabasePosture, Sequences, TLC

Interchangeable == Permutations(Operators) \cup Permutations(Sources \ (Unbound \cup Unset))

RuntimeBefore == [mode |-> "runtime_read_only", phase |-> "pre_deploy", required |-> TRUE]
RuntimeAfter == [RuntimeBefore EXCEPT !.phase = "post_deploy"]
ManualBefore == [RuntimeBefore EXCEPT !.mode = "manual_attestation"]

AllShapes == {RuntimeBefore, RuntimeAfter, ManualBefore}

Indexing == [operation |-> "index_change", compatibility |-> "backward_compatible",
             reversibility |-> "reversible", lockRisk |-> FALSE]
Locking == [Indexing EXCEPT !.lockRisk = TRUE]
Dropping == [Indexing EXCEPT !.operation = "destructive_change",
                             !.reversibility = "irreversible"]

AllFacts == {Indexing, Locking, Dropping}

----------------------------------------------------------------------------
Release ==
    INSTANCE ReleaseAnalysis
      WITH SensitiveKeys <- {"api_key"}, References <- {"vault/a"}, Blank <- "", NoService <- Null

\* Config sets of one name, version and service, that differ in one or two entries.
Entries ==
    {e \in [key : {"api_key", "limit"}, value : {"", "10", "vault/a"},
            kind : {"literal", "secret_ref"}, source : {""},
            required : BOOLEAN, deprecated : {FALSE}] : e.kind = "secret_ref" => e.value # ""}

Listings == {<<e>> : e \in Entries} \cup (Entries \X Entries)

Revision(n, entries) ==
    [id |-> n, name |-> "limits", version |-> n, service |-> Null, entries |-> entries]

\* A key the accepted revision before it requires is in every accepted revision;
\* the one exception is a key that is repeated and required by one entry only.
ASSUME RequiredKeysStay ==
    \A old, new \in {l \in Listings : Release!Accepted(Revision(1, l), << >>)} :
        Release!Accepted(Revision(2, new), <<Revision(1, old)>>)
          => \A i \in DOMAIN old :
                old[i].required
                  => \/ old[i].key \in Release!KeysOf(new)
                     \/ \E j \in DOMAIN old : old[j].key = old[i].key /\ ~old[j].required

\* The revision before, which the rollback guidance says to reapply, is listed as blocked
\* once its successor requires a key it has not, and not even its status can be changed.
ASSUME OldRevisionTurnsBlocked ==
    \E old, new \in Listings :
        /\ Release!Accepted(Revision(1, old), << >>)
        /\ Release!Accepted(Revision(2, new), <<Revision(1, old)>>)
        /\ ~Release!AcceptedUpdate(Revision(1, old), [status |-> "retired"],
                                    <<Revision(1, old), Revision(2, new)>>)

\* Of a repeated key only the first entry is validated.
ASSUME RepeatedKeyIsUnchecked ==
    \E entries \in Listings :
        /\ Release!Accepted(Revision(1, entries), << >>)
        /\ ~Release!Accepted(Revision(1, Tail(entries)), << >>)

----------------------------------------------------------------------------
(* Bundles of one or two changes of two services. *)

Live == [production |-> TRUE, regulated |-> FALSE]

Postures ==
    {p \in [status : {"none", "advisory", "review_required", "blocked"},
            safety : {"standard", "guarded", "manual_review", "unsafe"},
            warned : BOOLEAN, manual : BOOLEAN, findings : {FALSE}, recorded : {TRUE}] :
        /\ p.status = "none" => p.safety = "standard" /\ ~p.warned /\ ~p.manual
        /\ p.status = "advisory" => ~p.warned /\ ~p.manual
        /\ p.safety \in {"manual_review", "unsafe"} => p.warned}

Facing == [customerFacing |-> TRUE, regulated |-> FALSE]

Bundle(services, scores) ==
    [changes |-> [i \in DOMAIN scores |-> [schema |-> FALSE, resources |-> 1]],
     services |-> [s \in services |-> Facing],
     assessments |-> [i \in DOMAIN scores |->
                        [score |-> scores[i], level |-> Release!Classify(scores[i])]],
     configs |-> << >>, executions |-> << >>, outcomes |-> {},
     dependencies |-> {[from |-> "a", to |-> "b"]}, environment |-> Live,
     database |-> [status |-> "none", safety |-> "standard", warned |-> FALSE,
                   manual |-> FALSE, findings |-> FALSE, recorded |-> FALSE]]

Sizes == {5, 29, 30, 54, 55, 79, 80, 100, 140}

\* A bundle is rated no safer than any of its changes alone, at every threshold.
ASSUME BundleIsNoSafer ==
    \A x, y \in Sizes, services \in {{"a"}, {"a", "b"}} :
        LET level == Release!Analysis(Bundle(services, <<x, y>>)).level
        IN \A alone \in {x, y} :
              Release!Rank(level) >= Release!Rank(Release!Analysis(Bundle({"a"}, <<alone>>)).level)

Bundles ==
    {[Bundle(services, <<score>>) EXCEPT
        !.database = posture, !.outcomes = outcomes, !.executions = linked,
        !.configs = configs, !.environment.production = live] :
       services \in {{"a"}, {"a", "b"}}, score \in {5, 60}, posture \in Postures,
       outcomes \in SUBSET {"block", "require_manual_review"},
       linked \in {<< >>, <<"in_progress">>, <<"verified">>},
       configs \in {<< >>, <<[status |-> "blocked", references |-> {}]>>,
                    <<[status |-> "warning", references |-> {"api_key"}]>>},
       live \in BOOLEAN}

\* What blocks is put before the approvers, in production everything that is found is;
\* only a bundle whose database can follow is advised to go back, and none that reads
\* ready is advised not to.
ASSUME FindingsReachApprovers ==
    \A b \in Bundles :
        LET a == Release!Analysis(b)
        IN /\ a.status = "blocked" => "policy" \in Release!ApproverSummary(b)
           /\ b.environment.production => \A item \in a.readiness : item.acknowledge
           /\ a.rollback.safe => b.database.safety \notin {"unsafe", "manual_review"}
           /\ a.status = "ready" => a.rollback.safe

----------------------------------------------------------------------------
(* Runtime checks *)

Questions == INSTANCE DatabaseChecks WITH Blank <- "", Identifiers <- {"public", "t", "c"}

Specifications ==
    [json : BOOLEAN, schema : {"", "public"}, table : {"", "t", "t-1"}, column : {"", "c"},
     index : {"", "c"}, subject : {"", "table", "column", "index", "migration_marker"},
     value : {"", "7"}, operator : {"", "eq", "lt", "gte"}, expected : {{}, {0}, {1}}]

Kinds == Questions!CheckTypes \cup {"compatibility_check", "custom_read_only"}

EmptyDatabase == [tables |-> {}, columns |-> {}, indexes |-> {}, values |-> {}, rows |-> << >>]

Migrated(n) ==
    [tables |-> {<<"public", "t">>}, columns |-> {<<"public", "t", "c">>},
     indexes |-> {<<"public", "c">>}, values |-> {<<"public", "t", "c", "7">> : i \in 1 .. n},
     rows |-> [t \in {<<"public", "t">>} |-> n]]

\* A check that was accepted gets an answer, if nothing goes wrong: the parser and the
\* execution know the same types, subjects and operators (database_execution.go
\* parseRuntimeDatabaseCheckSpec, executeRuntimeDatabaseValidation).
ASSUME AcceptedChecksAreAnswered ==
    \A type \in Kinds, spec \in Specifications :
        Questions!Accepted(type, spec) =>
            \A db \in {EmptyDatabase, Migrated(0), Migrated(1)} :
                Questions!Execute(db, type, spec, "none").status \in {"passed", "failed"}

\* No check passes on a database that was never migrated, "fewer rows than" included, and
\* none passes when a step of its execution failed.
ASSUME NothingPassesUnproven ==
    \A type \in Kinds, spec \in Specifications :
        Questions!Accepted(type, spec) =>
            /\ Questions!Execute(EmptyDatabase, type, spec, "none").status = "failed"
            /\ \A trouble \in {"resolve", "open", "query", "commit"} :
                  Questions!Execute(Migrated(1), type, spec, trouble).status
                    \in {"blocked", "errored"}

\* A name that has to be quoted, and a type that cannot be run, are refused.
ASSUME OddNamesAreRefused ==
    \A type \in Kinds, spec \in Specifications :
        Questions!Accepted(type, spec)
          => spec.table # "t-1" /\ type \in Questions!CheckTypes
=============================================================================
