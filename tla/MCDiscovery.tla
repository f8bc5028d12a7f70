---------------------------- MODULE MCDiscovery -----------------------------
(* The catalog and the requests the run of Discovery uses. *)
EXTENDS Discovery, TLC

CONSTANTS p1, p2, s1, s2, e1, e2, g1, g2, k1, m1, r1

Homes == [x \in {s1, s2, e1, e2} |-> IF x \in {s1, e1} THEN p1 ELSE p2]
Owners == [s \in {s1, s2} |-> IF s = s1 THEN g1 ELSE g2]

\* The workload's namespace matches an environment of another project than its name
\* matches a service of.
Names == [t \in {k1, m1} |->
             IF t = k1 THEN [service |-> s1, environment |-> e2]
             ELSE [service |-> Null, environment |-> e1]]

Nothing == [project |-> Keep, service |-> Keep, environment |-> Keep, repository |-> Keep,
            status |-> Keep]

ForRepositories ==
    {[Nothing EXCEPT !.service = s2], [Nothing EXCEPT !.environment = e1],
     [Nothing EXCEPT !.service = Null, !.project = Null, !.status = ""]}

ForResources ==
    {[Nothing EXCEPT !.service = s2, !.status = "ignored"],
     [Nothing EXCEPT !.environment = Null, !.repository = r1, !.status = ""]}

Said == {[project |-> Null, service |-> s1], [project |-> p2, service |-> Keep]}

----------------------------------------------------------------------------
(* The events of the providers *)

Source == INSTANCE SourceEvents WITH Blank <- ""

File(n, l) == [name |-> n, looks |-> l]
Commits == {<< >>, <<File("readme", {})>>, <<File("", {}), File("ddl", {"schema"})>>,
            <<File("rbac", {"iam"}), File("readme", {})>>}

\* A push names its commits in their order, and the last one as its head.
Pushes ==
    {[event |-> v, malformed |-> FALSE, ref |-> r, head |-> b, commits |-> <<a, b>>] :
        v \in {"push", "push_hook"}, r \in {<<"heads", "x">>, <<"tags", "x">>},
        a \in Commits, b \in Commits}

Reviews ==
    {[event |-> v, malformed |-> FALSE, action |-> x, merged |-> x = "merge", merger |-> u,
      people |-> {"u"}, source |-> "x", claimed |-> n, fetched |-> f, files |-> c] :
        v \in {"pull_request", "merge_request_hook"},
        x \in {"open", "labeled", "close", "merge"},
        u \in {"", "v"}, n \in 0 .. 2, f \in BOOLEAN, c \in Commits}

ProviderOf(e) == IF e.event \in Source!Supported("github") THEN "github" ELSE "gitlab"

\* A push to GitHub is judged by its last commit if that one has files: what an earlier
\* commit of the push touches is missed, where GitLab's parser reads all commits
\* (github_live.go parseGitHubPushWebhook, gitlab_live.go parseGitLabPushWebhook).
ASSUME EarlierCommitsAreMissed ==
    /\ \A e \in Pushes, f \in Pushes :
          (ProviderOf(e) = "github" /\ ProviderOf(f) = "gitlab" /\ e.commits = f.commits)
            => \A x \in Source!ChangeSets("github", e), y \in Source!ChangeSets("gitlab", f) :
                  x.touches \subseteq y.touches
    /\ \E e \in Pushes : \E x \in Source!ChangeSets("github", e) :
          "schema" \notin x.touches /\ \E i \in DOMAIN e.commits[1] :
                                           "schema" \in e.commits[1][i].looks

\* A review whose files could not be fetched becomes a change set that touches nothing,
\* whatever its files are (the ignored errors of both parsers).
ASSUME LostFilesLookRoutine ==
    \A e \in Reviews : ~e.fetched =>
        \A x \in Source!ChangeSets(ProviderOf(e), e) :
            x.touches = {} /\ x.resourceCount = 0 /\ x.types = {"code", "code_review"}

\* Every action on a review, its closing without a merge, too, becomes a change set of its
\* own; only the merged one names an approver (scm.go ingestSCMWebhookChange).
ASSUME EveryActionIsAChange ==
    \A e \in Reviews :
        /\ Cardinality(Source!ChangeSets(ProviderOf(e), e)) = 1
        /\ \A x \in Source!ChangeSets(ProviderOf(e), e) : x.approvers # {} => e.action = "merge"

\* A redelivery from GitHub finds the run of the delivery, one from GitLab only that of an
\* event which is not supported or whose parsing failed (gitlab_webhook.go:52-64).
ASSUME RedeliveriesAreRecognised ==
    \A e \in Pushes \cup Reviews : \A broken \in BOOLEAN :
        Source!IsRecognised(ProviderOf(e), [e EXCEPT !.malformed = broken])
            <=> (ProviderOf(e) = "github" \/ broken)

Interchangeable == Permutations(Actors)
=============================================================================
