---------------------------- MODULE SourceEvents ----------------------------
(***************************************************************************)
(* What a webhook of GitHub or GitLab becomes: the operation the run is    *)
(* recorded under, and at most one change, of which the ingestion makes a  *)
(* change set whenever it is called (Discovery, IntegrationSync).          *)
(*                                                                         *)
(* An event is [event, malformed] and what its kind carries: a push has    *)
(* ref, head and commits, a pull or merge request has action, merged,      *)
(* merger, people, source, claimed, fetched and files. A file is [name, looks],     *)
(* where looks is the set of things the name makes it look like; a commit  *)
(* is the sequence of its files, the added, removed and modified in this   *)
(* order. A ref is a pair of its kind and its name.                        *)
(***************************************************************************)
EXTENDS Integers, Sequences
LOCAL INSTANCE SequencesExt

CONSTANT Blank      \* the empty text

----------------------------------------------------------------------------
(* Files *)

Names(files) == {files[i].name : i \in DOMAIN files}

\* The first entry of each name that is not empty.
Unique(files) ==
    LET earlier(i) == {files[j].name : j \in 1 .. i - 1}
        kept[i \in 0 .. Len(files)] ==
            IF i = 0 THEN << >>
            ELSE IF files[i].name \in earlier(i) \cup {Blank} THEN kept[i - 1]
                 ELSE Append(kept[i - 1], files[i])
    IN kept[Len(files)]

\* GitHub: the commit pushed last, and the others only if that one has no file.
PushedToGitHub(e) ==
    IF Unique(e.head) # << >> THEN Unique(e.head) ELSE Unique(FlattenSeq(e.commits))

PushedToGitLab(e) == Unique(FlattenSeq(e.commits))

\* A request for the files that fails is ignored.
Fetched(e) == IF e.fetched THEN e.files ELSE << >>

Larger(x, y) == IF x > y THEN x ELSE y

----------------------------------------------------------------------------
(* Events. What is not a change carries none; the set has at most one. *)

Recorded(operation, count) == [operation |-> operation, count |-> count, change |-> {}]

Carried(operation, count, change) ==
    [operation |-> operation, count |-> count, change |-> {change}]

\* A prefix that the ref does not have is not cut off.
Branch(ref) == IF ref[1] = "heads" THEN <<"", ref[2]>> ELSE ref
Tag(ref) == IF ref[1] = "tags" THEN <<"", ref[2]>> ELSE ref

\* The creation and the removal of a branch are pushes, on GitHub those of a tag, too.
Pushed(e, files) ==
    Carried("push", Len(files),
            [type |-> "push", branch |-> Branch(e.ref), tag |-> Tag(e.ref),
             fileCount |-> Len(files), files |-> files, approvers |-> {}, reviewers |-> {}])

GitHubPush(e) == Pushed(e, PushedToGitHub(e))

GitLabPush(e) == Pushed(e, PushedToGitLab(e))

\* On GitLab a tag and a release are no changes.
TagPush(e) == Recorded("tag_push", 1)
GitLabRelease(e) == Recorded("release", 1)

\* Who merges approves.
Merger(e) == IF e.merged THEN {e.merger} \ {Blank} ELSE {}

\* Whatever happened to the review: opened, labelled, closed unmerged.
PullRequest(e) ==
    LET count == Larger(Len(Fetched(e)), e.claimed)
    IN Carried("pull_request", count,
               [type |-> "pull_request", branch |-> <<"", e.source>>, tag |-> <<"", Blank>>,
                fileCount |-> count, files |-> Fetched(e),
                approvers |-> Merger(e), reviewers |-> e.people])

MergeRequest(e) ==
    LET files == Unique(Fetched(e))
        count == Larger(1, Len(files))
    IN Carried("merge_request", count,
               [type |-> "merge_request", branch |-> <<"", e.source>>, tag |-> <<"", Blank>>,
                fileCount |-> count, files |-> files,
                approvers |-> Merger(e), reviewers |-> e.people \ {Blank}])

\* The events of a provider by the names its header gives them.
ParseGitHubWebhook(e) ==
    CASE e.event = "push" -> GitHubPush(e)
      [] e.event = "pull_request" -> PullRequest(e)
      [] e.event \in {"release", "workflow_run"} -> Recorded(e.event, 1)
      [] OTHER -> Recorded(e.event, 0)

ParseGitLabWebhook(e) ==
    CASE e.event = "push_hook" -> GitLabPush(e)
      [] e.event = "merge_request_hook" -> MergeRequest(e)
      [] e.event = "tag_push_hook" -> TagPush(e)
      [] e.event = "release_hook" -> GitLabRelease(e)
      [] OTHER -> Recorded(e.event, 0)

Parse(provider, e) ==
    IF provider = "github" THEN ParseGitHubWebhook(e) ELSE ParseGitLabWebhook(e)

\* The body of an event that is not supported is not looked at.
Supported(provider) ==
    IF provider = "github" THEN {"push", "pull_request", "release", "workflow_run"}
    ELSE {"push_hook", "merge_request_hook", "tag_push_hook", "release_hook"}

Fails(provider, e) == e.malformed /\ e.event \in Supported(provider)

\* A run that failed, too, is recorded with the delivery, under the name of the header.
RecordedAs(provider, e) ==
    IF Fails(provider, e) THEN e.event ELSE Parse(provider, e).operation

\* An earlier run of the delivery is looked for under the name of the header.
IsRecognised(provider, e) == RecordedAs(provider, e) = e.event

----------------------------------------------------------------------------
(* The change set *)

Reviewed == {"pull_request", "merge_request"}

ChangeTypes(change) ==
    {"code"} \cup (IF change.type \in Reviewed THEN {"code_review"} ELSE {})
             \cup (IF \E i \in DOMAIN change.files : "infrastructure" \in change.files[i].looks
                   THEN {"infrastructure"} ELSE {})

Touches(change) == UNION {change.files[i].looks : i \in DOMAIN change.files}

\* Stored for a repository that is mapped to a project, a service and an environment.
ChangeSet(change) ==
    [types |-> ChangeTypes(change), fileCount |-> change.fileCount,
     resourceCount |-> Len(change.files), touches |-> Touches(change),
     approvers |-> change.approvers, reviewers |-> change.reviewers, status |-> "ingested"]

ChangeSets(provider, e) ==
    IF Fails(provider, e) THEN {}
    ELSE {ChangeSet(c) : c \in Parse(provider, e).change}
=============================================================================
