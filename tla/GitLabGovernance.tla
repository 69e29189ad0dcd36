-------------------------- MODULE GitLabGovernance --------------------------
(***************************************************************************)
(* The GitLab governance lane: scheduled sweeps (cli/governance_poll.py)   *)
(* that gate every open merge request (cli/governance_gate.py,             *)
(* cli/governance_check.py, cli/classify_pr.py) through the GitLab adapter *)
(* (adapters/gitlab_api.py), one action per API call, interleaved with     *)
(* authors who push, maintainers who approve and GitLab itself, which runs *)
(* pipelines and merges.                                                   *)
(*                                                                         *)
(* Each call can fail.  The sweep catches the failure, leaves that merge   *)
(* request where it stands and goes on with the next one; the retry is the *)
(* next tick.  Nothing serialises the sweeps: a slow one and its successor *)
(* overlap.                                                                *)
(*                                                                         *)
(* What the forge does (merging, arming, approvals, threads) is modelled   *)
(* from how the adapter uses it and from the measurements ports.py and the *)
(* adapter record.                                                         *)
(***************************************************************************)
EXTENDS GovernanceDecision, Integers, Sequences

CONSTANTS
    MRs,            \* merge request numbers
    Sweeps,         \* concurrent runs of governance-poll
    Revisions,      \* head commits
    FirstHead,      \* [MRs -> Revisions]
    Content,        \* [Revisions -> content], see GovernanceDecision
    GoneTags,       \* tags the registry confirms gone
    Accounts,       \* numeric account ids
    Author,         \* [MRs -> Accounts]
    Maintainers,    \* .github/maintainers.yml at the base ref
    Reviewers,      \* bound: [MRs -> accounts that may approve it]
    Forks,          \* merge requests whose source project is a fork
    AllowRewind,    \* whether a branch may be pushed back to an old revision
    MaxPushes,      \* bound: [MRs -> pushes to that merge request]
    MaxFailures,    \* bound: failed calls and killed runs, in total
    NotMerged       \* the merged revision of an open merge request

ASSUME GitLabAssumption ==
    /\ MRs \subseteq Nat /\ MRs # {}
    /\ FirstHead \in [MRs -> Revisions]
    /\ Author \in [MRs -> Accounts]
    /\ Maintainers \subseteq Accounts
    /\ Reviewers \in [MRs -> SUBSET Accounts]
    /\ Forks \subseteq MRs
    /\ AllowRewind \in BOOLEAN
    /\ MaxPushes \in [MRs -> Nat]
    /\ MaxFailures \in Nat
    /\ NotMerged \notin Revisions

VARIABLES
    versions,       \* diff versions of each merge request, oldest first
    approvedBy,     \* accounts whose approval of it stands
    approvals,      \* its approved events: who, and the newest version then
    threads,        \* its discussions carrying the bot's marker, oldest first
    status,         \* governance/review-required, per merge request and commit
    labels,         \* its lane labels
    armed,          \* its merge_when_pipeline_succeeds flag
    pipeline,       \* the merge request pipeline of each of its commits
    merged,         \* the revision merged, or NotMerged
    todo,           \* merge requests each sweep has still to gate
    job,            \* what each sweep is doing and has read so far
    failures,       \* failed calls and killed runs so far
    greened,        \* history: revisions ever recorded success
    armedFor        \* history: revisions auto-merge was armed for

discussion == <<versions, approvedBy, approvals>>
gate == <<threads, status, labels>>
merging == <<armed, pipeline, merged>>
history == <<greened, armedFor>>
vars == <<discussion, gate, merging, history, todo, job, failures>>

Version == [rev : Revisions, by : Accounts]
VersionNumber == Nat \ {0}
Approval == [by : Accounts, at : VersionNumber]

\* A thread is "waved" once a person, not the bot, has resolved it.
ThreadState == {"open", "resolved", "waved"}

\* The call a sweep makes next.  "next" is between two merge requests.
Call == {"list", "next", "paths", "reread", "classify", "label", "unlabel",
         "pushers", "pushEvents", "approvedBy", "versions", "events",
         "findThread", "openThread", "reopenThread", "status",
         "findReleased", "resolveThread", "readArmed", "cancelArm",
         "readPipeline", "createPipeline", "arm"}

Job == [call      : Call,
        mr        : MRs,
        head      : Revisions,           \* PullRequestInfo.head_sha
        paths     : Revisions,           \* the revision changed_paths came from
        labels    : SUBSET ChangeClass,  \* PullRequestInfo.labels
        class     : ChangeClass,
        owner     : BOOLEAN,             \* G-19 holds
        approvers : SUBSET Accounts,     \* approvals that still count
        since     : VersionNumber,       \* the version they must postdate
        state     : {"pending", "success"},
        thread    : Nat]                 \* the marked discussion found

TypeOK ==
    /\ versions \in [MRs -> Seq(Version)]
    /\ \A m \in MRs : Len(versions[m]) \in 1 .. MaxPushes[m] + 1
    /\ approvedBy \in [MRs -> SUBSET Accounts]
    /\ approvals \in [MRs -> SUBSET Approval]
    /\ threads \in [MRs -> Seq(ThreadState)]
    /\ status \in [MRs -> [Revisions -> {"absent", "pending", "success"}]]
    /\ labels \in [MRs -> SUBSET ChangeClass]
    /\ armed \in [MRs -> BOOLEAN]
    /\ pipeline \in [MRs -> [Revisions -> {"none", "running", "passed"}]]
    /\ merged \in [MRs -> Revisions \cup {NotMerged}]
    /\ todo \in [Sweeps -> SUBSET MRs]
    /\ job \in [Sweeps -> Job]
    /\ failures \in 0 .. MaxFailures
    /\ greened \in [MRs -> SUBSET Revisions]
    /\ armedFor \in [MRs -> SUBSET Revisions]

Newest(m) == Len(versions[m])
HeadOf(m) == versions[m][Newest(m)].rev
Opened(m) == merged[m] = NotMerged
Open(m) == {i \in DOMAIN threads[m] : threads[m][i] = "open"}

IdleJob ==
    [call |-> "list", mr |-> CHOOSE m \in MRs : TRUE,
     head |-> CHOOSE r \in Revisions : TRUE, paths |-> CHOOSE r \in Revisions : TRUE,
     labels |-> {}, class |-> "refresh", owner |-> FALSE, approvers |-> {},
     since |-> 1, state |-> "pending", thread |-> 0]

\* Freshly opened merge requests, with no pipeline for their head: a branch
\* pushed with CI_JOB_TOKEN starts none.
Init ==
    /\ versions = [m \in MRs |-> <<[rev |-> FirstHead[m], by |-> Author[m]]>>]
    /\ approvedBy = [m \in MRs |-> {}]
    /\ approvals = [m \in MRs |-> {}]
    /\ threads = [m \in MRs |-> <<>>]
    /\ status = [m \in MRs |-> [r \in Revisions |-> "absent"]]
    /\ labels = [m \in MRs |-> {}]
    /\ armed = [m \in MRs |-> FALSE]
    /\ pipeline = [m \in MRs |-> [r \in Revisions |-> "none"]]
    /\ merged = [m \in MRs |-> NotMerged]
    /\ todo = [s \in Sweeps |-> {}]
    /\ job = [s \in Sweeps |-> IdleJob]
    /\ failures = 0
    /\ greened = [m \in MRs |-> {}]
    /\ armedFor = [m \in MRs |-> {}]

-----------------------------------------------------------------------------
(* The sweep: governance_poll.run.                                         *)

At(s, call) == job[s].call = call

\* Leave everything but one sweep's own state alone.
ForgeUnchanged == UNCHANGED <<discussion, gate, merging, history>>
Becomes(s, j) == job' = [job EXCEPT ![s] = j]
Move(s, call) == Becomes(s, [job[s] EXCEPT !.call = call])

\* An idle sweep keeps nothing of the last one.
Forget(s) == Becomes(s, [IdleJob EXCEPT !.call = "next"])

\* list_open_pull_requests
ListOpen(s) ==
    /\ At(s, "list")
    /\ todo' = [todo EXCEPT ![s] = {m \in MRs : Opened(m)}]
    /\ Move(s, "next")
    /\ ForgeUnchanged /\ UNCHANGED failures

EndSweep(s) ==
    /\ At(s, "next") /\ todo[s] = {}
    /\ Move(s, "list")
    /\ ForgeUnchanged /\ UNCHANGED <<todo, failures>>

\* Any call of the merge request being gated can raise: a refusal, a rate
\* limit, a 5xx.  _gate_one's caller reports it and takes the next one.
Fail(s) ==
    /\ job[s].call \notin {"list", "next"}
    /\ failures < MaxFailures
    /\ failures' = failures + 1
    /\ Forget(s)
    /\ ForgeUnchanged /\ UNCHANGED todo

\* The CI job is killed; the next schedule starts from nothing.
Killed(s) ==
    /\ ~At(s, "list")
    /\ failures < MaxFailures
    /\ failures' = failures + 1
    /\ todo' = [todo EXCEPT ![s] = {}]
    /\ Becomes(s, IdleJob)
    /\ ForgeUnchanged

-----------------------------------------------------------------------------
(* get_pull_request_info: the merge request, its diffs, the head again.    *)

ReadMergeRequest(s) ==
    \E m \in todo[s] :
        /\ At(s, "next")
        /\ \A n \in todo[s] : m <= n
        /\ todo' = [todo EXCEPT ![s] = @ \ {m}]
        /\ Becomes(s, [job[s] EXCEPT !.call = "paths", !.mr = m,
                                     !.head = HeadOf(m), !.labels = labels[m]])
        /\ ForgeUnchanged /\ UNCHANGED failures

ReadDiffs(s) ==
    /\ At(s, "paths")
    /\ Becomes(s, [job[s] EXCEPT !.call = "reread", !.paths = HeadOf(job[s].mr)])
    /\ ForgeUnchanged /\ UNCHANGED <<todo, failures>>

\* Mutant: the head is not compared.
RereadHeadUnchecked(s) ==
    /\ At(s, "reread")
    /\ Move(s, "classify")
    /\ ForgeUnchanged /\ UNCHANGED <<todo, failures>>

RereadHead(s) ==
    /\ At(s, "reread")
    /\ IF HeadOf(job[s].mr) = job[s].head THEN Move(s, "classify") ELSE Forget(s)
    /\ ForgeUnchanged /\ UNCHANGED <<todo, failures>>

-----------------------------------------------------------------------------
(* classify_pull_request and apply_change_class.                           *)

JudgedClass(j) ==
    ClassifyPullRequest(Content[j.paths].paths, Content[j.head].root, GoneTags)

Unreadable(j) == ClassifyRaises(Content[j.paths].paths, Content[j.head].malformed)

\* Mutant: a root that does not parse ends the whole sweep.
ClassifyEndsSweep(s) ==
    /\ At(s, "classify")
    /\ IF Unreadable(job[s])
       THEN Becomes(s, IdleJob) /\ todo' = [todo EXCEPT ![s] = {}]
       ELSE /\ Becomes(s, [job[s] EXCEPT !.call = "label", !.class = JudgedClass(job[s])])
            /\ UNCHANGED todo
    /\ ForgeUnchanged /\ UNCHANGED failures

\* Root files are read by commit, so the reads are one step.  A root that does
\* not parse raises.
Classify(s) ==
    /\ At(s, "classify")
    /\ IF Unreadable(job[s])
       THEN Forget(s)
       ELSE Becomes(s, [job[s] EXCEPT !.call = "label", !.class = JudgedClass(job[s])])
    /\ ForgeUnchanged /\ UNCHANGED <<todo, failures>>

AddLabel(s) ==
    /\ At(s, "label")
    /\ labels' = [labels EXCEPT ![job[s].mr] = @ \cup {job[s].class}]
    /\ Move(s, "unlabel")
    /\ UNCHANGED <<discussion, threads, status, merging, history, todo, failures>>

\* Mutant: the labels of earlier lanes stay.
RemoveLabelNever(s) ==
    /\ At(s, "unlabel")
    /\ Move(s, IF AutoMerge = "owners" /\ job[s].class = "refresh" THEN "pushers" ELSE "approvedBy")
    /\ ForgeUnchanged /\ UNCHANGED <<todo, failures>>

\* The stale classes among the labels read with the merge request, one call
\* each, then the gate itself.  Only an unapproved refresh under "owners" needs
\* the pushers.
RemoveLabel(s) ==
    LET stale == job[s].labels \ {job[s].class}
    IN  /\ At(s, "unlabel")
        /\ IF stale # {}
           THEN \E l \in stale :
                    /\ labels' = [labels EXCEPT ![job[s].mr] = @ \ {l}]
                    /\ Becomes(s, [job[s] EXCEPT !.labels = @ \ {l}])
           ELSE /\ UNCHANGED labels
                /\ Move(s, IF AutoMerge = "owners" /\ job[s].class = "refresh"
                           THEN "pushers" ELSE "approvedBy")
        /\ UNCHANGED <<discussion, threads, status, merging, history, todo, failures>>

-----------------------------------------------------------------------------
(* _author_owns_every_touched_package: list_pushers, then the base roots.  *)

\* A fork, or a head that moved, is answered None: not established.
ReadPushers(s) ==
    LET m == job[s].mr
    IN  /\ At(s, "pushers")
        /\ Move(s, IF m \in Forks \/ HeadOf(m) # job[s].head THEN "approvedBy" ELSE "pushEvents")
        /\ ForgeUnchanged /\ UNCHANGED <<todo, failures>>

Pushers(m) == {versions[m][i].by : i \in DOMAIN versions[m]}

ReadPushEvents(s) ==
    LET m == job[s].mr
    IN  /\ At(s, "pushEvents")
        /\ Becomes(s, [job[s] EXCEPT !.call = "approvedBy",
                   !.owner = OwnsEveryTouchedPackage(Content[job[s].paths].paths,
                                                     {Author[m]} \cup Pushers(m))])
        /\ ForgeUnchanged /\ UNCHANGED <<todo, failures>>

\* Answered None as well: a push too large for its event to name a ref anywhere in
\* the project, a feed longer than the page cap, an event that cannot be read, a
\* base that moved.  Nothing bounds how often, and the gate goes on without.
PushersUntold(s) ==
    /\ job[s].call \in {"pushers", "pushEvents"}
    /\ Move(s, "approvedBy")
    /\ ForgeUnchanged /\ UNCHANGED <<todo, failures>>

-----------------------------------------------------------------------------
(* _approver: list_approvals is three reads.                               *)

Eligible(m) == Maintainers \ {Author[m]}

\* Mutant: the thread is released before the green status is written.
DecideReleasesFirst(s, approved) ==
    LET state == Disposition(job[s].class, job[s].owner, approved)
    IN  Becomes(s, [job[s] EXCEPT !.state = state,
                               !.call = IF state = "success" THEN "findReleased" ELSE "findThread",
                               !.labels = {}, !.owner = FALSE, !.approvers = {}, !.since = 1])

\* With the approvals known, _disposition decides, and what was read for it is
\* done with.  A change that is not green has its review thread written before
\* its status.
Decide(s, approved) ==
    LET state == Disposition(job[s].class, job[s].owner, approved)
    IN  Becomes(s, [job[s] EXCEPT !.state = state,
                               !.call = IF state = "success" THEN "status" ELSE "findThread",
                               !.labels = {}, !.owner = FALSE, !.approvers = {}, !.since = 1])

\* Nobody eligible, or nobody approved: no further read.
ReadApprovedBy(s) ==
    LET m == job[s].mr
    IN  /\ At(s, "approvedBy")
        /\ IF Eligible(m) = {} \/ approvedBy[m] = {}
           THEN Decide(s, FALSE)
           ELSE Becomes(s, [job[s] EXCEPT !.call = "versions", !.approvers = approvedBy[m]])
        /\ ForgeUnchanged /\ UNCHANGED <<todo, failures>>

\* The newest version must still be the revision being gated.
ReadVersions(s) ==
    LET m == job[s].mr
    IN  /\ At(s, "versions")
        /\ IF HeadOf(m) = job[s].head
           THEN Becomes(s, [job[s] EXCEPT !.call = "events", !.since = Newest(m)])
           ELSE Decide(s, FALSE)
        /\ ForgeUnchanged /\ UNCHANGED <<todo, failures>>

\* Mutant: any approval ever given counts.
ApproversEver(m, version) == IF version \in Nat THEN {e.by : e \in approvals[m]} ELSE {}

\* Who approved after that version was created.
ApproversSince(m, version) == {e.by : e \in {a \in approvals[m] : a.at >= version}}

ReadApprovalEvents(s) ==
    LET m == job[s].mr
    IN  /\ At(s, "events")
        /\ Decide(s, Eligible(m) \cap job[s].approvers
                                 \cap ApproversSince(m, job[s].since) # {})
        /\ ForgeUnchanged /\ UNCHANGED <<todo, failures>>

-----------------------------------------------------------------------------
(* gate_pull_request: the block goes up before the status, and comes down   *)
(* only after it.                                                          *)

\* _find_marked_discussion: the oldest one, or 0.
MarkedDiscussion(m) == IF threads[m] = <<>> THEN 0 ELSE 1

\* request_reviewers, the comment's body, and create_comment's lookup.
FindThread(s) ==
    LET i == MarkedDiscussion(job[s].mr)
    IN  /\ At(s, "findThread")
        /\ IF SummaryRaises(Content[job[s].paths].paths, Content[job[s].head].malformed)
           THEN Forget(s)
           ELSE Becomes(s, [job[s] EXCEPT !.call = IF i = 0 THEN "openThread" ELSE "reopenThread",
                                          !.thread = i])
        /\ ForgeUnchanged /\ UNCHANGED <<todo, failures>>

OpenThread(s) ==
    /\ At(s, "openThread")
    /\ threads' = [threads EXCEPT ![job[s].mr] = Append(@, "open")]
    /\ Move(s, "status")
    /\ UNCHANGED <<discussion, status, labels, merging, history, todo, failures>>

\* Mutant: an existing thread is left as it is.
ReopenThreadNot(s) ==
    /\ At(s, "reopenThread")
    /\ Move(s, "status")
    /\ ForgeUnchanged /\ UNCHANGED <<todo, failures>>

ReopenThread(s) ==
    /\ At(s, "reopenThread")
    /\ threads' = [threads EXCEPT ![job[s].mr][job[s].thread] = "open"]
    /\ Move(s, "status")
    /\ UNCHANGED <<discussion, status, labels, merging, history, todo, failures>>

\* Mutant: the status goes on whatever the head is by now.
SetCommitStatusOnHead(s) ==
    LET m == job[s].mr
        green == job[s].state = "success"
    IN  /\ At(s, "status")
        /\ status' = [status EXCEPT ![m][HeadOf(m)] = job[s].state]
        /\ greened' = [greened EXCEPT ![m] = IF green THEN @ \cup {HeadOf(m)} ELSE @]
        /\ Move(s, IF green THEN "findReleased" ELSE "readArmed")
        /\ UNCHANGED <<discussion, threads, labels, merging, armedFor, todo, failures>>

\* Re-posting the state already held is refused by GitLab and read as done.
SetCommitStatus(s) ==
    LET m == job[s].mr
        green == job[s].state = "success"
    IN  /\ At(s, "status")
        /\ status' = [status EXCEPT ![m][job[s].head] = job[s].state]
        /\ greened' = [greened EXCEPT ![m] = IF green THEN @ \cup {job[s].head} ELSE @]
        /\ Move(s, IF green THEN "findReleased" ELSE "readArmed")
        /\ UNCHANGED <<discussion, threads, labels, merging, armedFor, todo, failures>>

\* Mutant: a green change keeps its thread.
FindReleasedNever(s) ==
    /\ At(s, "findReleased")
    /\ Move(s, "readPipeline")
    /\ ForgeUnchanged /\ UNCHANGED <<todo, failures>>

\* resolve_review_thread
FindReleased(s) ==
    LET i == MarkedDiscussion(job[s].mr)
    IN  /\ At(s, "findReleased")
        /\ Becomes(s, [job[s] EXCEPT !.call = IF i = 0 THEN "readPipeline" ELSE "resolveThread",
                                   !.thread = i])
        /\ ForgeUnchanged /\ UNCHANGED <<todo, failures>>

ResolveThread(s) ==
    /\ At(s, "resolveThread")
    /\ threads' = [threads EXCEPT ![job[s].mr][job[s].thread] = "resolved"]
    /\ Move(s, "readPipeline")
    /\ UNCHANGED <<discussion, status, labels, merging, history, todo, failures>>

-----------------------------------------------------------------------------
(* sync_auto_merge and ensure_head_pipeline.                               *)

\* withdraw_auto_merge: read the flag, cancel only what is armed; then give a
\* human-lane head confined to p/ a pipeline.
AfterWithdraw(s) ==
    IF ConfinedToPackageTree(Content[job[s].paths].paths)
    THEN Move(s, "readPipeline") ELSE Forget(s)

ReadArmed(s) ==
    /\ At(s, "readArmed")
    /\ IF armed[job[s].mr] THEN Move(s, "cancelArm") ELSE AfterWithdraw(s)
    /\ ForgeUnchanged /\ UNCHANGED <<todo, failures>>

\* Cancelling what is no longer armed is refused, and raises.
CancelArm(s) ==
    LET m == job[s].mr
    IN  /\ At(s, "cancelArm")
        /\ IF armed[m] /\ Opened(m) THEN AfterWithdraw(s) ELSE Forget(s)
        /\ armed' = [armed EXCEPT ![m] = @ /\ ~Opened(m)]
        /\ UNCHANGED <<discussion, gate, pipeline, merged, history, todo, failures>>

AfterPipeline(s) == IF job[s].state = "success" THEN Move(s, "arm") ELSE Forget(s)

\* Mutant: no pipeline is ever created.
ReadPipelineOnly(s) ==
    /\ At(s, "readPipeline")
    /\ AfterPipeline(s)
    /\ ForgeUnchanged /\ UNCHANGED <<todo, failures>>

\* ensure_head_pipeline's re-read: not for a fork, not for a head that moved,
\* not twice.
ReadPipeline(s) ==
    LET m == job[s].mr
    IN  /\ At(s, "readPipeline")
        /\ IF m \in Forks \/ HeadOf(m) # job[s].head \/ pipeline[m][job[s].head] # "none"
           THEN AfterPipeline(s)
           ELSE Move(s, "createPipeline")
        /\ ForgeUnchanged /\ UNCHANGED <<todo, failures>>

\* The request names the merge request, not a commit: GitLab runs its head.
CreatePipeline(s) ==
    LET m == job[s].mr
    IN  /\ At(s, "createPipeline")
        /\ pipeline' = [pipeline EXCEPT ![m][HeadOf(m)] = "running"]
        /\ AfterPipeline(s)
        /\ UNCHANGED <<discussion, gate, armed, merged, greened, armedFor, todo, failures>>

\* A 400 or 403 is reported and the arm still happens.
PipelineRefused(s) ==
    /\ At(s, "createPipeline")
    /\ failures < MaxFailures
    /\ failures' = failures + 1
    /\ AfterPipeline(s)
    /\ ForgeUnchanged /\ UNCHANGED todo

\* Mutant: auto-merge is armed for the head of the moment, not the one judged.
ArmUnbound(s) ==
    LET m == job[s].mr
    IN  /\ At(s, "arm")
        /\ IF Opened(m)
           THEN /\ armed' = [armed EXCEPT ![m] = TRUE]
                /\ armedFor' = [armedFor EXCEPT ![m] = @ \cup {HeadOf(m)}]
           ELSE UNCHANGED <<armed, armedFor>>
        /\ Forget(s)
        /\ UNCHANGED <<discussion, gate, pipeline, merged, greened, todo, failures>>

\* enable_auto_merge: GitLab refuses a head that moved, quietly for the sweep.
Arm(s) ==
    LET m == job[s].mr
    IN  /\ At(s, "arm")
        /\ IF HeadOf(m) = job[s].head /\ Opened(m)
           THEN /\ armed' = [armed EXCEPT ![m] = TRUE]
                /\ armedFor' = [armedFor EXCEPT ![m] = @ \cup {job[s].head}]
           ELSE UNCHANGED <<armed, armedFor>>
        /\ Forget(s)
        /\ UNCHANGED <<discussion, gate, pipeline, merged, greened, todo, failures>>

-----------------------------------------------------------------------------
(* Everybody else.                                                         *)

\* A push is a new diff version; approvals and threads survive it.  Whether a
\* pending auto-merge does, and whether the new head gets a pipeline of its own
\* (a CI_JOB_TOKEN push does not), is GitLab's.
Push(m, r, a) ==
    /\ Opened(m) /\ Newest(m) <= MaxPushes[m]
    /\ r # HeadOf(m)
    /\ AllowRewind \/ \A i \in DOMAIN versions[m] : versions[m][i].rev # r
    /\ versions' = [versions EXCEPT ![m] = Append(@, [rev |-> r, by |-> a])]
    /\ \E keep \in BOOLEAN : armed' = [armed EXCEPT ![m] = @ /\ keep]
    /\ \E p \in {"running", pipeline[m][r]} : pipeline' = [pipeline EXCEPT ![m][r] = p]
    /\ UNCHANGED <<approvedBy, approvals, gate, merged, history, todo, job, failures>>

Approve(m, a) ==
    /\ Opened(m) /\ a \notin approvedBy[m]
    /\ approvedBy' = [approvedBy EXCEPT ![m] = @ \cup {a}]
    /\ approvals' = [approvals EXCEPT ![m] = @ \cup {[by |-> a, at |-> Newest(m)]}]
    /\ UNCHANGED <<versions, gate, merging, history, todo, job, failures>>

Unapprove(m, a) ==
    /\ Opened(m) /\ a \in approvedBy[m]
    /\ approvedBy' = [approvedBy EXCEPT ![m] = @ \ {a}]
    /\ UNCHANGED <<versions, approvals, gate, merging, history, todo, job, failures>>

\* A person resolves the bot's thread by hand.
WaveThrough(m) ==
    /\ Opened(m)
    /\ \E i \in Open(m) : threads' = [threads EXCEPT ![m][i] = "waved"]
    /\ UNCHANGED <<discussion, status, labels, merging, history, todo, job, failures>>

PipelinePasses(m, r) ==
    /\ pipeline[m][r] = "running"
    /\ pipeline' = [pipeline EXCEPT ![m][r] = "passed"]
    /\ UNCHANGED <<discussion, gate, armed, merged, history, todo, job, failures>>

\* "All threads must be resolved" gates every merge request; "pipelines must
\* succeed" gates a fork's on the fork's own pipeline, which is no evidence of
\* the gate's decision, and any other on its pipeline and the gate's status.
Mergeable(m) ==
    /\ Opened(m) /\ Open(m) = {}
    /\ \/ m \in Forks
       \/ status[m][HeadOf(m)] = "success" /\ pipeline[m][HeadOf(m)] = "passed"

Merge(m) ==
    /\ Mergeable(m)
    /\ merged' = [merged EXCEPT ![m] = HeadOf(m)]
    /\ armed' = [armed EXCEPT ![m] = FALSE]
    /\ UNCHANGED <<discussion, gate, pipeline, history, todo, job, failures>>

MergeArmed(m) == armed[m] /\ Merge(m)
MergeByPerson(m) == ~armed[m] /\ Merge(m)

-----------------------------------------------------------------------------
SweepStep(s) ==
    \/ ListOpen(s) \/ EndSweep(s)
    \/ ReadMergeRequest(s) \/ ReadDiffs(s) \/ RereadHead(s)
    \/ Classify(s) \/ AddLabel(s) \/ RemoveLabel(s)
    \/ ReadPushers(s) \/ ReadPushEvents(s) \/ PushersUntold(s)
    \/ ReadApprovedBy(s) \/ ReadVersions(s) \/ ReadApprovalEvents(s)
    \/ FindThread(s) \/ OpenThread(s) \/ ReopenThread(s)
    \/ SetCommitStatus(s) \/ FindReleased(s) \/ ResolveThread(s)
    \/ ReadArmed(s) \/ CancelArm(s)
    \/ ReadPipeline(s) \/ CreatePipeline(s) \/ Arm(s)

SweepFault(s) == Fail(s) \/ Killed(s) \/ PipelineRefused(s)

People(m) ==
    \/ \E r \in Revisions, a \in Accounts : Push(m, r, a)
    \/ \E a \in Reviewers[m] : Approve(m, a) \/ Unapprove(m, a)
    \/ WaveThrough(m) \/ MergeByPerson(m)

GitLab(m) == MergeArmed(m) \/ \E r \in Revisions : PipelinePasses(m, r)

Next ==
    \/ \E s \in Sweeps : SweepStep(s) \/ SweepFault(s)
    \/ \E m \in MRs : People(m) \/ GitLab(m)

Spec == Init /\ [][Next]_vars

\* The schedule keeps firing and a call returns; GitLab finishes a pipeline and
\* merges what is armed and mergeable.  Nobody has to push, approve or fail.
Fairness ==
    /\ \A s \in Sweeps : WF_vars(SweepStep(s))
    /\ \A m \in MRs : WF_vars(GitLab(m))

FairSpec == Spec /\ Fairness

-----------------------------------------------------------------------------
(* Safety.                                                                 *)

\* What would justify releasing revision r of m: it was pushed as version v,
\* and then an eligible person approved, or the dial lets its lane through.
LaneOf == [r \in Revisions |-> ClassifyPullRequest(Content[r].paths, Content[r].root, GoneTags)]

PushersUpTo(m, v) == {versions[m][i].by : i \in 1 .. v}

Earned(m, r) ==
    \E v \in DOMAIN versions[m] :
        /\ versions[m][v].rev = r
        /\ \/ \E e \in approvals[m] : e.by \in Eligible(m) /\ e.at >= v
           \/ LaneOf[r] = "refresh" /\ AutoMerge = "always"
           \/ /\ LaneOf[r] = "refresh" /\ AutoMerge = "owners"
              /\ m \notin Forks
              /\ OwnsEveryTouchedPackage(Content[r].paths, {Author[m]} \cup PushersUpTo(m, v))

\* A revision is only ever recorded green for a reason that holds of that very
\* revision: an approval given once it was there, or a refresh whose every
\* pusher so far owns what it touches -- however the gate's dozen reads
\* interleave with pushes, approvals and other sweeps.
GreenIsEarned == \A m \in MRs : \A r \in greened[m] : Earned(m, r)

\* Auto-merge is never armed for a revision no sweep recorded green.
ArmedWasGreen == \A m \in MRs : armedFor[m] \subseteq greened[m]

\* End to end, for a merge request of the project itself: what is merged was
\* earned.  (A fork's is held by the thread alone: see PendingIsBlocked.)
MergedIsEarned ==
    \A m \in MRs \ Forks : ~Opened(m) => Earned(m, merged[m])

\* "The blocking artifact goes up BEFORE the status": the head reads pending
\* only beside a thread that blocks, or that a person resolved.
PendingIsBlocked ==
    \A m \in MRs :
        status[m][HeadOf(m)] = "pending" =>
            \E i \in DOMAIN threads[m] : threads[m][i] # "resolved"

\* The labels an auditor finds on a merged merge request are the lane its
\* merged revision was judged in, whatever lanes and failures came before.
MergedLabelTellsLane ==
    \A m \in MRs \ Forks : ~Opened(m) => labels[m] = {LaneOf[merged[m]]}

\* However many sweeps overlap, the bot releases no thread of a merge request it
\* never recorded green.
ReleasedOnceGreen ==
    [][\A m \in MRs : \A i \in DOMAIN threads[m] :
            threads[m][i] = "open" /\ threads'[m][i] = "resolved" => greened[m] # {}]_vars

\* "The head sha and the changed paths must describe the same revision": what is
\* labelled, published and armed was read at one revision.
Reading == {"list", "next", "paths", "reread"}
JudgedOneRevision ==
    \A s \in Sweeps : job[s].call \notin Reading => job[s].paths = job[s].head

-----------------------------------------------------------------------------
(* Refinement.                                                             *)

\* The lane implements the gate's promise: recording a commit green releases it,
\* and every other call of a sweep is a step the promise does not see.
Gate == INSTANCE MergeGate WITH released <- greened, Ungated <- Forks
ImplementsMergeGate == Gate!Spec

-----------------------------------------------------------------------------
(* Liveness.                                                               *)

Readable(m) == Content[HeadOf(m)].malformed = {}

\* One merge request's failure never ends the sweep: every other one is gated
\* at its last head.
EveryMergeRequestGated ==
    \A m \in MRs :
        <>[](\/ ~Opened(m)
             \/ ~Readable(m)
             \/ status[m][HeadOf(m)] # "absent")

\* An eligible approval of the head that stands releases the merge request:
\* green, and no thread of the bot's left open.
ApprovedAtHead(m) ==
    /\ Opened(m) /\ Readable(m)
    /\ \E e \in approvals[m] :
            e.by \in Eligible(m) \cap approvedBy[m] /\ e.at = Newest(m)

ApprovalReleases ==
    \A m \in MRs :
        <>[]ApprovedAtHead(m) => <>[](status[m][HeadOf(m)] = "success" /\ Open(m) = {})

\* GitLab comes to tell who pushed m, and goes on telling: the bulk push that hid
\* it has left the lookback window.
FeedTells(m) == <>[][\A s \in Sweeps : PushersUntold(s) => job[s].mr # m]_vars

\* Once the feed tells so, a refresh its owners pushed to a branch of the project
\* merges with nobody looking, whatever its first pipeline was, and though every
\* sweep before that took it for a stranger's and asked for a review.
OwnedRefreshMerges ==
    \A m \in MRs \ Forks :
        /\ <>[](/\ AutoMerge = "owners" /\ Readable(m)
                /\ LaneOf[HeadOf(m)] = "refresh"
                /\ OwnsEveryTouchedPackage(Content[HeadOf(m)].paths, {Author[m]} \cup Pushers(m)))
        /\ FeedTells(m)
        => <>(~Opened(m))
=============================================================================
