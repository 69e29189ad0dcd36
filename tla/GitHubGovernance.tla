-------------------------- MODULE GitHubGovernance --------------------------
(***************************************************************************)
(* The GitHub governance lane of one pull request.  Every event on it       *)
(* starts a run of governance.yml: the governance-gate job judges what the  *)
(* pull request contains when it reads it (governance-gate --no-arm) and    *)
(* the arm-auto-merge job replays that disposition on the head the EVENT    *)
(* delivered (--arm-only).  One action per call of adapters/github_api.py,  *)
(* interleaved with authors, reviewers and GitHub itself.                   *)
(*                                                                         *)
(* Each of the two jobs is in a concurrency group keyed by the pull request *)
(* number: one job of the group runs, at most one waits, and a job that     *)
(* queues cancels the one that was waiting.  Runs of two pull requests      *)
(* share nothing, so one is enough.                                         *)
(*                                                                         *)
(* governance/review-required is no required check here: branch protection  *)
(* asks for the validation checks, and what the gate controls is whether    *)
(* auto-merge is armed.                                                     *)
(***************************************************************************)
EXTENDS GovernanceDecision, Integers, Sequences

CONSTANTS
    Revisions,      \* head commits
    FirstHead,      \* the head the pull request is opened with
    Content,        \* [Revisions -> content], see GovernanceDecision
    GoneTags,       \* tags the registry confirms gone
    Accounts,       \* numeric account ids
    Author,         \* who opened it
    Writers,        \* accounts with write access to the head branch's repository
    Maintainers,    \* .github/maintainers.yml at the base ref
    Reviewers,      \* bound: the accounts that may review it
    FromFork,       \* whether its head repository is a fork
    AllowRewind,    \* whether the branch may be pushed back to an old revision
    MaxEvents,      \* bound: opened, synchronize and reopened events
    MaxFailures,    \* bound: failed calls and lost runners
    NotMerged       \* the merged revision of a pull request not merged

ASSUME GitHubAssumption ==
    /\ FirstHead \in Revisions
    /\ Author \in Accounts
    /\ Maintainers \subseteq Accounts /\ Reviewers \subseteq Accounts
    /\ FromFork \in BOOLEAN /\ AllowRewind \in BOOLEAN
    /\ MaxEvents \in Nat \ {0} /\ MaxFailures \in Nat
    /\ NotMerged \notin Revisions

VARIABLES
    versions,       \* the heads pushed, oldest first, and by whom
    opened,         \* whether the pull request is open
    merged,         \* the revision merged, or NotMerged
    reviews,        \* approving reviews that stand: who, and of which commit
    checks,         \* [Revisions -> whether the required checks are green]
    labels,         \* its lane labels
    status,         \* governance/review-required, per commit
    comments,       \* how many comments of the bot carry the marker
    armed,          \* whether auto-merge is enabled
    runs,           \* the workflow runs, in the order of their events
    gateQueue,      \* the run whose gate job waits in its group, if any
    armQueue,       \* the run whose arm job waits in its group, if any
    gate,           \* the gate job that runs, and what it has read
    arm,            \* the arm job that runs
    failures,       \* failed calls and lost runners so far
    greened,        \* history: revisions ever recorded success
    armedFor,       \* history: revisions armed or squashed by the bot
    approvals       \* history: every approving review, and the newest version then

people == <<versions, opened, reviews, checks, approvals>>
notes == <<labels, status, comments, greened>>
merging == <<armed, merged, armedFor>>
queues == <<runs, gateQueue, armQueue>>
vars == <<people, notes, merging, queues, gate, arm, failures>>

Version == [rev : Revisions, by : Accounts]
VersionNumber == Nat \ {0}
Review == [by : Accounts, rev : Revisions]
Approval == [by : Accounts, at : VersionNumber]

\* What needs.governance-gate.outputs.disposition holds: empty until the gate
\* publishes one, and for good when it never does.
Run == [head : Revisions, disposition : {"", "pending", "success"}, sync : {"due", "done", "failed"}]

GateCall == {"none", "pull", "files", "reread", "classify", "label", "unlabel",
             "pullAgain", "activity", "reviews", "findComment", "postComment",
             "status", "output"}

GateJob == [call   : GateCall,
            run    : Nat,
            head   : Revisions,           \* PullRequestInfo.head_sha
            paths  : Revisions,           \* the revision changed_paths came from
            labels : SUBSET ChangeClass,  \* PullRequestInfo.labels
            class  : ChangeClass,
            owner  : BOOLEAN,             \* G-19 holds
            state  : {"pending", "success"}]

ArmCall == {"none", "readNode", "enable", "squash", "readArmed", "disable", "finish"}
ArmJob == [call : ArmCall, run : Nat]

TypeOK ==
    /\ versions \in Seq(Version) /\ Len(versions) \in 1 .. MaxEvents
    /\ opened \in BOOLEAN
    /\ merged \in Revisions \cup {NotMerged}
    /\ reviews \subseteq Review
    /\ checks \in [Revisions -> BOOLEAN]
    /\ labels \subseteq ChangeClass
    /\ status \in [Revisions -> {"absent", "pending", "success"}]
    /\ comments \in Nat
    /\ armed \in BOOLEAN
    /\ runs \in Seq(Run) /\ Len(runs) \in 1 .. MaxEvents
    /\ gateQueue \subseteq DOMAIN runs
    /\ armQueue \subseteq DOMAIN runs
    /\ gate \in GateJob /\ (gate.call # "none" => gate.run \in DOMAIN runs)
    /\ arm \in ArmJob /\ (arm.call # "none" => arm.run \in DOMAIN runs)
    /\ failures \in 0 .. MaxFailures
    /\ greened \subseteq Revisions
    /\ armedFor \subseteq Revisions
    /\ approvals \subseteq Approval

Newest == Len(versions)
HeadOf == versions[Newest].rev
Last == runs[Len(runs)]

IdleGate == [call |-> "none", run |-> 0, head |-> FirstHead, paths |-> FirstHead,
             labels |-> {}, class |-> "refresh", owner |-> FALSE, state |-> "pending"]
IdleArm == [call |-> "none", run |-> 0]

NewRun(head) == [head |-> head, disposition |-> "", sync |-> "due"]

\* A pull request just opened; its event is queued.
Init ==
    /\ versions = <<[rev |-> FirstHead, by |-> Author]>>
    /\ opened = TRUE /\ merged = NotMerged
    /\ reviews = {} /\ approvals = {}
    /\ checks = [r \in Revisions |-> FALSE]
    /\ labels = {} /\ comments = 0
    /\ status = [r \in Revisions |-> "absent"]
    /\ armed = FALSE
    /\ runs = <<NewRun(FirstHead)>>
    /\ gateQueue = {1} /\ armQueue = {}
    /\ gate = IdleGate /\ arm = IdleArm
    /\ failures = 0
    /\ greened = {} /\ armedFor = {}

-----------------------------------------------------------------------------
(* The concurrency groups.                                                 *)

\* Mutant: what waits in a group is kept, as with no group at all.
EnqueueBeside(queue, i) == queue \cup {i}

\* "GitHub cancels any previously pending job in the group when a new one
\* queues"; the one that runs is left alone.
Enqueue(queue, i) == IF queue = {i} THEN queue ELSE {i}

\* A gate cancelled while it waited publishes no disposition.  Whether its arm
\* job (if: !cancelled()) still becomes eligible is GitHub's to say.
Event(head) ==
    /\ Len(runs) < MaxEvents
    /\ runs' = Append(runs, NewRun(head))
    /\ gateQueue' = Enqueue(gateQueue, Len(runs) + 1)
    /\ \/ UNCHANGED armQueue
       \/ \E i \in gateQueue : armQueue' = Enqueue(armQueue, i)

StartGate ==
    /\ gate.call = "none"
    /\ \E i \in gateQueue :
        /\ gateQueue' = gateQueue \ {i}
        /\ gate' = [IdleGate EXCEPT !.call = "pull", !.run = i]
    /\ UNCHANGED <<people, notes, merging, runs, armQueue, arm, failures>>

\* The gate job ends, well or not, and its run's arm job becomes eligible.
GateEnds(disposition) ==
    /\ runs' = [runs EXCEPT ![gate.run].disposition = disposition]
    /\ gate' = IdleGate
    /\ armQueue' = Enqueue(armQueue, gate.run)
    /\ UNCHANGED gateQueue

\* Mutant: the arm job needs a gate that succeeded.
GateErrorsSkipsArm ==
    /\ gate' = IdleGate
    /\ UNCHANGED queues

\* An IndexBotError, or a runner that is lost.
GateErrors == GateEnds("")

GateFails ==
    /\ gate.call # "none"
    /\ failures < MaxFailures
    /\ failures' = failures + 1
    /\ GateErrors
    /\ UNCHANGED <<people, notes, merging, arm>>

\* The gate job makes its next call.
Goes(call) == gate' = [gate EXCEPT !.call = call]
OnlyGate == UNCHANGED <<people, notes, merging, queues, arm, failures>>

-----------------------------------------------------------------------------
(* get_pull_request_info: the pull request, its files, the head again.     *)

ReadPull ==
    /\ gate.call = "pull"
    /\ gate' = [gate EXCEPT !.call = "files", !.head = HeadOf, !.labels = labels]
    /\ OnlyGate

ReadFiles ==
    /\ gate.call = "files"
    /\ gate' = [gate EXCEPT !.call = "reread", !.paths = HeadOf]
    /\ OnlyGate

RereadHead ==
    /\ gate.call = "reread"
    /\ IF HeadOf = gate.head
       THEN Goes("classify") /\ UNCHANGED queues
       ELSE GateErrors
    /\ UNCHANGED <<people, notes, merging, arm, failures>>

-----------------------------------------------------------------------------
(* classify_pull_request and apply_change_class.                           *)

JudgedClass == ClassifyPullRequest(Content[gate.paths].paths, Content[gate.head].root, GoneTags)

Classify ==
    /\ gate.call = "classify"
    /\ IF ClassifyRaises(Content[gate.paths].paths, Content[gate.head].malformed)
       THEN GateErrors
       ELSE /\ gate' = [gate EXCEPT !.call = "label", !.class = JudgedClass]
            /\ UNCHANGED queues
    /\ UNCHANGED <<people, notes, merging, arm, failures>>

AddLabel ==
    /\ gate.call = "label"
    /\ labels' = labels \cup {gate.class}
    /\ Goes("unlabel")
    /\ UNCHANGED <<people, status, comments, greened, merging, queues, arm, failures>>

\* Whose pushes matter is asked only of a refresh under "owners".
AfterLabels == IF AutoMerge = "owners" /\ gate.class = "refresh" THEN "pullAgain" ELSE "reviews"

RemoveLabel ==
    LET stale == gate.labels \ {gate.class}
    IN  /\ gate.call = "unlabel"
        /\ IF stale # {}
           THEN \E l \in stale :
                    labels' = labels \ {l} /\ gate' = [gate EXCEPT !.labels = @ \ {l}]
           ELSE UNCHANGED labels /\ Goes(AfterLabels)
        /\ UNCHANGED <<people, status, comments, greened, merging, queues, arm, failures>>

-----------------------------------------------------------------------------
(* list_pushers: the pull request once more, then its commits, timeline and *)
(* the activity feed of its branch.                                         *)

\* A fork, or a head that moved, is answered None: not established.
ReadPullAgain ==
    /\ gate.call = "pullAgain"
    /\ Goes(IF FromFork \/ HeadOf # gate.head THEN "reviews" ELSE "activity")
    /\ OnlyGate

PushersUpTo(v) == {versions[i].by : i \in 1 .. v}

\* Mutant: the feed need not have reached the head being judged.
FeedReachesAny(v) == v \in 0 .. Newest

FeedReaches(v) == \E i \in 1 .. v : versions[i].rev = gate.head

\* The feed may lag behind the branch: it lists the pushes up to some version.
\* A commit identity of someone else, 250 commits, a page cap or a base that
\* moved can only take the answer away.
ReadActivity ==
    /\ gate.call = "activity"
    /\ \E v \in 0 .. Newest, complete \in BOOLEAN :
            gate' = [gate EXCEPT !.call = "reviews",
                       !.owner = /\ complete /\ FeedReaches(v)
                                 /\ OwnsEveryTouchedPackage(Content[gate.paths].paths,
                                                            {Author} \cup PushersUpTo(v))]
    /\ OnlyGate

-----------------------------------------------------------------------------
(* _approver, _disposition and what gate_pull_request writes.              *)

Eligible == Maintainers \ {Author}

\* list_approvals: reviews are per commit.
ApproversOf(head) == {e.by : e \in {r \in reviews : r.rev = head}}

ReadReviews ==
    LET state == Disposition(gate.class, gate.owner, Eligible \cap ApproversOf(gate.head) # {})
    IN  /\ gate.call = "reviews"
        /\ gate' = [gate EXCEPT !.state = state, !.labels = {}, !.owner = FALSE,
                                !.call = IF state = "success" THEN "status" ELSE "findComment"]
        /\ OnlyGate

\* request_reviewers, the comment's body and create_comment's lookup; a comment
\* that is there is edited in place.
FindComment ==
    /\ gate.call = "findComment"
    /\ IF SummaryRaises(Content[gate.paths].paths, Content[gate.head].malformed)
       THEN GateErrors
       ELSE Goes(IF comments = 0 THEN "postComment" ELSE "status") /\ UNCHANGED queues
    /\ UNCHANGED <<people, notes, merging, arm, failures>>

PostComment ==
    /\ gate.call = "postComment"
    /\ comments' = comments + 1
    /\ Goes("status")
    /\ UNCHANGED <<people, labels, status, greened, merging, queues, arm, failures>>

SetCommitStatus ==
    /\ gate.call = "status"
    /\ status' = [status EXCEPT ![gate.head] = gate.state]
    /\ greened' = IF gate.state = "success" THEN greened \cup {gate.head} ELSE greened
    /\ Goes("output")
    /\ UNCHANGED <<people, labels, comments, merging, queues, arm, failures>>

\* write_ci_output: the disposition becomes the job's output.
Output ==
    /\ gate.call = "output"
    /\ GateEnds(gate.state)
    /\ UNCHANGED <<people, notes, merging, arm, failures>>

GateStep ==
    \/ StartGate \/ ReadPull \/ ReadFiles \/ RereadHead \/ Classify \/ AddLabel \/ RemoveLabel
    \/ ReadPullAgain \/ ReadActivity \/ ReadReviews \/ FindComment \/ PostComment
    \/ SetCommitStatus \/ Output

-----------------------------------------------------------------------------
(* The arm job: sync_auto_merge on the run's disposition and event head.   *)

ArmGoes(call) == arm' = [arm EXCEPT !.call = call]
ArmEnds(sync) ==
    /\ arm' = IdleArm
    /\ runs' = [runs EXCEPT ![arm.run].sync = sync]

StartArm ==
    /\ arm.call = "none"
    /\ \E i \in armQueue :
        /\ armQueue' = armQueue \ {i}
        /\ arm' = [call |-> IF runs[i].disposition = "success" THEN "readNode" ELSE "readArmed",
                   run |-> i]
    /\ UNCHANGED <<people, notes, merging, runs, gateQueue, gate, failures>>

ArmFails ==
    /\ arm.call # "none"
    /\ failures < MaxFailures
    /\ failures' = failures + 1
    /\ ArmEnds("failed")
    /\ UNCHANGED <<people, notes, merging, gateQueue, armQueue, gate>>

FinishArm ==
    /\ arm.call = "finish"
    /\ ArmEnds("done")
    /\ UNCHANGED <<people, notes, merging, gateQueue, armQueue, gate, failures>>

\* enable_auto_merge reads the pull request for its node_id alone.
ReadNode ==
    /\ arm.call = "readNode"
    /\ ArmGoes("enable")
    /\ UNCHANGED <<people, notes, merging, queues, gate, failures>>

EventHead == runs[arm.run].head

\* Mutant: auto-merge is enabled on the head of the moment.
EnableUnbound ==
    /\ arm.call = "enable"
    /\ opened
    /\ ArmGoes("finish")
    /\ armed' = TRUE /\ armedFor' = armedFor \cup {HeadOf}
    /\ UNCHANGED <<people, notes, merged, queues, gate, failures>>

\* enablePullRequestAutoMerge with expectedHeadOid.  A moved head is quiet; a
\* pull request with nothing left to wait for is squashed instead; a closed one
\* is refused, and raises.
Enable ==
    /\ arm.call = "enable"
    /\ IF ~opened
       THEN ArmEnds("failed") /\ UNCHANGED merging
       ELSE /\ UNCHANGED <<runs, merged>>
            /\ IF HeadOf = EventHead /\ ~checks[HeadOf]
               THEN armed' = TRUE /\ armedFor' = armedFor \cup {EventHead}
               ELSE UNCHANGED <<armed, armedFor>>
            /\ ArmGoes(IF HeadOf = EventHead /\ checks[HeadOf] THEN "squash" ELSE "finish")
    /\ UNCHANGED <<people, notes, gateQueue, armQueue, gate, failures>>

\* Mutant: what is already mergeable is left for an auto-merge nobody armed.
SquashNever ==
    /\ arm.call = "squash"
    /\ ArmGoes("finish")
    /\ UNCHANGED <<people, notes, merging, queues, gate, failures>>

\* _squash_merge: 409 for a moved head is quiet, 405 raises.
Squash ==
    /\ arm.call = "squash"
    /\ IF ~opened
       THEN ArmEnds("failed") /\ UNCHANGED <<opened, merging>>
       ELSE /\ UNCHANGED runs /\ ArmGoes("finish")
            /\ IF HeadOf = EventHead
               THEN /\ merged' = HeadOf /\ opened' = FALSE /\ armed' = FALSE
                    /\ armedFor' = armedFor \cup {EventHead}
               ELSE UNCHANGED <<opened, merging>>
    /\ UNCHANGED <<versions, reviews, checks, approvals, notes, gateQueue, armQueue, gate, failures>>

\* withdraw_auto_merge: a cheap read when nothing is armed.
ReadArmed ==
    /\ arm.call = "readArmed"
    /\ ArmGoes(IF armed THEN "disable" ELSE "finish")
    /\ UNCHANGED <<people, notes, merging, queues, gate, failures>>

\* Disabling what is no longer enabled is refused, and raises.
Disable ==
    /\ arm.call = "disable"
    /\ IF armed THEN ArmGoes("finish") /\ UNCHANGED runs ELSE ArmEnds("failed")
    /\ armed' = FALSE
    /\ UNCHANGED <<people, notes, merged, armedFor, gateQueue, armQueue, gate, failures>>

ArmStep == StartArm \/ ReadNode \/ Enable \/ Squash \/ ReadArmed \/ Disable \/ FinishArm

-----------------------------------------------------------------------------
(* Everybody else.                                                         *)

OnlyPeople == UNCHANGED <<notes, gate, arm, failures>>

\* synchronize.  A push disables auto-merge unless the pusher could merge.
Push(r, a) ==
    /\ opened /\ r # HeadOf
    /\ AllowRewind \/ \A i \in DOMAIN versions : versions[i].rev # r
    /\ versions' = Append(versions, [rev |-> r, by |-> a])
    /\ armed' = (armed /\ a \in Writers)
    /\ Event(r)
    /\ UNCHANGED <<opened, reviews, checks, approvals, merged, armedFor>> /\ OnlyPeople

Close ==
    /\ opened
    /\ opened' = FALSE /\ armed' = FALSE
    /\ UNCHANGED <<versions, reviews, checks, approvals, merged, armedFor, queues>> /\ OnlyPeople

\* reopened
Reopen ==
    /\ ~opened /\ merged = NotMerged
    /\ opened' = TRUE
    /\ Event(HeadOf)
    /\ UNCHANGED <<versions, reviews, checks, approvals, merging>> /\ OnlyPeople

\* A later review that requests changes leaves an approving one standing; a
\* dismissal does not.
ApproveHead(a) ==
    /\ opened
    /\ [by |-> a, rev |-> HeadOf] \notin reviews
    /\ reviews' = reviews \cup {[by |-> a, rev |-> HeadOf]}
    /\ approvals' = approvals \cup {[by |-> a, at |-> Newest]}
    /\ UNCHANGED <<versions, opened, checks, merging, queues>> /\ OnlyPeople

DismissReview(e) ==
    /\ e \in reviews
    /\ reviews' = reviews \ {e}
    /\ UNCHANGED <<versions, opened, checks, approvals, merging, queues>> /\ OnlyPeople

ChecksPass ==
    /\ opened /\ ~checks[HeadOf]
    /\ checks' = [checks EXCEPT ![HeadOf] = TRUE]
    /\ UNCHANGED <<versions, opened, reviews, approvals, merging, queues>> /\ OnlyPeople

\* The required checks are all that binds a merge, a person's or an armed one.
Merge ==
    /\ opened /\ checks[HeadOf]
    /\ merged' = HeadOf /\ opened' = FALSE /\ armed' = FALSE
    /\ UNCHANGED <<versions, reviews, checks, approvals, armedFor, queues>> /\ OnlyPeople

MergeArmed == armed /\ Merge
MergeByPerson == ~armed /\ Merge

People ==
    \/ \E r \in Revisions, a \in Accounts : Push(r, a)
    \/ \E a \in Reviewers : ApproveHead(a)
    \/ \E e \in reviews : DismissReview(e)
    \/ Close \/ Reopen \/ MergeByPerson

Next == GateStep \/ ArmStep \/ GateFails \/ ArmFails \/ People \/ ChecksPass \/ MergeArmed

Spec == Init /\ [][Next]_vars

\* A queued job is run and its calls return; the required checks finish and
\* GitHub merges what is armed.  Nobody has to push, review or fail.
Fairness == WF_vars(GateStep) /\ WF_vars(ArmStep) /\ WF_vars(ChecksPass \/ MergeArmed)

FairSpec == Spec /\ Fairness

-----------------------------------------------------------------------------
(* Properties.                                                             *)

LaneOf == [r \in Revisions |-> ClassifyPullRequest(Content[r].paths, Content[r].root, GoneTags)]

Earned(r) ==
    \E v \in DOMAIN versions :
        /\ versions[v].rev = r
        /\ \/ \E e \in approvals : e.by \in Eligible /\ versions[e.at].rev = r
           \/ LaneOf[r] = "refresh" /\ AutoMerge = "always"
           \/ /\ LaneOf[r] = "refresh" /\ AutoMerge = "owners" /\ ~FromFork
              /\ OwnsEveryTouchedPackage(Content[r].paths, {Author} \cup PushersUpTo(v))

\* A revision is recorded green only for a reason that holds of that very
\* revision, however the gate's reads interleave with pushes, reviews, a feed
\* that lags and jobs that are cancelled.
GreenIsEarned == \A r \in greened : Earned(r)

\* "Auto-merge must then not arm for a revision nothing gated": what the bot
\* arms or squashes was recorded green, although the arm job is handed the
\* event's head and the gate job's word on whatever head it read.
ArmedWasGreen == armedFor \subseteq greened

\* "Serialize per PR, so a stale arm can never land after a fresh withdraw": once
\* what a later event's gate decided has been carried out, no earlier event's
\* arm job enables auto-merge.
NoStaleArm ==
    [][~armed /\ armed' =>
        \A i \in DOMAIN runs :
            i > arm.run /\ runs[i].disposition # "" => runs[i].sync # "done"]_vars

\* "An already-armed PR cannot survive on a stale evaluation": once the jobs of
\* every event have run, and the last arm job did not fail, auto-merge is on
\* only for a head whose own last word is green.
Settled == gate.call = "none" /\ arm.call = "none" /\ gateQueue = {} /\ armQueue = {}
ArmedIsCurrent ==
    Settled /\ armed /\ Last.sync # "failed" =>
        status[HeadOf] = "success" /\ Last.disposition = "success"

\* Arming refused because nothing is left to wait for must not leave the pull
\* request open forever: the last green decision ends in a merge, unless the arm
\* job fails or somebody closes it.
GreenEndsInMerge ==
    ~ <>[](opened /\ Settled /\ Last.disposition = "success" /\ Last.sync = "done")
=============================================================================
