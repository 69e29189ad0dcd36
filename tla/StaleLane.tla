------------------------------ MODULE StaleLane ------------------------------
(***************************************************************************)
(* The housekeeping lane: label-failed-run marks a fork's pull request     *)
(* whose checks failed (cli/label_failed_run.py), and the daily stale      *)
(* sweep warns about and closes the marked ones nobody touches             *)
(* (cli/stale.py), one action per API call, interleaved with authors who   *)
(* push, comment and reopen, and with the days that pass.                  *)
(*                                                                         *)
(* updated_at is modelled by how many days ago it is; time only ever       *)
(* enters the code as that difference.                                     *)
(***************************************************************************)
EXTENDS Integers, FiniteSets

CONSTANTS
    PRs,                \* pull request numbers
    Forks,              \* those whose source is a fork
    Revisions,          \* head commits
    Failing,            \* those whose checks fail
    FirstHead,          \* [PRs -> Revisions]
    DaysBeforeStale,
    DaysBeforeClose,
    MaxTouches,         \* bound: [PRs -> what people do to that pull request]
    MaxFailures         \* bound: failed calls and killed runs, in total

ASSUME StaleAssumption ==
    /\ PRs \subseteq Nat /\ PRs # {}
    /\ Forks \subseteq PRs
    /\ Failing \subseteq Revisions
    /\ FirstHead \in [PRs -> Revisions]
    /\ DaysBeforeStale \in Nat /\ DaysBeforeClose \in Nat
    /\ MaxTouches \in [PRs -> Nat] /\ MaxFailures \in Nat

VARIABLES
    head,               \* the head commit of each pull request
    state,              \* "open", or who closed it
    labels,
    notices,            \* its comments carrying one of the sweep's markers
    age,                \* days since its updated_at
    touches,            \* what people have done to it so far
    labelling,          \* the label-failed-run of each revision's failed run
    todo,               \* pull requests the sweep has still to handle
    job,                \* what the sweep is doing and has read so far
    late,               \* days since the sweep took the time
    failures,
    quiet,              \* history: days since a person touched it
    marked              \* history: days since it was last marked stale

pull == <<head, state, labels, notices, age>>
history == <<quiet, marked>>
vars == <<pull, touches, labelling, todo, job, late, failures, history>>

TriggerLabel == "checks-failed"
StaleLabel == "checks-failed-stale"
Label == {"checks-failed", "checks-failed-stale"}

\* Ages are told apart up to here: a day past the longer threshold, as a sweep
\* that straddles midnight sees them a day younger.
Oldest == DaysBeforeStale + DaysBeforeClose + 1
Days == 0 .. Oldest

Call == {"list", "next", "reread", "label", "warn", "explain", "close"}

Job == [call   : Call,
        pr     : PRs,
        head   : Revisions,
        labels : SUBSET Label,      \* PullRequestInfo.labels
        age    : -1 .. Oldest]      \* _age_days(PullRequestInfo.updated_at, now)

Labelling == [call : {"none", "find", "add", "done"}, pr : PRs]

TypeOK ==
    /\ head \in [PRs -> Revisions]
    /\ state \in [PRs -> {"open", "closed by bot", "closed by people"}]
    /\ labels \in [PRs -> SUBSET Label]
    /\ notices \in [PRs -> SUBSET {"stale", "stale-closed"}]
    /\ age \in [PRs -> Days]
    /\ touches \in [PRs -> Nat] /\ \A p \in PRs : touches[p] <= MaxTouches[p]
    /\ labelling \in [Revisions -> Labelling]
    /\ todo \in SUBSET PRs
    /\ job \in Job
    /\ late \in {0, 1}
    /\ failures \in 0 .. MaxFailures
    /\ quiet \in [PRs -> Days]
    /\ marked \in [PRs -> Days]

Opened(p) == state[p] = "open"

Idle == [call |-> "list", pr |-> CHOOSE p \in PRs : TRUE,
         head |-> CHOOSE r \in Revisions : TRUE, labels |-> {}, age |-> 0]

Init ==
    /\ head = FirstHead
    /\ state = [p \in PRs |-> "open"]
    /\ labels = [p \in PRs |-> {}]
    /\ notices = [p \in PRs |-> {}]
    /\ age = [p \in PRs |-> 0]
    /\ touches = [p \in PRs |-> 0]
    /\ labelling = [r \in Revisions |-> [call |-> "none", pr |-> CHOOSE p \in PRs : TRUE]]
    /\ todo = {}
    /\ job = Idle
    /\ late = 0
    /\ failures = 0
    /\ quiet = [p \in PRs |-> 0]
    /\ marked = [p \in PRs |-> 0]

-----------------------------------------------------------------------------
(* label_failed_run.run, once for the failed run of each revision.         *)

LabellingMoves(r, call) == labelling' = [labelling EXCEPT ![r].call = call]
LabellingOnly == UNCHANGED <<pull, touches, todo, job, late, failures, history>>

\* A run of the revision completes with a failure.
RunFails(r) ==
    /\ r \in Failing /\ labelling[r].call = "none"
    /\ \E p \in PRs : head[p] = r
    /\ LabellingMoves(r, "find")
    /\ LabellingOnly

\* Mutant: pull requests of the repository itself are labelled too.
FindPullRequestAnywhere(r) ==
    /\ labelling[r].call = "find"
    /\ \/ \E p \in PRs : /\ head[p] = r
                         /\ labelling' = [labelling EXCEPT ![r] = [call |-> "add", pr |-> p]]
       \/ /\ \A p \in PRs : head[p] # r
          /\ LabellingMoves(r, "done")
    /\ LabellingOnly

\* find_pull_request_by_head_sha: the first whose head this is, open or not;
\* only a fork's is labelled.
FindPullRequest(r) ==
    /\ labelling[r].call = "find"
    /\ \/ \E p \in PRs : /\ head[p] = r
                         /\ labelling' = [labelling EXCEPT ![r] =
                                [call |-> IF p \in Forks THEN "add" ELSE "done", pr |-> p]]
       \/ /\ \A p \in PRs : head[p] # r
          /\ LabellingMoves(r, "done")
    /\ LabellingOnly

AddTriggerLabel(r) ==
    LET p == labelling[r].pr
    IN  /\ labelling[r].call = "add"
        /\ labels' = [labels EXCEPT ![p] = @ \cup {TriggerLabel}]
        /\ age' = [age EXCEPT ![p] = 0]
        /\ LabellingMoves(r, "done")
        /\ UNCHANGED <<head, state, notices, touches, todo, job, late, failures, history>>

\* Nothing retries it: the next failed run is another run.
LabellingFails(r) ==
    /\ labelling[r].call \in {"find", "add"} /\ failures < MaxFailures
    /\ failures' = failures + 1
    /\ LabellingMoves(r, "done")
    /\ UNCHANGED <<pull, touches, todo, job, late, history>>

-----------------------------------------------------------------------------
(* stale.run: one sweep at a time.                                         *)

At(call) == job.call = call
Move(call) == job' = [job EXCEPT !.call = call]
NextPullRequest == job' = [Idle EXCEPT !.call = "next"]
PullUnchanged == UNCHANGED <<pull, history>>
OthersUnchanged == UNCHANGED <<touches, labelling, failures>>

\* The time is taken once, before the pull requests are listed.
StartSweep ==
    /\ At("list")
    /\ todo' = {p \in PRs : Opened(p)}
    /\ late' = 0
    /\ Move("next")
    /\ PullUnchanged /\ OthersUnchanged

EndSweep ==
    /\ At("next") /\ todo = {}
    /\ job' = Idle /\ late' = 0
    /\ PullUnchanged /\ OthersUnchanged /\ UNCHANGED todo

\* get_pull_request_info: what _handle_one decides on, then the head again.
ReadPullRequest ==
    \E p \in todo :
        /\ At("next")
        /\ \A q \in todo : p <= q
        /\ todo' = todo \ {p}
        /\ job' = [call |-> "reread", pr |-> p, head |-> head[p],
                   labels |-> labels[p], age |-> age[p] - late]
        /\ PullUnchanged /\ OthersUnchanged /\ UNCHANGED late

\* Mutant: a day too early.
HandleOneEarly(j) ==
    IF TriggerLabel \notin j.labels THEN "next"
    ELSE IF StaleLabel \notin j.labels
         THEN IF j.age < DaysBeforeStale THEN "next" ELSE "label"
         ELSE IF j.age < DaysBeforeClose - 1 THEN "next" ELSE "explain"

\* Mutant: the pull request is closed before the comment that explains it.
HandleOneClosesFirst(j) ==
    IF TriggerLabel \notin j.labels THEN "next"
    ELSE IF StaleLabel \notin j.labels
         THEN IF j.age < DaysBeforeStale THEN "next" ELSE "label"
         ELSE IF j.age < DaysBeforeClose THEN "next" ELSE "close"

\* _handle_one: the first call for what was read, "next" being none.
HandleOne(j) ==
    IF TriggerLabel \notin j.labels THEN "next"
    ELSE IF StaleLabel \notin j.labels
         THEN IF j.age < DaysBeforeStale THEN "next" ELSE "label"
         ELSE IF j.age < DaysBeforeClose THEN "next" ELSE "explain"

\* Mutant: a pull request there is nothing to do for ends the sweep.
RereadEndsSweep ==
    /\ At("reread")
    /\ IF head[job.pr] = job.head /\ HandleOne(job) # "next"
       THEN Move(HandleOne(job)) /\ UNCHANGED todo
       ELSE NextPullRequest /\ todo' = {}
    /\ PullUnchanged /\ OthersUnchanged /\ UNCHANGED late

RereadHead ==
    /\ At("reread")
    /\ IF head[job.pr] = job.head /\ HandleOne(job) # "next"
       THEN Move(HandleOne(job))
       ELSE NextPullRequest
    /\ PullUnchanged /\ OthersUnchanged /\ UNCHANGED <<todo, late>>

AddStaleLabel ==
    /\ At("label")
    /\ labels' = [labels EXCEPT ![job.pr] = @ \cup {StaleLabel}]
    /\ age' = [age EXCEPT ![job.pr] = 0]
    /\ marked' = [marked EXCEPT ![job.pr] = 0]
    /\ Move("warn")
    /\ OthersUnchanged /\ UNCHANGED <<head, state, notices, quiet, todo, late>>

\* create_comment: the one carrying the marker is rewritten when it is there,
\* which may (GitLab re-opens the thread) or may not count as an update.
Comment(p, marker) ==
    /\ notices' = [notices EXCEPT ![p] = @ \cup {marker}]
    /\ \E days \in IF marker \in notices[p] THEN {0, age[p]} ELSE {0} :
            age' = [age EXCEPT ![p] = days]
    /\ UNCHANGED <<head, state, labels>>

Warn ==
    /\ At("warn")
    /\ Comment(job.pr, "stale")
    /\ NextPullRequest
    /\ OthersUnchanged /\ UNCHANGED <<history, todo, late>>

Explain ==
    /\ At("explain")
    /\ Comment(job.pr, "stale-closed")
    /\ Move("close")
    /\ OthersUnchanged /\ UNCHANGED <<history, todo, late>>

Close ==
    /\ At("close")
    /\ state' = [state EXCEPT ![job.pr] = IF Opened(job.pr) THEN "closed by bot" ELSE @]
    /\ NextPullRequest
    /\ OthersUnchanged /\ UNCHANGED <<head, labels, notices, age, history, todo, late>>

\* One pull request's failure never ends the sweep.
Fail ==
    /\ job.call \notin {"list", "next"} /\ failures < MaxFailures
    /\ failures' = failures + 1
    /\ NextPullRequest
    /\ PullUnchanged /\ UNCHANGED <<touches, labelling, todo, late>>

\* The job is killed; the next schedule starts from nothing.
Killed ==
    /\ ~At("list") /\ failures < MaxFailures
    /\ failures' = failures + 1
    /\ job' = Idle /\ todo' = {} /\ late' = 0
    /\ PullUnchanged /\ UNCHANGED <<touches, labelling>>

-----------------------------------------------------------------------------
(* Everybody else.                                                         *)

Touch(p) ==
    /\ touches[p] < MaxTouches[p]
    /\ touches' = [touches EXCEPT ![p] = @ + 1]
    /\ age' = [age EXCEPT ![p] = 0]
    /\ quiet' = [quiet EXCEPT ![p] = 0]
    /\ UNCHANGED <<notices, marked, labelling, todo, job, late, failures>>

Push(p, r) ==
    /\ Opened(p) /\ r # head[p]
    /\ head' = [head EXCEPT ![p] = r]
    /\ Touch(p) /\ UNCHANGED <<state, labels>>

Unlabel(p, l) ==
    /\ Opened(p) /\ l \in labels[p]
    /\ labels' = [labels EXCEPT ![p] = @ \ {l}]
    /\ Touch(p) /\ UNCHANGED <<head, state>>

Discuss(p) ==
    /\ Opened(p)
    /\ Touch(p) /\ UNCHANGED <<head, state, labels>>

ToggleState(p) ==
    /\ state' = [state EXCEPT ![p] = IF Opened(p) THEN "closed by people" ELSE "open"]
    /\ Touch(p) /\ UNCHANGED <<head, labels>>

People(p) ==
    \/ \E r \in Revisions : Push(p, r)
    \/ \E l \in Label : Unlabel(p, l)
    \/ Discuss(p) \/ ToggleState(p)

\* A sweep does not outlast the day after it started.
NextDay ==
    LET Older(d) == IF d = Oldest THEN d ELSE d + 1
    IN  /\ At("list") \/ late = 0
        /\ late' = IF At("list") THEN 0 ELSE 1
        /\ age' = [p \in PRs |-> Older(age[p])]
        /\ quiet' = [p \in PRs |-> IF Opened(p) THEN Older(quiet[p]) ELSE quiet[p]]
        /\ marked' = [p \in PRs |-> Older(marked[p])]
        /\ UNCHANGED <<head, state, labels, notices, touches, labelling, todo, job, failures>>

-----------------------------------------------------------------------------
LabelStep(r) == RunFails(r) \/ FindPullRequest(r) \/ AddTriggerLabel(r)

SweepStep ==
    \/ StartSweep \/ EndSweep \/ ReadPullRequest \/ RereadHead
    \/ AddStaleLabel \/ Warn \/ Explain \/ Close

Next ==
    \/ \E r \in Revisions : LabelStep(r) \/ LabellingFails(r)
    \/ SweepStep \/ Fail \/ Killed
    \/ \E p \in PRs : People(p)
    \/ NextDay

Spec == Init /\ [][Next]_vars

\* The schedule keeps firing, a call returns, and days pass.  A label job is
\* not promised to run, nor anybody to do anything.
FairSpec == Spec /\ WF_vars(SweepStep) /\ WF_vars(NextDay)

-----------------------------------------------------------------------------
(* Properties.                                                             *)

\* FP-8's scope, end to end over the two commands: the bot closes no pull
\* request of the repository itself, whatever heads they share with a fork's.
OnlyForksAreClosed == \A p \in PRs : state[p] = "closed by bot" => p \in Forks

\* A pull request the bot closed says why, whichever call failed or run died.
ClosedWasExplained ==
    \A p \in PRs : state[p] = "closed by bot" => "stale-closed" \in notices[p]

\* The bot closes what was marked stale the full countdown before its sweep
\* began, and what no person touched since then -- unless while it was sweeping.
ClosedAfterCountdown ==
    [][\A p \in PRs :
            Opened(p) /\ state'[p] = "closed by bot" =>
                /\ marked[p] - late >= DaysBeforeClose
                /\ quiet[p] - late >= DaysBeforeClose \/ quiet[p] <= late]_vars

\* A labelled pull request everybody has left does not stay open, however many
\* calls failed on the way and whatever the others in the queue look like.
AbandonedCloses ==
    \A p \in PRs : []<>(TriggerLabel \notin labels[p] \/ ~Opened(p))

\* "This pull request has failing checks ... It will be closed in 7 days unless
\* updated": what the bot closes was told so.
ClosedWasWarned ==
    \A p \in PRs : state[p] = "closed by bot" => "stale" \in notices[p]

=============================================================================
