# indexbot, specified

TLA+ specifications of `indexbot`, the governance and integrity bot of an OCX
package index: what its commands do to a forge (GitHub, GitLab) and to the
index repository, call by call, checked with TLC and, where it matters most,
proved with TLAPS.

An index repository holds one JSON root per package (`p/<ns>/<pkg>.json`) and
the content-addressed objects the roots refer to. Publishers open change
requests against it; `indexbot` classifies each, labels it, records whether it
may merge, asks for a review where one is needed, arms auto-merge where none
is, and keeps house. It runs as short CI jobs with no state of its own: what
the forge holds (statuses, labels, threads, comments, flags) is all one run
knows of the runs before it. Everything hard about it comes from there. A job
reads a dozen endpoints, one at a time, while people push, approve and merge;
each call can fail; a job can die between any two; two can overlap.

Paths below are relative to `src/src/ocx_indexbot/`.

## Inventory

| Component | State it keeps or changes | Operations | Interacts with | What is hard | What makes it correct | Modelled |
|---|---|---|---|---|---|---|
| GitLab governance lane: `cli/governance_poll.py`, `cli/governance_gate.py`, `cli/governance_check.py`, `adapters/gitlab_api.py` | commit status, lane label, review thread, auto-merge flag, pipelines of each merge request | one sweep: list, then per request read, classify, label, gate, publish, release, arm or withdraw, pipeline | publishers, approvers, GitLab's merge and pipelines, the sweep before and after | every read is stale by the time it is used; thread and status are two calls; failures and kills between calls; overlapping sweeps | only a revision that earned it is recorded green, armed or merged; a pending one is blocked; an approval releases; one bad request does not stop the rest | `GitLabGovernance` |
| GitHub governance lane: the same commands, `adapters/github_api.py`, `ci/templates/github/governance.yml` | as on GitLab, with a comment for the thread; a job output | per event: the gate job, then the arm job (`--arm-only`) fed with the gate's disposition and the event's head | GitHub's concurrency groups, checks, `deploy-on-merge` | queued jobs are superseded; the arm's head and the gate's are read at different times; a gate that died must withdraw | what is armed was judged; a stale arm never lands after a fresh withdraw; a green decision ends in a merge | `GitHubGovernance` |
| Classification and disposition: `cli/classify_pr.py`, `core/diff.py`, `cli/governance_check.py` | none | `classify_pull_request`, `classify_change`, the removal rule, G-19 ownership, `_disposition` | called by both governance lanes | many kinds of path and of change in one diff, the worst one wins | what is not confined to a refresh of owned packages is never released without an approval | `GovernanceDecision` |
| Housekeeping lane: `cli/label_failed_run.py`, `cli/stale.py` | `checks-failed`, `checks-failed-stale`, two marked comments, open or closed | label a fork's failed run; daily: mark and warn, then explain and close | authors, `updated_at`, which the bot's own writes reset | two commands share a label and a clock; label and comment, comment and close are two calls | closes only forks, only after the countdown, never unexplained; the abandoned do close | `StaleLane` |
| Forge port: `ports.py` | none: a contract | the operations above and below | both adapters | promises about races two adapters keep differently | its docstrings' promises hold of the adapters | as properties of the lanes, `Publishing` and `AnomalyReport` |
| Commit and open: `commit_files`, `open_or_update_pull_request` of both adapters | branches, commits, change requests | read the tip, build, commit; find, create or update | two publishers, the branch that moves | check-then-act on either forge; answers that are lost | no lost update, no silent rebase, an end with a request | `Publishing` |
| HTTP plumbing: `adapters/_http.py`, `core/backoff.py`; `create_or_update_issue` on top | the tracking issue | `paginate`, error classes, `delay_seconds` | every adapter call | items come and go while pages are walked; the page cap; delays | nothing that stayed is missed; never less wait than was asked for | `AnomalyReport` (walk, issue), `RegistryClient` (errors, delays) |
| Registry client: `adapters/registry_v2.py`, `core/registry_checks.py` | a token per repository | tags, manifests, the description tag, blobs, through one loop | registries that throttle, redirect, let tokens lapse, republish | 401, 429, redirect and transport error in unlucky order; several reads make one answer | bounded attempts, a renewal that is not wasted, verdicts that were true | `RegistryClient` |
| Reconcile: `cli/reconcile.py`, `core/verify_claims.py`, `core/anomaly.py` | one tracking issue | verify every package against its registry, file the findings | registries that move during the sweep, the issue of the night before | each row is asked for twice; findings are filed at the end, and a raising package discards them; grace | no false alarm, no blind spot, the issue comes to say what is wrong | `ReconcileSweep` |
| Regenerate and observe: `core/regenerate.py`, `core/observe.py`, `core/desc.py` | roots and objects of one package | observe tags, derive the target root, see whether the description changed | the registry, the committed root | tags vanish or move between reads | what is written is what was served, and the gate agrees with it | `IndexTree`, `IndexGate`; call by call in `RegistryClient` |
| Seed import: `cli/seed_import.py` | a new root, its objects, a request | import a package from a registry that serves it | the registry, the gate | writer and gate read the registry at different times | the gate finds nothing against what it writes | `IndexTree`, `IndexGate` |
| Entry validation: `cli/validate.py`, `core/validate_entry.py`, `core/grammar.py` | none | shape, reserved names, closure, hashes, kind, registry claims | registries, the base ref's root | two valid requests can be invalid together; what is carried over is not asked for | no request breaks a package; every claim was true once | `IndexTree`, `IndexGate` (syntax of one file left out) |
| Pull-request validation: `cli/validate_pr.py`, `adapters/local_git.py` | none | which packages a diff obliges the gate to validate, against which base | git base and head | deletions and renames of objects change no root | every package a diff can break is validated | `IndexGate` |
| Render: `core/render.py`, `cli/render.py` | the served tree | quarantine, prune, copy what is reachable | the default branch as merges left it | orphans, dangling references | what is served is closed | `IndexTree`, `IndexGate` |
| Version order, policy, workflow audits, pipeline rendering, command line and wiring | files at most | compare, parse, check text, template, wire | | sequential, no state | | not modelled: see the end |

## Modules

| Module | What it is |
|---|---|
| `GovernanceDecision` | The pure decisions: what a change request touches, its class, ownership, the disposition. |
| `MergeGate` | The abstract promise: revisions and approvals gather, a revision is released when entitled, only a released head merges. Releasing and merging are one step each. |
| `GitLabGovernance` | The polling lane in full, one action per API call, with everybody around it, its properties, and its refinement of `MergeGate`. |
| `GitHubGovernance` | The event-driven lane: both jobs of every event, their concurrency groups, one action per API call. |
| `StaleLane` | The two housekeeping commands, with authors and days. |
| `IndexTree` | The index as data (roots, rows, objects, references), what tools write into it, and the checks that read no network, or one answer of it. |
| `IndexGate` | Requests by hand and by tool, `validate-pr` call by call, merges into a branch that has moved, render, registries that move. |
| `ReconcileSweep` | The nightly sweep call by call, the registries, the issue. |
| `AnomalyReport` | Filing that issue: the walk over a listing that changes, then the write. |
| `RegistryClient` | One logical read of a registry, request by request, and what its caller makes of how it ends. |
| `Publishing` | `commit_files` and `open_or_update_pull_request` of both adapters, for publishers that share a branch. |
| `GitLabGovernance_proofs`, `GitHubGovernance_proofs`, `StaleLane_proofs`, `IndexGate_proofs`, `ReconcileSweep_proofs`, `AnomalyReport_proofs`, `RegistryClient_proofs`, `Publishing_proofs` | Their theorems. |
| `MCGitLabGovernance`, `MCGitHubGovernance`, `MCStaleLane`, `MCIndexGate`, `MCReconcileSweep`, `MCAnomalyReport`, `MCRegistryClient`, `MCPublishing` | Small instances. |

`GovernanceDecision` is extended by `MergeGate` and by both lanes, so the promise
and the lanes that keep it mean the same thing by "refresh" and "owns".
`IndexTree` is likewise extended by `IndexGate` and `ReconcileSweep`: the gate
and the sweep read the same index with the same checks.

### How `GitLabGovernance` corresponds to the code

`job[s].call` is the API call sweep `s` makes next; the other fields of
`job[s]` are what it has read and still holds (Python locals). Each action is
one call with everything the code computes before the next one, and its order
is the code's:

| Code | Actions |
|---|---|
| `governance_poll.run`: list, one request after another, a failure caught per request | `ListOpen`, `EndSweep`, `Fail`, `Killed` |
| `GitLabApi.get_pull_request_info`: request, diffs, the head again | `ReadMergeRequest`, `ReadDiffs`, `RereadHead` |
| `classify_pull_request`, `apply_change_class`: add the label, then remove the old ones read at the start | `Classify`, `AddLabel`, `RemoveLabel` |
| `_author_owns_every_touched_package` (only a refresh under `owners`): `list_pushers` in two reads, and its answer `None` | `ReadPushers`, `ReadPushEvents`, `PushersUntold` |
| `_approver`, `list_approvals`: who stands, the newest version, the events since | `ReadApprovedBy`, `ReadVersions`, `ReadApprovalEvents`, with `Decide` for `_disposition` |
| `gate_pull_request`, pending: thread before status | `FindThread`, `OpenThread` or `ReopenThread`, `SetCommitStatus` |
| `gate_pull_request`, green: status before thread | `SetCommitStatus`, `FindReleased`, `ResolveThread` |
| `sync_auto_merge`, pending: withdraw, then a pipeline for a change confined to `p/` | `ReadArmed`, `CancelArm`, `ReadPipeline`, `CreatePipeline`, `PipelineRefused` |
| `sync_auto_merge`, green: pipeline, then arm bound to the judged head | `ReadPipeline`, `CreatePipeline`, `Arm` |

The rest is external and modelled from how the code uses it and from the
measurements `ports.py` and the adapter record: `Push` adds a diff version (and
may or may not cancel a pending auto-merge or start a pipeline), `Approve` and
`Unapprove`, `WaveThrough` (a person resolves the bot's thread),
`PipelinePasses`, `Merge`. A project branch merges when its threads are
resolved, its pipeline passed and the status is green; a fork's when its
threads are resolved.

What is abstracted. A commit is a value with a content: the paths it touches,
its root files, whether one fails to parse. The base revision and the
maintainers file are constants, so is what the registry says of removed tags.
A push event and a diff version are one thing. The reviewer request is folded
into `FindThread` (it changes nothing the lane reads). A comment is its
marker. GitLab's refusal of a repeated status, which the adapter reads as done,
is the same assignment. The one advisory read of the project's merge settings
is left out. `greened` and `armedFor` are history, read by no action.

`list_pushers` also answers `None` where it cannot tell who pushed
(`gitlab_api.py:813-825`): a bulk push event names no ref, the feed is longer
than the page cap, an event cannot be read, the base moved. That is no failure,
so nothing bounds it: `PushersUntold` may happen on every tick, and the refresh
then waits for a review.

Two limits of the lane show in the properties. A fork's merge request is held
by its thread alone, so `MergedIsEarned` speaks of the project's own branches:
a fork's has no thread until the first sweep, and a push between a decision and
the release of the thread opens it for the new head. And the re-read of the
head compares two heads, so a branch pushed away and back to an old commit
within one read pairs one revision's paths with another's commit:
`AllowRewind` is `FALSE` in the runs, and the theorems that need it say so.

### How `GitHubGovernance` corresponds to the code

An event starts a run; `gateQueue` and `armQueue` hold the one run that waits
in each of the two concurrency groups (`Enqueue`: a job that queues cancels the
one that waited), `gate` and `arm` the job that runs and what it has read.

| Code | Actions |
|---|---|
| `governance.yml`: events, groups, `arm-auto-merge` with `if: !cancelled()` | `Event`, `Enqueue`, `StartGate`, `GateEnds`, `GateErrors`, `StartArm` |
| `GitHubApi.get_pull_request_info`: request, files, the head again | `ReadPull`, `ReadFiles`, `RereadHead` |
| `classify_pull_request`, `apply_change_class` | `Classify`, `AddLabel`, `RemoveLabel` |
| `list_pushers`: request, commits, timeline, the activity feed, which may lag | `ReadPullAgain`, `ReadActivity` |
| `list_approvals` (reviews are per commit), `_disposition` | `ReadReviews` |
| `gate_pull_request`: one marked comment, then the status | `FindComment`, `PostComment`, `SetCommitStatus` |
| `write_ci_output`: the disposition becomes the job's output | `Output` |
| `--arm-only`, success: `enable_auto_merge` bound to the event's head, `_squash_merge` when nothing is left to wait for | `ReadNode`, `Enable`, `Squash` |
| `--arm-only`, anything else: `withdraw_auto_merge` | `ReadArmed`, `Disable` |
| an `IndexBotError`, a lost runner | `GateFails`, `ArmFails` |

Outside: `Push` (GitHub drops a pending auto-merge unless the pusher could
merge), `Close`, `Reopen`, `ApproveHead`, `DismissReview`, `ChecksPass`,
`MergeArmed`, `MergeByPerson`. The event is queued with the push that causes it.
A run superseded while its gate waited may still run its arm job, with an empty
disposition: both are allowed. A later review that requests changes leaves an
approval standing, because `list_approvals` keeps the approving one. Left out: a
person who arms or re-runs a job by hand, a base that moves under a request,
`--dry` plumbing. What binds a merge is the required checks, and the gate's word
is only whether auto-merge is armed, so nothing is said here of a merge by a
person.

### How `StaleLane` corresponds to the code

`label_failed_run.run` is `FindPullRequest`, `AddTriggerLabel`; `stale.run` is
`StartSweep` (the time is taken once), `ReadPullRequest` and `RereadHead`
(`get_pull_request_info`), `HandleOne` (`_handle_one`'s decisions on what was
read), `AddStaleLabel`, `Warn`, `Explain`, `Close`. `age` is how many days ago
`updated_at` was: the code uses it only in that difference. It saturates one
day past the sum of the two thresholds, beyond which no comparison of the code
changes (a sweep that runs past midnight sees an age a day younger, hence
`late`). Labels, comments and closings of people, and pushes, are bounded per
pull request by `MaxTouches`.

A commit's failed run triggers one labelling job, which is not retried, as in
the workflow. `find_pull_request_by_head_sha` returns the first of possibly
several pull requests at a commit, in an order the forge chooses: any of them.
An update of a marked comment may or may not move `updated_at`: both are
allowed.

### How `IndexGate` corresponds to the code

| Code | Actions and definitions |
|---|---|
| `validate_pr.run`: base, policy, `_packages_to_validate`, `_materialize_base` | `StartGate`, `PackagesToValidate` (`ChangedRoots`, `ObjectOwners`), `BaseTree`, `FromFork` |
| `_validate_one` up to the first registry call | `ValidateOne`, `StructurallySound` |
| `check_digest_in_scope` per platform manifest, the first failure ends the root | `CheckDigestInScope` |
| `check_ownership` | `CheckOwnership` |
| `verify_claims`, which narrows to what the base ref does not have | `VerifyTagClaim`, `ClaimCalls`, `CarriedOver` |
| exit code, or `TransientError` out of `run` | `EndGate`, `RegistryUnavailable` |
| `render.run`, `_load_source_package`, `build_render_plan` | `Render`, `Quarantined`, `RenderedEntry` |
| `seed_import.run`, `observe`, `regenerate` | `SeedImports` (`SeedImport`, `Importable`), `Announces` (`Regenerate`, `Announced`), `Observable`, `ObservedTags` |

Outside: `Open` (a request is any one edit of the branch as it then is: a row
moved, removed, yanked or marked ephemeral, a description, another repository, a
root removed or broken, an object added, deleted, damaged or renamed into
another package; or what one of the tools writes from what a registry serves at
that moment), `Merge` (three-way, field by field; git merges
lines and refuses more), `TagMoves`, `ManifestPruned`. A request is not pushed
to again: its verdict is for its head, and the governance lanes are where heads
move. The base of the carried-over claims is the tip on GitHub
(`INDEXBOT_BASE_SHA`) and the merge base on GitLab; both are tried. One gate
runs at a time: gates share nothing but the registries, which may move at any
moment anyway. The base ref's policy is constant.

A digest stands for the bytes that hash to it; an object is absent, sound or
damaged; a root that fails any check of its own text is `Malformed`. `owners`,
`status` and the other governed fields behave as `repository` does.

A request records whether a tool wrote it (`written`) and when (`opened`, by the
registries' moves). A tool's sweep of a repository is one step here; its calls
are in `RegistryClient`. The announce command itself lives outside the
repository; what it writes is what `regenerate` returns, with the objects beside
it. The tree to start from is one whose public rows its registries serve.

### How `ReconcileSweep` corresponds to the code

`StartSweep` is `discover_package_ids`; `AtPackage` the part of `_verify_one`
before its first call, `RefuseRepository` the exception that leaves the sweep;
`RegistryRaises` one out of a call; the calls are made in the code's order: `ObserveTag` per row, `VerifyTagClaim` per
row whose bytes are right, `CheckOwnership`, `CheckDigestInScope` per platform
manifest; `FileIssue` or `EndClean`. Packages, and calls of one kind, come in
any order where the code has one fixed order. The credentials are there
(`reconcile` refuses to start without). `create_or_update_issue` is one step
here and call by call in `AnomalyReport`. What a call may raise that nothing on
the way catches is `RegistryRaises`, unbounded: the ownership probe
(`reconcile.py:256` is in no `try`) on a 403 (`registry_v2.py:534-535`), a manifest
of another digest (`:435`, `:444`) or a HEAD without one (`:459`); and any call on a
status that httpx raises itself. What was found so far goes with the sweep. `steady`, `lacking` and `ever` are history: what
was wrong all through the running sweep, and at some moment of it.

### How `AnomalyReport` corresponds to the code

`Start(s)` is a sweep that has findings, `ReadPage` one page of `_http.paginate`
with what the search over it keeps (a pull request of that title is none), the
cap included (`PageCapExceeded` ends the walk, whatever it found), `Update` and
`Create` the write. Listings are newest first, as the adapters ask for them, so
an item opened during the walk pushes others onto a page still ahead, and one
closed pulls them back over the walk. `Place(i)` is where the endpoint's listing
has item `i`, counting only what it lists (`Listed`: GitHub's issues include the
pull requests), and `OnPage` is by place.

On GitHub one sweep files at a time (`github/reconcile.yml:46-48` has a
concurrency group); the GitLab job (`gitlab/indexbot.yml:168-180`) has no
`resource_group`, so there any number of `Sweeps` overlap. `under` is history:
what happened to the listing since a walk began.

### How `RegistryClient` corresponds to the code

| Code | Actions and definitions |
|---|---|
| `RoutedRegistry._client`, then the method | `Start`, `Unrouted`, `Target` |
| `RegistryV2._send`: the attempt loop | `TransportFails`, `Retryable` (`Retry`, `Spent`), `Unauthorized`, `Denied`, `Answered`, `Redirected` |
| `_fetch_token` | `TokenIssued`, `TokenDenied`, `TokenRefused` |
| `_follow`, outside the loop | `Follow`, `FollowEnds`, `FollowBreaks` |
| `raise_for_status` of whatever is left | `RaiseForStatus` |
| `list_tags`, `get_manifest`, `get_desc_tag_digest`, `get_blob`, `probe_ownership` | `DeliverTags`, `DeliverManifest` (`Matches`, `NotFound`), `DeliverDesc`, `DeliverBlob`, `Probed` |
| `observe`, `check_desc_change` with its layers | `Sweep`, `ObserveNext`, `CheckDescChange`, `DeliverDescription`, `FetchLayer` |
| `check_tag_gone`, `check_digest_in_scope` | `SeenBy` |
| `delay_seconds` | `Doubled` (`2 ** n`), `Delay`, in hundredths of a second |

`req` is the read and the request it is at, `got` the response in hand, `truth`
what the registry holds of the repository at the moment (`Publish` changes it
between any two requests), `outcome` how the last read ended, `log` history of
it. A registry may answer anything, but for two things: a request with a good
token is not answered 401, and `MANIFEST_UNKNOWN` is only said of a tag that is
not there. Left out: the header each hop carries, the parsing of bodies (a body
is the digest it hashes to), the size ceiling. A 404 on a later page of a tag
list drops the pages before it, as in the code. `check_desc_change` compares a
digest from a HEAD of the description tag and returns it
(`core/desc.py:152`, `:187`), but takes the content from a later GET by tag
(`:163`): `req.desc` carries the first to `outcome.digest`, beside the manifest
read, `outcome.of`, and the two may differ.

### How `Publishing` corresponds to the code

| Code | Actions |
|---|---|
| the caller's contract (`ports.py`): read the ref, derive the files, commit, offer, start over on `TransientError` | `Read`, `GivesUp` |
| GitHub `commit_files`: blobs, tree, commit; `_update_branch` looks, then creates or updates the ref without force | `CreateCommit`, `LookBranch`, `CreateRef`, `UpdateRef` |
| GitLab `commit_files`: look at the tip, probe at `base_sha`, one commit call | `LookTip`, `Applies`, `PostCommit` |
| `open_or_update_pull_request` | `Find`, `UpdateRequest`, `CreateRequest` |
| `check_transient`, a lost answer | `CallFails`, `Answered` |

Outside: `ForeignOpens` and `ForeignCloses` (requests of another fork's branch of
the same name), `Closes` (closed, or merged, with or without its branch).
GitLab has no compare-and-swap for the commit call: another publisher's commit
between `LookTip` and `PostCommit` is built on, which `gitlab_api.py:15-25`
records as the residual, and `RebasedOnlyInTheWindow` confines.

## Runs

Deadlock is not checked: everything here may rightly come to rest (all merged,
nobody touching anything), and a sweep that is stuck is what the liveness
properties are for. Each module's `TypeOK` is not among the checked properties
where it is proved (below).

| Run | Instance | Properties |
|---|---|---|
| `gitlab_sweep` | one merge request of the project, one sweep at a time; a refresh, a governance edit, a refresh with a CI edit and a broken root; one push, one failed call or killed job, one approver | `MergedIsEarned`, `PendingIsBlocked`, `MergedLabelTellsLane`, `JudgedOneRevision`, `ImplementsMergeGate` |
| `gitlab_overlap` | two overlapping sweeps over a fork's request, dial `always`; symmetric in the sweeps | `GreenIsEarned`, `ArmedWasGreen`, `ReleasedOnceGreen` |
| `gitlab_live` | three merge requests: one that always raises, swept first; an owner's refresh; a fork's governance edit; one failure, and a feed that may not tell who pushed; fairness | `EveryMergeRequestGated`, `ApprovalReleases`, `OwnedRefreshMerges` |
| `github_gate` | one pull request, two events, four revisions (two refreshes, a governance edit, a broken root beside a CI edit), one failed call or lost runner, dial `owners`; fairness | `GreenIsEarned`, `ArmedWasGreen`, `ArmedIsCurrent`, `NoStaleArm`, `GreenEndsInMerge` |
| `stale_sweep` | a project and a fork pull request at one failing commit, two touches, one failure or kill, thresholds 4 and 2; fairness | `OnlyForksAreClosed`, `ClosedWasExplained`, `ClosedAfterCountdown`, `AbandonedCloses` |
| `index_gate` | two packages under reserved names, two repositories (one private), one row, two image indexes that share a platform manifest, a document; two requests, the first a fork's, by hand or by tool; one move of a registry | `GreenBreaksNothing`, `ClosedUnlessCrossed`, `ClaimsWereServed`, `ServedIsClosed`, `ToolsPassTheGate` |
| `reconcile_sweep` | four checkouts of two packages: live rows that share a manifest; a missing description and a foreign package; graced rows over missing and damaged objects, and a malformed root; a row of a document, and a repository no longer allowed; two moves, one failed call, any number of calls that raise; fairness | `FindingsAreTrue`, `SteadyIsReported`, `WrongIsFiled` |
| `anomaly_report` | two sweeps (one at a time on GitHub), pages of two, at most two of them, five items opened and one closed, one failed call, both forges; fairness | `OneReport`, `AnomalyIsReported` |
| `registry_client` | a repository on a registry with tokens, one on a registry with basic credentials, one on a host no client serves; two digests; three attempts, two pages, two redirects, two tags; fairness | `RenewalIsSpared`, `ExhaustedByFaults`, `WaitsAsAsked`, `GoneIsProven`, `ProbeIsOfTheDesc`, `EveryReadEnds` |
| `publishing` | two publishers, one path, both forges, one foreign request, one fault; fairness | `NothingLost`, `RebasedOnlyInTheWindow`, `DoneIsOffered`, `AnnouncementsEnd` |
| `registry_escape`, `stale_unwarned` | | disagreements, below |

The governance lanes:

- `GreenIsEarned`: a revision is recorded green only for a reason that holds of
  that very revision: an eligible approval given once it was there, or the dial
  and, under `owners`, all its pushers owning what it touches.
- `ArmedWasGreen`: the bot arms (or squashes) only what was recorded green. On
  GitHub the two are different jobs with different notions of the head.
- `MergedIsEarned`: end to end, what a project branch merges was earned.
- `PendingIsBlocked`: a head that reads pending has a thread that blocks it, or
  one a person resolved. `ReleasedOnceGreen`: the bot releases no thread of a
  request it never recorded green.
- `MergedLabelTellsLane`: the labels of a merged request are its lane, whatever
  lanes it went through and whatever failed. This and `PendingIsBlocked` are of
  one sweep at a time.
- `JudgedOneRevision`: paths and head are one revision's (no branch pushed back
  to an old commit).
- `NoStaleArm`, `ArmedIsCurrent`: an earlier event's arm never lands after a
  later one's decision was carried out; when all jobs of all events have run,
  auto-merge is on only for a head whose own last word is green.
- `EveryMergeRequestGated` (a request that raises does not keep the sweep from
  the others), `ApprovalReleases` (an approval that stands ends in a green status
  and no open thread), `OwnedRefreshMerges` (an owner's refresh merges by itself,
  whatever its first pipeline was, once the feed tells who pushed it and goes on
  telling: `FeedTells`; until then every tick asks for a review), `GreenEndsInMerge` (on GitHub a green decision
  does not leave the request open forever, though arming is refused once nothing
  is left to wait for).

Housekeeping: `OnlyForksAreClosed`, `ClosedWasExplained`, `ClosedAfterCountdown`,
and `AbandonedCloses` (what carries the label and nobody touches does close).

The index:

- `GreenBreaksNothing`: a green request leaves every package closed and sound
  that was so where it branched off, whatever it deletes, renames or damages.
- `ClosedUnlessCrossed`: on the default branch a reference dangles only where a
  merge brought together two changes of that package. That does happen (one
  request drops an object no row names any more, another names it again), the
  history `crossed` says where, and `ServedIsClosed` shows what saves the reader:
  render leaves such a package out.
- `ClaimsWereServed`: what the index says of a tag of a public repository, that
  repository did serve, except where a merge carried a row over to a repository
  it was never checked against.
- `ToolsPassTheGate`: what seed-import or an announce wrote, the gate finds
  nothing against while nothing moves; the hypotheses list what was wrong before
  the tool ran.

The sweep and its report:

- `FindingsAreTrue`: every finding was so at some moment of the sweep.
- `SteadyIsReported`: what was wrong all through it is found; bytes the index
  stores, whatever the row's grace and whatever its tag did.
- `WrongIsFiled`: once registries hold still the issue comes to name all that is
  wrong, if `NoneRaises`: every repository is on an allowed host and from some
  night on no call raises what nothing catches. Neither is a matter of course. A
  repository that is off the list ends every sweep (`check_repository_allowlisted`
  is not caught, and `tests/cli/test_reconcile.py:222` wants it so), and so does
  one registry that goes on denying the ownership probe or serving it another
  manifest (`reconcile.py:256`): nothing is filed of any package for as long as it
  lasts.
- `OneReport`: while one issue is open, a second is opened only where an item was
  closed under a walk and the first slipped back over it, or, on GitLab, by one of
  two overlapping sweeps that both looked before either filed. Both happen,
  although `ports.py:495-505` calls the operation idempotent by title. `AnomalyIsReported`: in the end one is
  open, unless more items are open than the page cap reaches.

The registry client:

- `ExhaustedByFaults`, `RenewalIsSpared`: the budget is spent by faults only,
  never by a renewal, and the one renewal is never lost to a fetch that died.
- `WaitsAsAsked`: never less than the registry asked for in all.
- `GoneIsProven`: `check_tag_gone`, which lets a removal merge unseen, says so
  only of a tag that was not there while it asked.
- `ProbeIsOfTheDesc`: what the ownership probe concludes from two requests is true
  of one description the tag did point at. Of `check_desc_change` no more is true
  than that the digest it returns and the manifest it read the content from were
  both the tag's during the read: republished in between, they are of two
  manifests, and the description is a mixed one until a later run finds the digest
  changed.
- `EveryReadEnds`.

Publishing: `NothingLost` (a landed commit stays in the branch's past),
`RebasedOnlyInTheWindow`, `DoneIsOffered` (nobody is done with another fork's
request), `AnnouncementsEnd`.

Why the bounds are enough. A push is what makes a read stale, and with one push
the first read of each kind can fall on either side of it; on GitHub two events
are what it takes to supersede a job in either group (three events over two
revisions, 2.4 million states, show the same). One failure per sweep separates
any two calls; what nothing bounds (`PushersUntold`, `RegistryRaises`) repeats
without bound. Two sweeps
are the overlap there is: one that read before an event and one that reads
after. Two requests are what it takes to cross; a second move of a registry in
the gate adds no new order of a move and a call on the same row. Two moves in a
sweep are one before and one after any call, or a change and its reversal
between the two reads of one row. Three attempts leave a fault between the first
and the last; two pages, redirects, tags and layers are the first and the next;
`RetryAfters` and `Jitters` hold the extremes. Five items over two pages of two
are one more than the cap reaches. Two publishers are the race there is, and one
path makes their changes collide. The thresholds of `stale_sweep` are scaled,
keeping the long one longer than the short one; `stale_unwarned` uses the code's
14 and 7 days, and the theorems any.

## Fairness

- `GitLabGovernance`: `WF(SweepStep(s))`, as CI schedules keep firing and a call
  returns, with an answer or an error (`Fail`, bounded); `WF(GitLab(m))`, as
  GitLab finishes a pipeline and merges what is armed and mergeable.
- `GitHubGovernance`: `WF(GateStep)`, `WF(ArmStep)`: a queued job is run and its
  calls return. `WF(ChecksPass \/ MergeArmed)`: the required checks finish, and
  GitHub merges what is armed.
- `StaleLane`: `WF(SweepStep)` and `WF(NextDay)`; no labelling job has to run.
- `ReconcileSweep`: `WF(SweepNext)`, the nightly job keeps starting and goes on.
  `AnomalyReport`: `WF(Sweep(s))`, the same for each job.
- `RegistryClient`: `WF(Client)`, a request returns one way or another (the
  client's timeout sees to it).
- `Publishing`: `WF(Publish(p))` per publisher: told to run again, it does.

Nobody is obliged to push, approve, comment, close or fail. Faults are bounded
by a counter, so in a liveness run they stop at some point; the two that nothing
bounds, a feed that does not tell (`PushersUntold`) and a call that raises
(`RegistryRaises`), are let go on forever, and the liveness properties that need
them to stop say so in a hypothesis (`FeedTells`, `NoneRaises`).

## Disagreements

- `stale_unwarned`: the label is set before the warning (`cli/stale.py:101`); a
  sweep that dies in between leaves a pull request that is closed unwarned,
  though the warning promises the countdown (`cli/stale.py:68`, `:58`).
- `registry_escape`: "a bare `httpx` exception must never escape this module"
  (`adapters/registry_v2.py:37-40`). The token exchange's `raise_for_status`
  (`:620`), that of the reads, and a redirect hop that times out all raise one
  that nothing catches, nor does `check_tag_gone`, which says it never raises for
  those (`core/registry_checks.py:72`).

## Proofs

Everything is proved for all values of the constants that satisfy the modules'
assumptions, which type them (and, in `IndexGate`, have the first tree closed,
sound, and showing what its public registries first serve): any requests, revisions, accounts, sweeps,
publishers, contents, any number of pushes, events and failures, any thresholds
and budgets, any packages, checkouts, registries and moves of them.

What the lanes' decisions return (a lane, the worst of several, one of two
dispositions) is stated at the head of both lanes' proofs.

`GitLabGovernance_proofs`:

- `TypeCorrect`. One lemma per group of actions. What `IF` branches do to a job
  is factored into lemmas on `Becomes`, `Move`, `Forget` and `Decide`.
- `ArmsOnlyGreen`, `ReleasesOnlyGreen`. `ArmedWasGreen` is not inductive: `Arm`
  does not look at the status. `GreenInv` adds that a sweep past the status call
  in state `success` has its head in `greened`; only the sweep itself changes
  its job and `greened` only grows, so other sweeps cannot disturb it.
- `GreenOnlyIfEarned`, `JudgesOneRevision`, `MergesOnlyEarned`, under the
  hypothesis `AllowRewind = FALSE`, without which the second is false. The
  invariant `JudgeInv` says what each field a sweep holds still means about the
  present, although what was read has changed since: the commits of a request
  are all different (`Distinct`); the paths were read at a version between that
  of the head and now (`PushedInOrder`), hence, once the re-read passed, at the
  head's; an `owner` that is true, or approvers that count, were there for the
  version judged. Versions and approval events only grow (`StepGrows`), which
  keeps each of them (`JudgedKept`, `EarnedKept`).
- `Implements`: `Spec => ImplementsMergeGate`, under the same hypothesis.
  Recording green is the abstract `Release`, and it is allowed one because of
  `JudgeInv`; `Merge` is the abstract one because a green status is in
  `greened` (`MergedGreen`); every other call is a stutter.

`GitHubGovernance_proofs`:

- `GitHubTypeCorrect`.
- `ArmedInOrder` (`NoStaleArm`). The property is about two jobs and a queue. The
  invariant `InOrder` says of the groups what the step needs: at most one waits
  in each (`OneWaits`); gates start in the order of their events
  and before their own arms (`GatesInOrder`, `GateFirst`); and no arm starts
  behind one of a later event whose gate has spoken (`ArmsInOrder`). A superseded
  run's arm may come late, but its gate said nothing, and so it only withdraws.
- `ArmedAlwaysGreen` and `GreenAlwaysEarned`, under `AllowRewind = FALSE`. The
  arm is handed the EVENT's head and the disposition of a gate that read the head
  itself. `Grounded` carries that the gate read it at or after the event
  (`HeadsPushed`, `GateReadLater`), and that a disposition `success` was recorded
  for a head at or after the event's (`GateRecorded`, `SaidGreen`, `ArmsGreen`).
  Arming is bound to the event's head: if that is still the newest, nothing but
  it can be what the gate judged, commits being all different (`Distinct`).
  `Right` says what each answer the gate holds means (`Approved`,
  `JobIsRight`), as in the other lane.
- `SettledIsCurrent` (`ArmedIsCurrent`), without any hypothesis. Follow the last
  event: it is in one place, at its gate, or waiting for or in its arm job with no
  gate left anywhere. Every push is an event, so what its gate reads is the newest
  head; the gate's word and the status it records are of that head, and nobody
  comes after it to write another. If auto-merge is on when its arm job has
  ended without failing, that job found the word green; it withdraws otherwise,
  also when its gate was lost or superseded.

`StaleLane_proofs`:

- `StaleTypeCorrect`.
- `ClosesOnlyForks`, `ClosesExplained`: `ClosingInv` carries the fork through
  the label job and the label to the sweep that read it (`ForksOnly`), and
  the comment through the job that is about to close (`Explained`).
- `ClosesAfterCountdown`: `Countdown` relates the clocks (`updated_at` is never
  older than the mark nor, while open, than the last touch) and what the sweep
  read of them (`Waited`).

`IndexGate_proofs`:

- `TypeCorrect`.
- `GreenNeverBreaks`, `AlwaysClosedUnlessCrossed`, `ServedAlwaysClosed`. The
  invariant `Judged` relates the running gate to its request: every package the
  diff selects is valid at the head, or still to do, or the job has failed; and
  what the diff does not select it cannot have broken. A merge then keeps a package closed for one of three
  reasons: it did not move on the branch since (it becomes the head's), the
  request does not touch it (it stays), or both and it is `crossed`.
- `ClaimsAlwaysServed`: `Claimed` says of each row of a public package at the
  head of the running gate that it was served, or is still to be asked for
  (`JobShown`, `Pending`); of green heads, bases and the branch that all their
  rows were (`GreenShown`, `BasesShown`, `MainShown`); and that without a merge
  that repoints a package its base names the repository the branch does
  (`Unmoved`), which is why a row carried over is of the repository that served
  it.
- `ToolsAlwaysPass`. What a tool writes from what the repositories answer is well
  made (`WrittenWell`: `ImportedWell`, `AnnouncedWell`): its rows are the answers,
  its references are there, an announce keeps repository and markers. `ToolsAgree`
  carries that to the gate: while nothing moves the head still agrees with the
  answers (`WrittenHeads`); the base the job reads is the request's own until
  another request merges (`OwnBase`, needed for a reserved segment and a fork);
  the job has only this package to do, asks for nothing its root does not name,
  and has not failed (`NothingAgainst`, with one lemma for `_validate_one` and one
  for the calls, `EaseOfValidate` and `EaseOfCalls`).

`ReconcileSweep_proofs`:

- `SweepTypeCorrect`.
- `NoFalseAlarm`. A sweep reads a package from a checkout that does not change
  and each answer of a registry at one moment; `Histories` keeps what is wrong
  at present within what was wrong at some moment, so what a call finds is in
  `ever`. One lemma per call, on what it adds to the findings.
- `NoBlindSpot`. `SteadyIsReported` speaks of the end of a sweep only; the
  invariant says of every moment that what has been wrong so far is found, or
  lies in a package still ahead, or will be found by a call that is still to be
  made in this one (`FactsSeen`, `Awaited`). A move of a registry can only take
  facts out of `steady`, so it disturbs nothing that was seen (`MovesKeep`).
  Manifests need a clause of their own (`ManifestsSeen`): the bot asks
  for each once per package and leaves a row at its first missing one, so a
  missing manifest is reported under some row that lists it, not under all.

`AnomalyReport_proofs`:

- `ReportTypeCorrect`.
- `SecondReportOnlySo` (`OneReport`), for any number of overlapping sweeps. The
  invariant: a walk under which nothing was closed and nothing filed, and which has
  found nothing, has every report on a page still ahead (`LeftNothing`). A page is
  exactly the places after the one before, what is opened goes in front and moves
  every place on, and the last page reaches the length of the listing, so a walk
  that comes to write has passed every report there is. On GitHub no other sweep
  files under a walk (`Serial`).

`RegistryClient_proofs`:

- `ClientTypeCorrect`. `Shape`, below, bounds attempts, redirects and pages.
- `WaitsWithinBounds` (`WaitsAsAsked`): every retry adds to what was waited at
  least what the answer asked for, and at most that and one capped, jittered delay
  (`DelayBounds`). That `Doubled` is a function with the recursion that
  defines it is proved from the well-foundedness of the naturals (`Induction`,
  stated over sets of numbers; `DoublesExists`, `DoublesUnique`, `DoubledRecurs`).
- `ExhaustedOnlyByFaults`, `RenewalAlwaysSpared`, `GoneAlwaysProven`,
  `ProbeAlwaysOfTheDesc`. The invariants: `Shape` (what a request can be at each
  stage), `Budget` (each fault of the request at hand used one attempt), `Told` (a
  renewed token is good until it lapses; a tag the registry calls unknown was
  absent; the digests carried from one request of a read to the next came from
  the description tag, which of `check_desc_change` says only that each did).
- `EveryStepNearer` and `ReadsRunOut`: the part of `EveryReadEnds` that needs no
  fairness. `ToGo` weighs what a read has before it: kinds of request that may
  still follow, then pages, tags or layers, attempts, the renewal, what is left
  of the attempt, redirects. Every step of the client makes it smaller, place by
  place (`NearerBy`), whatever the registry answers; the renewal needs
  `TokenFresh` (a request that waits for a token has not renewed one yet), and
  a redirect that resets `hops` or a next request that resets `attempt` has paid
  in a weightier place. The order is well-founded (`LexWellFounded`, by the least
  number of each place in turn), so no read takes steps forever. That a step can
  be taken until the read is idle, and is taken, stays with the run.

`Publishing_proofs`:

- `TypeCorrect`.
- `NothingEverLost`: `Ancestry` (a commit's past contains its parent's, and lies
  among the commits there are) makes `NothingLost` inductive.
- `RebasedOnlySo`: `Looked` says what a publisher that looked saw, `Placed` where
  each commit stands.
- `DoneAlwaysOffered`: `Offered` adds the publishers that found a request and
  have not acted on it yet.

Every safety property of a passing run is proved but two. Only model-checked:
`PendingIsBlocked` and `MergedLabelTellsLane`, which hold of one sweep at a time
and fail of two (one writes `pending` when the other has released the thread, one
removes the label the other has just added), while nothing in the GitLab pipeline
keeps two apart; the liveness properties (fairness and ENABLED are out of the prover's reach), each on
its run's instance, though for `EveryReadEnds` what remains is that a step is
taken as long as one is left to take; and the two disagreements, which are
counterexamples.

## Not modelled

- Version order (`core/version_order.py`): a comparison of parsed text that
  `render` sorts by; nothing decides by it.
- Policy (`core/policy.py`): parses committed configuration. What it says is
  constants here: `AutoMerge`, `Allowed`, `Reserved`, `Maintainers`.
- Workflow audits (`core/workflow_invariants.py`): pattern checks over YAML text.
- Pipeline rendering: templates written to files and compared with what is
  there.
- Command line and wiring (`cli/_wiring.py` and the parsers): arguments and
  construction. Exit codes appear where a workflow reads them.
- In what is modelled: the syntax checks of a single file (a file that fails one
  is `Malformed`), the wording of comments and issues, dry runs, `--offline`,
  `--package`, `--all`, `--check`, `--strict`, timestamps and annotations of a
  root.
- What nothing bounds on GitLab: two overlapping sweeps can each open a review
  thread, of which `resolve_review_thread` releases one. The other keeps blocking
  until a person resolves it; the liveness run has one sweep. Nor does anything
  bound the reports that overlapping reconcile jobs file of one anomaly.
