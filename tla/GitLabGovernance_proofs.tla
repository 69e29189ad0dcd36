----------------------- MODULE GitLabGovernance_proofs ----------------------
(***************************************************************************)
(* Proofs about the GitLab governance lane, for any number of merge        *)
(* requests, sweeps, revisions, pushes and failures.                       *)
(***************************************************************************)
EXTENDS GitLabGovernance, SequenceTheorems, TLAPS

-----------------------------------------------------------------------------
(* What the gate decides, for any roots and any dial.                      *)

\* One root is always put in one of the three lanes.
LEMMA RootClassType ==
    ASSUME NEW before, NEW after, NEW gone
    PROVE  ClassifyOneRoot(before, after, gone) \in ChangeClass
BY DEF ClassifyOneRoot, ClassifyChange, RemovalClass, ChangeClass

\* Among lanes there is a most severe one.
LEMMA WorstClass ==
    ASSUME NEW C \in SUBSET ChangeClass, C # {}
    PROVE  \E c \in C : \A d \in C : Severity(d) <= Severity(c)
<1>1. CASE "human-review-required" \in C
  BY <1>1 DEF ChangeClass, Severity
<1>2. CASE "human-review-required" \notin C /\ "new-package" \in C
  BY <1>2 DEF ChangeClass, Severity
<1>3. CASE "human-review-required" \notin C /\ "new-package" \notin C
  <2>1. \A d \in C : d = "refresh"
    BY <1>3 DEF ChangeClass
  <2>2. \A d \in C : Severity(d) <= Severity("refresh")
    BY <2>1 DEF Severity
  <2>3. "refresh" \in C
    BY <2>1
  <2>4. QED BY <2>2, <2>3
<1>4. QED BY <1>1, <1>2, <1>3

\* classify_pull_request always names a lane.
LEMMA LaneType ==
    ASSUME NEW paths, NEW root, NEW gone
    PROVE  ClassifyPullRequest(paths, root, gone) \in ChangeClass
<1> DEFINE C == {ClassifyOneRoot(BaseRoot[p], root[p], gone) : p \in RootsTouched(paths)}
<1>1. C \in SUBSET ChangeClass
  BY RootClassType
<1>2. CASE C = {} \/ ~EveryPathInRefreshScope(paths)
  BY <1>2 DEF ClassifyPullRequest, ChangeClass
<1>3. CASE C # {} /\ EveryPathInRefreshScope(paths)
  <2>1. PICK c \in C : \A d \in C : Severity(d) <= Severity(c)
    BY <1>1, <1>3, WorstClass
  <2>2. (CHOOSE k \in C : \A d \in C : Severity(d) <= Severity(k)) \in C
    BY <2>1
  <2>3. QED BY <1>1, <1>3, <2>2 DEF ClassifyPullRequest
<1>4. QED BY <1>2, <1>3

-----------------------------------------------------------------------------
(* Types.                                                                  *)

\* Overwriting one element, present or not, leaves a sequence.
LEMMA OverwriteType ==
    ASSUME NEW S, NEW q \in Seq(S), NEW i, NEW e \in S
    PROVE  [q EXCEPT ![i] = e] \in Seq(S)
<1>1. Len(q) \in Nat /\ q \in [1 .. Len(q) -> S]
  BY LenProperties
<1>2. [q EXCEPT ![i] = e] \in [1 .. Len(q) -> S]
  BY <1>1
<1>3. QED BY <1>1, <1>2, SeqDef

LEMMA IdleJobType ==
    /\ IdleJob \in Job
    /\ [IdleJob EXCEPT !.call = "next"] \in Job
<1>1. /\ (CHOOSE m \in MRs : TRUE) \in MRs
      /\ (CHOOSE r \in Revisions : TRUE) \in Revisions
  BY GitLabAssumption
<1>2. "list" \in Call /\ "next" \in Call
  BY DEF Call
<1>3. "refresh" \in ChangeClass
  BY DEF ChangeClass
<1>4. IdleJob \in Job
  BY <1>1, <1>2, <1>3 DEF IdleJob, Job, VersionNumber
<1>5. QED BY <1>2, <1>4 DEF Job

LEMMA BecomesType ==
    ASSUME TypeOK, NEW s \in Sweeps, NEW j \in Job, Becomes(s, j)
    PROVE  /\ job' \in [Sweeps -> Job]
           /\ job'[s] = j
           /\ \A t \in Sweeps \ {s} : job'[t] = job[t]
BY DEF TypeOK, Becomes

\* A sweep that goes on to another call, or starts over, is still a job.
LEMMA MoveType ==
    ASSUME TypeOK, NEW s \in Sweeps, NEW call \in Call, Move(s, call)
    PROVE  job' \in [Sweeps -> Job]
<1>1. job[s] \in Job
  BY DEF TypeOK
<1>2. [job[s] EXCEPT !.call = call] \in Job
  BY <1>1 DEF Job
<1>3. QED BY <1>2, BecomesType DEF Move

LEMMA ForgetType ==
    ASSUME TypeOK, NEW s \in Sweeps, Forget(s)
    PROVE  job' \in [Sweeps -> Job]
BY IdleJobType, BecomesType DEF Forget

LEMMA HeadType ==
    ASSUME TypeOK, NEW m \in MRs
    PROVE  /\ Newest(m) \in Nat \ {0}
           /\ HeadOf(m) \in Revisions
<1>1. versions[m] \in Seq(Version) /\ Len(versions[m]) \in 1 .. MaxPushes[m] + 1
  BY DEF TypeOK
<1>2. MaxPushes[m] \in Nat
  BY GitLabAssumption
<1>3. Len(versions[m]) \in Nat \ {0}
  BY <1>1, <1>2
<1>4. versions[m][Len(versions[m])] \in Version
  BY <1>1, <1>3
<1>5. QED BY <1>3, <1>4 DEF HeadOf, Newest, Version

LEMMA DecideType ==
    ASSUME TypeOK, NEW s \in Sweeps, NEW approved, Decide(s, approved)
    PROVE  job' \in [Sweeps -> Job]
<1> DEFINE d == Disposition(job[s].class, job[s].owner, approved)
           c == IF d = "success" THEN "status" ELSE "findThread"
           j == [job[s] EXCEPT !.state = d, !.call = c, !.labels = {}, !.owner = FALSE,
                               !.approvers = {}, !.since = 1]
<1>1. d \in {"pending", "success"}
  BY DEF Disposition
<1>2. c \in Call
  BY DEF Call
<1>3. Becomes(s, j)
  BY DEF Decide
<1>4. job[s] \in Job
  BY DEF TypeOK
<1>5. j \in Job
  <2> HIDE DEF d, c
  <2>1. /\ {} \in SUBSET ChangeClass /\ {} \in SUBSET Accounts
        /\ 1 \in VersionNumber /\ FALSE \in BOOLEAN
    BY DEF VersionNumber
  <2>2. QED BY <1>1, <1>2, <1>4, <2>1 DEF Job
<1>6. QED BY <1>3, <1>5, BecomesType

\* Every call of a sweep leaves it a job.
LEMMA SweepJobType ==
    ASSUME TypeOK, NEW s \in Sweeps, SweepStep(s) \/ SweepFault(s)
    PROVE  job' \in [Sweeps -> Job]
<1>1. /\ job[s] \in Job
      /\ job[s].mr \in MRs
      /\ HeadOf(job[s].mr) \in Revisions
      /\ Newest(job[s].mr) \in VersionNumber
      /\ approvedBy[job[s].mr] \subseteq Accounts
  BY HeadType DEF TypeOK, Job, VersionNumber
<1>2. /\ AfterWithdraw(s) => job' \in [Sweeps -> Job]
      /\ AfterPipeline(s) => job' \in [Sweeps -> Job]
  BY MoveType, ForgetType DEF AfterWithdraw, AfterPipeline, Call
<1>3. CASE ListOpen(s) \/ EndSweep(s)
  BY <1>3, MoveType DEF ListOpen, EndSweep, Call
<1>4. CASE ReadMergeRequest(s)
  <2>1. PICK m \in todo[s] :
              Becomes(s, [job[s] EXCEPT !.call = "paths", !.mr = m,
                                        !.head = HeadOf(m), !.labels = labels[m]])
    BY <1>4 DEF ReadMergeRequest
  <2>2. /\ m \in MRs /\ HeadOf(m) \in Revisions
        /\ labels[m] \subseteq ChangeClass /\ "paths" \in Call
    BY HeadType DEF TypeOK, Call
  <2>3. [job[s] EXCEPT !.call = "paths", !.mr = m,
                       !.head = HeadOf(m), !.labels = labels[m]] \in Job
    BY <1>1, <2>2 DEF Job
  <2>4. QED BY <2>1, <2>3, BecomesType
<1>5. CASE ReadDiffs(s)
  <2>1. "reread" \in Call
    BY DEF Call
  <2>2. [job[s] EXCEPT !.call = "reread", !.paths = HeadOf(job[s].mr)] \in Job
    BY <1>1, <2>1 DEF Job
  <2>3. QED BY <1>5, <2>2, BecomesType DEF ReadDiffs
<1>6. CASE RereadHead(s)
  BY <1>6, MoveType, ForgetType DEF RereadHead, Call
<1>7. CASE Classify(s)
  <2>1. JudgedClass(job[s]) \in ChangeClass /\ "label" \in Call
    BY LaneType DEF JudgedClass, Call
  <2>2. [job[s] EXCEPT !.call = "label", !.class = JudgedClass(job[s])] \in Job
    BY <1>1, <2>1 DEF Job
  <2>3. QED BY <1>7, <2>2, BecomesType, ForgetType DEF Classify
<1>8. CASE AddLabel(s)
  BY <1>8, MoveType DEF AddLabel, Call
<1>9. CASE RemoveLabel(s)
  <2>1. ASSUME NEW l, Becomes(s, [job[s] EXCEPT !.labels = @ \ {l}])
        PROVE  job' \in [Sweeps -> Job]
    <3>1. [job[s] EXCEPT !.labels = @ \ {l}] \in Job
      BY <1>1 DEF Job
    <3>2. QED BY <2>1, <3>1, BecomesType
  <2>2. "pushers" \in Call /\ "approvedBy" \in Call
    BY DEF Call
  <2>3. QED BY <1>9, <2>1, <2>2, MoveType DEF RemoveLabel
<1>10. CASE ReadPushers(s) \/ PushersUntold(s)
  BY <1>10, MoveType DEF ReadPushers, PushersUntold, Call
<1>11. CASE ReadPushEvents(s)
  <2> DEFINE o == OwnsEveryTouchedPackage(Content[job[s].paths].paths,
                                          {Author[job[s].mr]} \cup Pushers(job[s].mr))
  <2>1. o \in BOOLEAN /\ "approvedBy" \in Call
    BY DEF OwnsEveryTouchedPackage, Call
  <2>2. Becomes(s, [job[s] EXCEPT !.call = "approvedBy", !.owner = o])
    BY <1>11 DEF ReadPushEvents
  <2> HIDE DEF o
  <2>3. [job[s] EXCEPT !.call = "approvedBy", !.owner = o] \in Job
    BY <1>1, <2>1 DEF Job
  <2>4. QED BY <2>2, <2>3, BecomesType
<1>12. CASE ReadApprovedBy(s)
  <2>1. "versions" \in Call
    BY DEF Call
  <2>2. [job[s] EXCEPT !.call = "versions", !.approvers = approvedBy[job[s].mr]] \in Job
    BY <1>1, <2>1 DEF Job
  <2>3. QED BY <1>12, <2>2, BecomesType, DecideType DEF ReadApprovedBy
<1>13. CASE ReadVersions(s)
  <2>1. "events" \in Call
    BY DEF Call
  <2>2. [job[s] EXCEPT !.call = "events", !.since = Newest(job[s].mr)] \in Job
    BY <1>1, <2>1 DEF Job
  <2>3. QED BY <1>13, <2>2, BecomesType, DecideType DEF ReadVersions
<1>14. CASE ReadApprovalEvents(s)
  BY <1>14, DecideType DEF ReadApprovalEvents
<1>15. ASSUME NEW c \in Call, NEW i \in Nat,
              Becomes(s, [job[s] EXCEPT !.call = c, !.thread = i])
       PROVE  job' \in [Sweeps -> Job]
  <2>1. [job[s] EXCEPT !.call = c, !.thread = i] \in Job
    BY <1>1 DEF Job
  <2>2. QED BY <1>15, <2>1, BecomesType
<1>16. CASE FindThread(s)
  <2> DEFINE i == MarkedDiscussion(job[s].mr)
             c == IF i = 0 THEN "openThread" ELSE "reopenThread"
  <2>1. i \in Nat /\ c \in Call
    BY DEF MarkedDiscussion, Call
  <2>2. Forget(s) \/ Becomes(s, [job[s] EXCEPT !.call = c, !.thread = i])
    BY <1>16 DEF FindThread
  <2> HIDE DEF i, c
  <2>3. QED BY <1>15, <2>1, <2>2, ForgetType
<1>17. CASE OpenThread(s) \/ ReopenThread(s)
  BY <1>17, MoveType DEF OpenThread, ReopenThread, Call
<1>18. CASE SetCommitStatus(s)
  BY <1>18, MoveType DEF SetCommitStatus, Call
<1>19. CASE FindReleased(s)
  <2> DEFINE i == MarkedDiscussion(job[s].mr)
             c == IF i = 0 THEN "readPipeline" ELSE "resolveThread"
  <2>1. i \in Nat /\ c \in Call
    BY DEF MarkedDiscussion, Call
  <2>2. Becomes(s, [job[s] EXCEPT !.call = c, !.thread = i])
    BY <1>19 DEF FindReleased
  <2> HIDE DEF i, c
  <2>3. QED BY <1>15, <2>1, <2>2
<1>20. CASE ResolveThread(s)
  BY <1>20, MoveType DEF ResolveThread, Call
<1>21. CASE ReadArmed(s)
  BY <1>21, <1>2, MoveType DEF ReadArmed, Call
<1>22. CASE CancelArm(s)
  BY <1>22, <1>2, ForgetType DEF CancelArm
<1>23. CASE ReadPipeline(s)
  BY <1>23, <1>2, MoveType DEF ReadPipeline, Call
<1>24. CASE CreatePipeline(s) \/ PipelineRefused(s)
  BY <1>24, <1>2 DEF CreatePipeline, PipelineRefused
<1>25. CASE Arm(s) \/ Fail(s)
  BY <1>25, ForgetType DEF Arm, Fail
<1>26. CASE Killed(s)
  BY <1>26, IdleJobType, BecomesType DEF Killed
<1>27. QED BY <1>3, <1>4, <1>5, <1>6, <1>7, <1>8, <1>9, <1>10, <1>11, <1>12, <1>13, <1>14,
              <1>16, <1>17, <1>18, <1>19, <1>20, <1>21, <1>22, <1>23, <1>24, <1>25, <1>26
           DEF SweepStep, SweepFault

\* TypeOK without the sweeps' jobs, which SweepJobType covers.
LEMMA SweepTypeStep ==
    ASSUME TypeOK, NEW s \in Sweeps, SweepStep(s) \/ SweepFault(s)
    PROVE  TypeOK'
<1>1. job' \in [Sweeps -> Job]
  BY SweepJobType
<1>2. /\ job[s] \in Job /\ job[s].mr \in MRs /\ job[s].head \in Revisions
      /\ job[s].class \in ChangeClass /\ job[s].state \in {"pending", "success"}
  BY DEF TypeOK, Job
<1>3. HeadOf(job[s].mr) \in Revisions
  BY <1>2, HeadType
<1> USE DEF discussion, gate, merging, history
<1>4. ASSUME ForgeUnchanged,
             todo' \in [Sweeps -> SUBSET MRs], failures' \in 0 .. MaxFailures
      PROVE  TypeOK'
  BY <1>1, <1>4 DEF TypeOK, ForgeUnchanged
<1>5. ASSUME ForgeUnchanged, UNCHANGED <<todo, failures>>
      PROVE  TypeOK'
  BY <1>1, <1>5 DEF TypeOK, ForgeUnchanged
<1>6. failures < MaxFailures /\ failures' = failures + 1 => failures' \in 0 .. MaxFailures
  BY GitLabAssumption DEF TypeOK
<1>7. CASE ListOpen(s)
  BY <1>4, <1>7 DEF ListOpen, TypeOK
<1>8. CASE ReadMergeRequest(s)
  BY <1>4, <1>8 DEF ReadMergeRequest, TypeOK
<1>9. CASE \/ EndSweep(s) \/ ReadDiffs(s) \/ RereadHead(s) \/ Classify(s)
           \/ ReadPushers(s) \/ ReadPushEvents(s) \/ PushersUntold(s)
           \/ ReadApprovedBy(s) \/ ReadVersions(s) \/ ReadApprovalEvents(s)
           \/ FindThread(s) \/ FindReleased(s) \/ ReadArmed(s) \/ ReadPipeline(s)
  BY <1>5, <1>9 DEF EndSweep, ReadDiffs, RereadHead, Classify, ReadPushers, ReadPushEvents,
                    PushersUntold, ReadApprovedBy, ReadVersions, ReadApprovalEvents,
                    FindThread, FindReleased, ReadArmed, ReadPipeline
<1>10. CASE Fail(s) \/ PipelineRefused(s)
  BY <1>4, <1>6, <1>10 DEF Fail, PipelineRefused, TypeOK
<1>11. CASE Killed(s)
  BY <1>4, <1>6, <1>11 DEF Killed, TypeOK
<1>12. CASE AddLabel(s)
  BY <1>1, <1>2, <1>12 DEF AddLabel, TypeOK
<1>13. CASE RemoveLabel(s)
  <2>1. labels' \in [MRs -> SUBSET ChangeClass]
    <3>1. CASE UNCHANGED labels
      BY <3>1 DEF TypeOK
    <3>2. ASSUME NEW l, labels' = [labels EXCEPT ![job[s].mr] = @ \ {l}]
          PROVE  labels' \in [MRs -> SUBSET ChangeClass]
      BY <1>2, <3>2 DEF TypeOK
    <3>3. QED BY <1>13, <3>1, <3>2 DEF RemoveLabel
  <2>2. QED BY <1>1, <1>13, <2>1 DEF RemoveLabel, TypeOK
<1>14. CASE OpenThread(s) \/ ReopenThread(s) \/ ResolveThread(s)
  <2>1. threads' \in [MRs -> Seq(ThreadState)]
    <3>1. threads[job[s].mr] \in Seq(ThreadState)
      BY <1>2 DEF TypeOK
    <3>2. /\ Append(threads[job[s].mr], "open") \in Seq(ThreadState)
          /\ [threads[job[s].mr] EXCEPT ![job[s].thread] = "open"] \in Seq(ThreadState)
          /\ [threads[job[s].mr] EXCEPT ![job[s].thread] = "resolved"] \in Seq(ThreadState)
      <4>1. "open" \in ThreadState /\ "resolved" \in ThreadState
        BY DEF ThreadState
      <4> HIDE DEF ThreadState
      <4>2. Append(threads[job[s].mr], "open") \in Seq(ThreadState)
        BY <3>1, <4>1
      <4>3. [threads[job[s].mr] EXCEPT ![job[s].thread] = "open"] \in Seq(ThreadState)
        BY <3>1, <4>1, OverwriteType, Zenon
      <4>4. [threads[job[s].mr] EXCEPT ![job[s].thread] = "resolved"] \in Seq(ThreadState)
        BY <3>1, <4>1, OverwriteType, Zenon
      <4>5. QED BY <4>2, <4>3, <4>4
    <3>3. \/ threads' = [threads EXCEPT ![job[s].mr] = Append(@, "open")]
          \/ threads' = [threads EXCEPT ![job[s].mr] = [@ EXCEPT ![job[s].thread] = "open"]]
          \/ threads' = [threads EXCEPT ![job[s].mr] = [@ EXCEPT ![job[s].thread] = "resolved"]]
      BY <1>14 DEF OpenThread, ReopenThread, ResolveThread
    <3>4. QED BY <1>2, <3>2, <3>3 DEF TypeOK
  <2>2. QED BY <1>1, <1>14, <2>1 DEF OpenThread, ReopenThread, ResolveThread, TypeOK
<1>15. CASE SetCommitStatus(s)
  <2>1. status' \in [MRs -> [Revisions -> {"absent", "pending", "success"}]]
    BY <1>2, <1>15 DEF SetCommitStatus, TypeOK
  <2>2. greened' \in [MRs -> SUBSET Revisions]
    BY <1>2, <1>15 DEF SetCommitStatus, TypeOK
  <2>3. QED BY <1>1, <1>15, <2>1, <2>2 DEF SetCommitStatus, TypeOK
<1>16. CASE CancelArm(s)
  <2>1. armed' \in [MRs -> BOOLEAN]
    BY <1>2, <1>16 DEF CancelArm, TypeOK
  <2>2. QED BY <1>1, <1>16, <2>1 DEF CancelArm, TypeOK
<1>17. CASE CreatePipeline(s)
  <2>1. pipeline' \in [MRs -> [Revisions -> {"none", "running", "passed"}]]
    BY <1>2, <1>3, <1>17 DEF CreatePipeline, TypeOK
  <2>2. QED BY <1>1, <1>17, <2>1 DEF CreatePipeline, TypeOK
<1>18. CASE Arm(s)
  <2>1. \/ UNCHANGED <<armed, armedFor>>
        \/ /\ armed' = [armed EXCEPT ![job[s].mr] = TRUE]
           /\ armedFor' = [armedFor EXCEPT ![job[s].mr] = @ \cup {job[s].head}]
    BY <1>18 DEF Arm
  <2>2. armed' \in [MRs -> BOOLEAN] /\ armedFor' \in [MRs -> SUBSET Revisions]
    <3>1. CASE UNCHANGED <<armed, armedFor>>
      BY <3>1 DEF TypeOK
    <3>2. CASE /\ armed' = [armed EXCEPT ![job[s].mr] = TRUE]
               /\ armedFor' = [armedFor EXCEPT ![job[s].mr] = @ \cup {job[s].head}]
      BY <1>2, <3>2 DEF TypeOK
    <3>3. QED BY <2>1, <3>1, <3>2
  <2>3. QED BY <1>1, <1>18, <2>2 DEF Arm, TypeOK
<1>19. QED BY <1>7, <1>8, <1>9, <1>10, <1>11, <1>12, <1>13, <1>14, <1>15, <1>16, <1>17, <1>18
           DEF SweepStep, SweepFault

LEMMA OthersTypeStep ==
    ASSUME TypeOK, NEW m \in MRs, People(m) \/ GitLab(m)
    PROVE  TypeOK'
<1> USE DEF discussion, gate, merging, history
<1>1. ASSUME NEW r \in Revisions, NEW a \in Accounts, Push(m, r, a)
      PROVE  TypeOK'
  <2>1. versions[m] \in Seq(Version) /\ [rev |-> r, by |-> a] \in Version
    BY DEF TypeOK, Version
  <2>2. Append(versions[m], [rev |-> r, by |-> a]) \in Seq(Version)
    BY <2>1
  <2>3. Len(Append(versions[m], [rev |-> r, by |-> a])) = Len(versions[m]) + 1
    BY <2>1
  <2>4. versions' = [versions EXCEPT ![m] = Append(@, [rev |-> r, by |-> a])]
    BY <1>1 DEF Push
  <2>5. versions' \in [MRs -> Seq(Version)]
    BY <2>2, <2>4 DEF TypeOK
  <2>6. \A n \in MRs : Len(versions'[n]) \in 1 .. MaxPushes[n] + 1
    <3>1. Len(versions[m]) <= MaxPushes[m] /\ MaxPushes[m] \in Nat
      BY <1>1, GitLabAssumption DEF Push, Newest
    <3>2. Len(versions[m]) + 1 \in 1 .. MaxPushes[m] + 1
      BY <2>1, <3>1
    <3>3. QED BY <2>3, <2>4, <3>2 DEF TypeOK
  <2>7. armed' \in [MRs -> BOOLEAN]
    BY <1>1 DEF Push, TypeOK
  <2>8. pipeline' \in [MRs -> [Revisions -> {"none", "running", "passed"}]]
    <3>1. PICK p \in {"running", pipeline[m][r]} :
                pipeline' = [pipeline EXCEPT ![m][r] = p]
      BY <1>1 DEF Push
    <3>2. pipeline[m] \in [Revisions -> {"none", "running", "passed"}]
      BY DEF TypeOK
    <3>3. p \in {"none", "running", "passed"}
      <4>1. pipeline[m][r] \in {"none", "running", "passed"}
        BY <3>2
      <4>2. p = "running" \/ p = pipeline[m][r]
        OBVIOUS
      <4>3. QED BY <4>1, <4>2
    <3>4. [pipeline[m] EXCEPT ![r] = p] \in [Revisions -> {"none", "running", "passed"}]
      BY <3>2, <3>3
    <3>5. pipeline' = [pipeline EXCEPT ![m] = [pipeline[m] EXCEPT ![r] = p]]
      BY <3>1
    <3>6. QED BY <3>4, <3>5 DEF TypeOK
  <2>9. QED BY <1>1, <2>5, <2>6, <2>7, <2>8 DEF Push, TypeOK
<1>2. ASSUME NEW a \in Reviewers[m], Approve(m, a)
      PROVE  TypeOK'
  <2>1. a \in Accounts /\ Newest(m) \in VersionNumber
    BY GitLabAssumption, HeadType DEF VersionNumber
  <2>2. approvedBy' \in [MRs -> SUBSET Accounts]
    BY <1>2, <2>1 DEF Approve, TypeOK
  <2>3. approvals' \in [MRs -> SUBSET Approval]
    BY <1>2, <2>1 DEF Approve, Approval, TypeOK
  <2>4. QED BY <1>2, <2>2, <2>3 DEF Approve, TypeOK
<1>3. ASSUME NEW a \in Reviewers[m], Unapprove(m, a)
      PROVE  TypeOK'
  <2>1. approvedBy' \in [MRs -> SUBSET Accounts]
    BY <1>3 DEF Unapprove, TypeOK
  <2>2. QED BY <1>3, <2>1 DEF Unapprove, TypeOK
<1>4. CASE WaveThrough(m)
  <2>1. PICK i \in Open(m) : threads' = [threads EXCEPT ![m] = [@ EXCEPT ![i] = "waved"]]
    BY <1>4 DEF WaveThrough
  <2>2. [threads[m] EXCEPT ![i] = "waved"] \in Seq(ThreadState)
    BY OverwriteType DEF TypeOK, ThreadState
  <2>3. threads' \in [MRs -> Seq(ThreadState)]
    BY <2>1, <2>2 DEF TypeOK
  <2>4. QED BY <1>4, <2>3 DEF WaveThrough, TypeOK
<1>5. CASE Merge(m)
  <2>1. armed' \in [MRs -> BOOLEAN] /\ merged' \in [MRs -> Revisions \cup {NotMerged}]
    BY <1>5, HeadType DEF Merge, TypeOK
  <2>2. QED BY <1>5, <2>1 DEF Merge, TypeOK
<1>6. ASSUME NEW r \in Revisions, PipelinePasses(m, r)
      PROVE  TypeOK'
  <2>1. pipeline' \in [MRs -> [Revisions -> {"none", "running", "passed"}]]
    BY <1>6 DEF PipelinePasses, TypeOK
  <2>2. QED BY <1>6, <2>1 DEF PipelinePasses, TypeOK
<1>7. QED BY <1>1, <1>2, <1>3, <1>4, <1>5, <1>6
          DEF People, GitLab, MergeArmed, MergeByPerson

LEMMA TypeStep == TypeOK /\ [Next]_vars => TypeOK'
<1>1. ASSUME TypeOK, UNCHANGED vars
      PROVE  TypeOK'
  BY <1>1 DEF TypeOK, vars, discussion, gate, merging, history
<1>2. QED BY <1>1, SweepTypeStep, OthersTypeStep DEF Next

LEMMA TypeInit == Init => TypeOK
<1> SUFFICES ASSUME Init PROVE TypeOK
  OBVIOUS
<1>1. versions \in [MRs -> Seq(Version)]
  BY GitLabAssumption DEF Init, Version
<1>2. \A m \in MRs : Len(versions[m]) \in 1 .. MaxPushes[m] + 1
  BY GitLabAssumption DEF Init
<1>3. threads \in [MRs -> Seq(ThreadState)]
  BY DEF Init
<1>4. job \in [Sweeps -> Job]
  BY IdleJobType DEF Init
<1>5. QED BY <1>1, <1>2, <1>3, <1>4, GitLabAssumption DEF Init, TypeOK

\* The lane's state always has its type.
THEOREM TypeCorrect == Spec => []TypeOK
BY TypeInit, TypeStep, PTL DEF Spec

-----------------------------------------------------------------------------
(* What a step never takes back.                                           *)

\* Versions are only added, approved events and green commits only accumulate.
Grows ==
    \A m \in MRs :
        /\ Len(versions[m]) <= Len(versions'[m])
        /\ \A i \in 1 .. Len(versions[m]) : versions'[m][i] = versions[m][i]
        /\ approvals[m] \subseteq approvals'[m]
        /\ greened[m] \subseteq greened'[m]

LEMMA SweepGrows ==
    ASSUME TypeOK, NEW s \in Sweeps, SweepStep(s) \/ SweepFault(s)
    PROVE  UNCHANGED discussion /\ \A m \in MRs : greened[m] \subseteq greened'[m]
<1> USE DEF history
<1>1. CASE SetCommitStatus(s)
  <2>1. greened \in [MRs -> SUBSET Revisions]
    BY DEF TypeOK
  <2>2. QED BY <1>1, <2>1 DEF SetCommitStatus
<1>2. CASE \/ AddLabel(s) \/ RemoveLabel(s) \/ OpenThread(s) \/ ReopenThread(s)
           \/ ResolveThread(s) \/ CancelArm(s) \/ CreatePipeline(s) \/ Arm(s)
  BY <1>2 DEF AddLabel, RemoveLabel, OpenThread, ReopenThread, ResolveThread, CancelArm,
              CreatePipeline, Arm
<1>3. CASE \/ ListOpen(s) \/ EndSweep(s) \/ ReadMergeRequest(s) \/ ReadDiffs(s)
           \/ RereadHead(s) \/ Classify(s) \/ ReadPushers(s) \/ ReadPushEvents(s)
           \/ PushersUntold(s) \/ ReadApprovedBy(s) \/ ReadVersions(s) \/ ReadApprovalEvents(s)
           \/ FindThread(s) \/ FindReleased(s) \/ ReadArmed(s) \/ ReadPipeline(s)
           \/ SweepFault(s)
  <2>1. ForgeUnchanged
    BY <1>3 DEF ListOpen, EndSweep, ReadMergeRequest, ReadDiffs, RereadHead, Classify,
                ReadPushers, ReadPushEvents, PushersUntold, ReadApprovedBy, ReadVersions,
                ReadApprovalEvents,
                FindThread, FindReleased, ReadArmed, ReadPipeline,
                SweepFault, Fail, Killed, PipelineRefused
  <2>2. UNCHANGED discussion /\ UNCHANGED greened
    BY <2>1 DEF ForgeUnchanged
  <2>3. QED BY <2>2
<1>4. QED BY <1>1, <1>2, <1>3 DEF SweepStep

LEMMA StepGrows ==
    ASSUME TypeOK, [Next]_vars
    PROVE  Grows
<1> USE DEF discussion, gate, merging, history
<1>1. \A m \in MRs : Len(versions[m]) \in Nat
  BY DEF TypeOK
<1>2. ASSUME UNCHANGED discussion, \A m \in MRs : greened[m] \subseteq greened'[m]
      PROVE  Grows
  BY <1>1, <1>2 DEF Grows
<1>3. CASE UNCHANGED vars
  BY <1>2, <1>3 DEF vars
<1>4. ASSUME NEW s \in Sweeps, SweepStep(s) \/ SweepFault(s)
      PROVE  Grows
  BY <1>2, <1>4, SweepGrows
<1>5. ASSUME NEW m \in MRs, NEW r \in Revisions, NEW a \in Accounts, Push(m, r, a)
      PROVE  Grows
  <2> DEFINE v == [rev |-> r, by |-> a]
  <2>1. versions[m] \in Seq(Version) /\ v \in Version
    BY DEF TypeOK, Version
  <2>2. /\ Len(Append(versions[m], v)) = Len(versions[m]) + 1
        /\ \A i \in 1 .. Len(versions[m]) : Append(versions[m], v)[i] = versions[m][i]
    BY <2>1
  <2>3. versions' = [versions EXCEPT ![m] = Append(versions[m], v)]
    BY <1>5 DEF Push
  <2>4. \A n \in MRs : versions'[n] = IF n = m THEN Append(versions[m], v) ELSE versions[n]
    BY <2>3 DEF TypeOK
  <2>5. UNCHANGED <<approvals, greened>>
    BY <1>5 DEF Push
  <2> HIDE DEF v
  <2>6. ASSUME NEW n \in MRs
        PROVE  /\ Len(versions[n]) <= Len(versions'[n])
               /\ \A i \in 1 .. Len(versions[n]) : versions'[n][i] = versions[n][i]
    <3>1. CASE n = m
      <4>1. versions'[n] = Append(versions[n], v)
        BY <2>4, <3>1
      <4>2. QED BY <1>1, <2>2, <3>1, <4>1
    <3>2. CASE n # m
      <4>1. versions'[n] = versions[n]
        BY <2>4, <3>2
      <4>2. QED BY <1>1, <4>1
    <3>3. QED BY <3>1, <3>2
  <2>7. QED BY <2>5, <2>6 DEF Grows
<1>6. ASSUME NEW m \in MRs, NEW a, Approve(m, a)
      PROVE  Grows
  <2>1. UNCHANGED <<versions, greened>> /\ \A n \in MRs : approvals[n] \subseteq approvals'[n]
    BY <1>6 DEF Approve, TypeOK
  <2>2. QED BY <1>1, <2>1 DEF Grows
<1>7. ASSUME NEW m \in MRs, \/ \E a \in Reviewers[m] : Unapprove(m, a)
                            \/ WaveThrough(m) \/ Merge(m)
                            \/ \E r \in Revisions : PipelinePasses(m, r)
      PROVE  Grows
  <2>1. UNCHANGED <<versions, approvals, greened>>
    BY <1>7 DEF Unapprove, WaveThrough, Merge, PipelinePasses
  <2>2. QED BY <1>1, <2>1 DEF Grows
<1>8. QED BY <1>3, <1>4, <1>5, <1>6, <1>7
          DEF Next, People, GitLab, MergeArmed, MergeByPerson

\* Earned, of a merge request whose versions and approved events are given.
EarnedFrom(m, r, vs, evs) ==
    \E v \in DOMAIN vs :
        /\ vs[v].rev = r
        /\ \/ \E e \in evs : e.by \in Eligible(m) /\ e.at >= v
           \/ LaneOf[r] = "refresh" /\ AutoMerge = "always"
           \/ /\ LaneOf[r] = "refresh" /\ AutoMerge = "owners"
              /\ m \notin Forks
              /\ OwnsEveryTouchedPackage(Content[r].paths,
                                         {Author[m]} \cup {vs[i].by : i \in 1 .. v})

LEMMA EarnedIs ==
    ASSUME NEW m, NEW r
    PROVE  Earned(m, r) <=> EarnedFrom(m, r, versions[m], approvals[m])
BY DEF Earned, EarnedFrom, PushersUpTo

\* Grows, of one merge request.
GrowsTo(vs, ws, evs, fvs) ==
    /\ Len(vs) <= Len(ws)
    /\ \A i \in 1 .. Len(vs) : ws[i] = vs[i]
    /\ evs \subseteq fvs

\* What a revision has earned it keeps.
LEMMA EarnedKept ==
    ASSUME NEW m, NEW r, NEW vs \in Seq(Version), NEW ws \in Seq(Version), NEW evs, NEW fvs,
           GrowsTo(vs, ws, evs, fvs), EarnedFrom(m, r, vs, evs)
    PROVE  EarnedFrom(m, r, ws, fvs)
<1>1. PICK v \in DOMAIN vs :
            /\ vs[v].rev = r
            /\ \/ \E e \in evs : e.by \in Eligible(m) /\ e.at >= v
               \/ LaneOf[r] = "refresh" /\ AutoMerge = "always"
               \/ /\ LaneOf[r] = "refresh" /\ AutoMerge = "owners"
                  /\ m \notin Forks
                  /\ OwnsEveryTouchedPackage(Content[r].paths,
                                             {Author[m]} \cup {vs[i].by : i \in 1 .. v})
  BY DEF EarnedFrom
<1>2. v \in 1 .. Len(vs) /\ Len(vs) \in Nat /\ Len(ws) \in Nat /\ v \in DOMAIN ws
  BY <1>1 DEF GrowsTo
<1>3. \A i \in 1 .. v : ws[i] = vs[i]
  BY <1>2 DEF GrowsTo
<1>4. {ws[i].by : i \in 1 .. v} = {vs[i].by : i \in 1 .. v}
  BY <1>3
<1>5. ws[v].rev = r
  BY <1>1, <1>2, <1>3
<1>6. CASE \E e \in evs : e.by \in Eligible(m) /\ e.at >= v
  <2>1. \E e \in fvs : e.by \in Eligible(m) /\ e.at >= v
    BY <1>6 DEF GrowsTo
  <2>2. QED BY <1>2, <1>5, <2>1 DEF EarnedFrom
<1>7. CASE LaneOf[r] = "refresh" /\ AutoMerge = "always"
  BY <1>2, <1>5, <1>7 DEF EarnedFrom
<1>8. CASE /\ LaneOf[r] = "refresh" /\ AutoMerge = "owners" /\ m \notin Forks
           /\ OwnsEveryTouchedPackage(Content[r].paths,
                                      {Author[m]} \cup {vs[i].by : i \in 1 .. v})
  <2>1. OwnsEveryTouchedPackage(Content[r].paths,
                                {Author[m]} \cup {ws[i].by : i \in 1 .. v})
    BY <1>4, <1>8
  <2>2. QED BY <1>2, <1>5, <1>8, <2>1 DEF EarnedFrom
<1>9. QED BY <1>1, <1>6, <1>7, <1>8

-----------------------------------------------------------------------------
(* Auto-merge is armed, and threads are released, only for green commits.  *)

\* A sweep that moves on to another call keeps everything it has read.
LEMMA MoveFields ==
    ASSUME TypeOK, NEW s \in Sweeps, NEW call \in Call, Move(s, call)
    PROVE  /\ job'[s].call = call
           /\ job'[s].mr = job[s].mr /\ job'[s].head = job[s].head
           /\ job'[s].paths = job[s].paths /\ job'[s].class = job[s].class
           /\ job'[s].owner = job[s].owner /\ job'[s].since = job[s].since
           /\ job'[s].state = job[s].state /\ job'[s].approvers = job[s].approvers
<1>1. job[s] \in Job
  BY DEF TypeOK
<1>2. job'[s] = [job[s] EXCEPT !.call = call]
  BY DEF TypeOK, Move, Becomes
<1>3. QED BY <1>1, <1>2 DEF Job

\* One that starts over is between two merge requests, and pending.
LEMMA ForgetFields ==
    ASSUME TypeOK, NEW s \in Sweeps, Forget(s)
    PROVE  job'[s].call = "next" /\ job'[s].state = "pending" /\ job'[s].owner = FALSE
BY DEF TypeOK, Forget, Becomes, IdleJob

\* Deciding keeps what the decision is about.
LEMMA DecideFields ==
    ASSUME TypeOK, NEW s \in Sweeps, NEW approved, Decide(s, approved)
    PROVE  LET d == Disposition(job[s].class, job[s].owner, approved)
           IN  /\ job'[s].call = IF d = "success" THEN "status" ELSE "findThread"
               /\ job'[s].mr = job[s].mr /\ job'[s].head = job[s].head
               /\ job'[s].paths = job[s].paths /\ job'[s].class = job[s].class
               /\ job'[s].state = d /\ job'[s].owner = FALSE
<1> DEFINE d == Disposition(job[s].class, job[s].owner, approved)
           c == IF d = "success" THEN "status" ELSE "findThread"
<1>1. job[s] \in Job
  BY DEF TypeOK
<1>2. job'[s] = [job[s] EXCEPT !.state = d, !.call = c, !.labels = {}, !.owner = FALSE,
                               !.approvers = {}, !.since = 1]
  BY DEF TypeOK, Decide, Becomes
<1> HIDE DEF d, c
<1>3. /\ job'[s].call = c /\ job'[s].mr = job[s].mr /\ job'[s].head = job[s].head
      /\ job'[s].paths = job[s].paths /\ job'[s].class = job[s].class
      /\ job'[s].state = d /\ job'[s].owner = FALSE
  BY <1>1, <1>2 DEF Job
<1>4. QED BY <1>3 DEF d, c

\* A sweep's step touches its own job only.
LEMMA OtherSweeps ==
    ASSUME TypeOK, NEW s \in Sweeps, SweepStep(s) \/ SweepFault(s), NEW t \in Sweeps \ {s}
    PROVE  job'[t] = job[t]
<1>1. \E j : Becomes(s, j)
  BY DEF SweepStep, SweepFault, ListOpen, EndSweep, ReadMergeRequest, ReadDiffs, RereadHead,
         Classify, AddLabel, RemoveLabel, ReadPushers, ReadPushEvents, PushersUntold,
         ReadApprovedBy, ReadVersions, ReadApprovalEvents, FindThread, OpenThread, ReopenThread,
         SetCommitStatus, FindReleased, ResolveThread, ReadArmed, CancelArm, ReadPipeline,
         CreatePipeline, PipelineRefused, Arm, Fail, Killed, Move, Forget, Decide,
         AfterWithdraw, AfterPipeline
<1>2. PICK j : job' = [job EXCEPT ![s] = j]
  BY <1>1 DEF Becomes
<1>3. job \in [Sweeps -> Job]
  BY DEF TypeOK
<1>4. QED BY <1>2, <1>3

\* A sweep that has decided success is at one of these calls, and past the
\* first of them the commit is recorded green.
SuccessCalls == {"status", "findReleased", "resolveThread",
                 "readPipeline", "createPipeline", "arm"}

GreenJob(j, green) ==
    /\ j.state = "success" => j.call \in SuccessCalls
    /\ j.state = "success" /\ j.call # "status" => j.head \in green
    /\ j.call \in {"findReleased", "resolveThread", "arm"} => j.state = "success"

GreenInv ==
    /\ ArmedWasGreen
    /\ \A s \in Sweeps : GreenJob(job[s], greened[job[s].mr])

LEMMA GreenJobStep ==
    ASSUME TypeOK, GreenInv, NEW s \in Sweeps, SweepStep(s) \/ SweepFault(s)
    PROVE  GreenJob(job'[s], greened'[job'[s].mr])
<1>1. job[s] \in Job /\ job[s].mr \in MRs
  BY DEF TypeOK, Job
<1>2. GreenJob(job[s], greened[job[s].mr])
  BY DEF GreenInv
<1>3. greened[job[s].mr] \subseteq greened'[job[s].mr]
  BY <1>1, SweepGrows
<1>4. ASSUME job'[s].state = "pending",
             job'[s].call \notin {"findReleased", "resolveThread", "arm"}
      PROVE  GreenJob(job'[s], greened'[job'[s].mr])
  BY <1>4 DEF GreenJob
<1>5. Forget(s) => GreenJob(job'[s], greened'[job'[s].mr])
  BY <1>4, ForgetFields
<1>6. ASSUME NEW c \in Call \ {"findReleased", "resolveThread", "arm"},
             Move(s, c), job[s].state = "pending"
      PROVE  GreenJob(job'[s], greened'[job'[s].mr])
  BY <1>4, <1>6, MoveFields
<1>7. ASSUME NEW c \in SuccessCalls \ {"status"}, Move(s, c), job[s].state = "success",
             job[s].call # "status"
      PROVE  GreenJob(job'[s], greened'[job'[s].mr])
  <2>1. c \in Call
    BY <1>7 DEF SuccessCalls, Call
  <2>2. job[s].head \in greened[job[s].mr]
    BY <1>2, <1>7 DEF GreenJob
  <2>3. QED BY <1>3, <1>7, <2>1, <2>2, MoveFields DEF GreenJob
<1>8. job[s].state \in {"pending", "success"}
  BY <1>1 DEF Job
<1>9. job[s].call \notin SuccessCalls => job[s].state = "pending"
  BY <1>2, <1>8 DEF GreenJob
<1>10. /\ AfterPipeline(s) /\ job[s].call \in {"readPipeline", "createPipeline"} =>
              GreenJob(job'[s], greened'[job'[s].mr])
       /\ AfterWithdraw(s) /\ job[s].state = "pending" =>
              GreenJob(job'[s], greened'[job'[s].mr])
  <2>1. "arm" \in SuccessCalls \ {"status"}
        /\ "readPipeline" \in Call \ {"findReleased", "resolveThread", "arm"}
    BY DEF SuccessCalls, Call
  <2>2. QED BY <1>5, <1>6, <1>7, <2>1 DEF AfterPipeline, AfterWithdraw
<1>11. CASE \/ ListOpen(s) \/ EndSweep(s) \/ RereadHead(s) \/ AddLabel(s) \/ ReadPushers(s)
            \/ PushersUntold(s) \/ OpenThread(s) \/ ReopenThread(s)
  <2>1. job[s].state = "pending"
    BY <1>9, <1>11 DEF ListOpen, EndSweep, RereadHead, AddLabel, ReadPushers, PushersUntold,
                       OpenThread, ReopenThread, At, SuccessCalls
  <2>2. {"list", "next", "classify", "unlabel", "approvedBy", "pushEvents", "status"}
            \subseteq Call \ {"findReleased", "resolveThread", "arm"}
    BY DEF Call
  <2>3. QED BY <1>5, <1>6, <1>11, <2>1, <2>2
            DEF ListOpen, EndSweep, RereadHead, AddLabel, ReadPushers, PushersUntold, OpenThread,
                ReopenThread
<1>12. ASSUME NEW j, Becomes(s, j)
       PROVE  job'[s] = j
  <2>1. job \in [Sweeps -> Job]
    BY DEF TypeOK
  <2>2. QED BY <1>12, <2>1 DEF Becomes
<1>13. CASE ReadMergeRequest(s) \/ ReadDiffs(s) \/ ReadPushEvents(s)
  <2>1. job[s].state = "pending"
    BY <1>9, <1>13 DEF ReadMergeRequest, ReadDiffs, ReadPushEvents, At, SuccessCalls
  <2>2. ASSUME NEW m, NEW h, NEW l,
               Becomes(s, [job[s] EXCEPT !.call = "paths", !.mr = m, !.head = h, !.labels = l])
        PROVE  job'[s].state = "pending" /\ job'[s].call = "paths"
    BY <1>1, <1>12, <2>1, <2>2 DEF Job
  <2>3. ASSUME NEW r, Becomes(s, [job[s] EXCEPT !.call = "reread", !.paths = r])
        PROVE  job'[s].state = "pending" /\ job'[s].call = "reread"
    BY <1>1, <1>12, <2>1, <2>3 DEF Job
  <2>4. ASSUME NEW o, Becomes(s, [job[s] EXCEPT !.call = "approvedBy", !.owner = o])
        PROVE  job'[s].state = "pending" /\ job'[s].call = "approvedBy"
    BY <1>1, <1>12, <2>1, <2>4 DEF Job
  <2>5. QED BY <1>4, <1>13, <2>2, <2>3, <2>4
            DEF ReadMergeRequest, ReadDiffs, ReadPushEvents
<1>14. CASE Classify(s)
  <2>1. job[s].state = "pending"
    BY <1>9, <1>14 DEF Classify, At, SuccessCalls
  <2>2. ASSUME Becomes(s, [job[s] EXCEPT !.call = "label", !.class = JudgedClass(job[s])])
        PROVE  job'[s].state = "pending" /\ job'[s].call = "label"
    BY <1>1, <1>12, <2>1, <2>2 DEF Job
  <2>3. QED BY <1>4, <1>5, <1>14, <2>2 DEF Classify
<1>15. CASE RemoveLabel(s)
  <2>1. job[s].state = "pending" /\ job[s].call = "unlabel"
    BY <1>9, <1>15 DEF RemoveLabel, At, SuccessCalls
  <2>2. ASSUME NEW l, Becomes(s, [job[s] EXCEPT !.labels = @ \ {l}])
        PROVE  job'[s].state = "pending" /\ job'[s].call = "unlabel"
    BY <1>1, <1>12, <2>1, <2>2 DEF Job
  <2>3. {"pushers", "approvedBy"} \subseteq Call \ {"findReleased", "resolveThread", "arm"}
    BY DEF Call
  <2>4. QED BY <1>4, <1>6, <1>15, <2>1, <2>2, <2>3 DEF RemoveLabel
<1>16. ASSUME NEW approved, Decide(s, approved)
       PROVE  GreenJob(job'[s], greened'[job'[s].mr])
  BY <1>16, DecideFields DEF Disposition, GreenJob, SuccessCalls
<1>17. CASE ReadApprovedBy(s) \/ ReadVersions(s) \/ ReadApprovalEvents(s)
  <2>1. job[s].state = "pending"
    BY <1>9, <1>17 DEF ReadApprovedBy, ReadVersions, ReadApprovalEvents, At, SuccessCalls
  <2>2. ASSUME NEW a, Becomes(s, [job[s] EXCEPT !.call = "versions", !.approvers = a])
        PROVE  job'[s].state = "pending" /\ job'[s].call = "versions"
    BY <1>1, <1>12, <2>1, <2>2 DEF Job
  <2>3. ASSUME NEW v, Becomes(s, [job[s] EXCEPT !.call = "events", !.since = v])
        PROVE  job'[s].state = "pending" /\ job'[s].call = "events"
    BY <1>1, <1>12, <2>1, <2>3 DEF Job
  <2>4. QED BY <1>4, <1>16, <1>17, <2>2, <2>3
            DEF ReadApprovedBy, ReadVersions, ReadApprovalEvents
<1>18. ASSUME NEW c, NEW i, Becomes(s, [job[s] EXCEPT !.call = c, !.thread = i])
       PROVE  /\ job'[s].call = c /\ job'[s].state = job[s].state
              /\ job'[s].mr = job[s].mr /\ job'[s].head = job[s].head
  BY <1>1, <1>12, <1>18 DEF Job
<1>19. CASE FindThread(s)
  <2>1. job[s].state = "pending"
    BY <1>9, <1>19 DEF FindThread, At, SuccessCalls
  <2>2. QED BY <1>4, <1>5, <1>18, <1>19, <2>1 DEF FindThread
<1>20. CASE SetCommitStatus(s)
  <2>1. job[s].head \in Revisions /\ greened[job[s].mr] \subseteq Revisions
    BY <1>1 DEF TypeOK, Job
  <2>2. CASE job[s].state = "success"
    <3>1. job[s].head \in greened'[job[s].mr]
      BY <1>1, <1>20, <2>2 DEF SetCommitStatus, TypeOK
    <3>2. Move(s, "findReleased") /\ "findReleased" \in Call
      BY <1>20, <2>2 DEF SetCommitStatus, Call
    <3>3. QED BY <2>2, <3>1, <3>2, MoveFields DEF GreenJob, SuccessCalls
  <2>3. CASE job[s].state = "pending"
    <3>1. Move(s, "readArmed") /\ "readArmed" \in Call
      BY <1>20, <2>3 DEF SetCommitStatus, Call
    <3>2. QED BY <1>6, <2>3, <3>1
  <2>4. QED BY <1>8, <2>2, <2>3
<1>21. CASE FindReleased(s)
  <2>1. job[s].state = "success" /\ job[s].head \in greened[job[s].mr]
    BY <1>2, <1>21 DEF FindReleased, At, GreenJob
  <2>2. /\ job'[s].call \in {"readPipeline", "resolveThread"}
        /\ job'[s].state = "success" /\ job'[s].head \in greened'[job'[s].mr]
    BY <1>3, <1>18, <1>21, <2>1 DEF FindReleased
  <2>3. QED BY <2>2 DEF GreenJob, SuccessCalls
<1>22. CASE ResolveThread(s)
  <2>1. job[s].state = "success" /\ job[s].call = "resolveThread"
    BY <1>2, <1>22 DEF ResolveThread, At, GreenJob
  <2>2. QED BY <1>7, <1>22, <2>1 DEF ResolveThread, SuccessCalls
<1>23. CASE ReadArmed(s) \/ CancelArm(s)
  <2>1. job[s].state = "pending"
    BY <1>9, <1>23 DEF ReadArmed, CancelArm, At, SuccessCalls
  <2>2. "cancelArm" \in Call \ {"findReleased", "resolveThread", "arm"}
    BY DEF Call
  <2>3. QED BY <1>5, <1>6, <1>10, <1>23, <2>1, <2>2 DEF ReadArmed, CancelArm
<1>24. CASE ReadPipeline(s) \/ CreatePipeline(s) \/ PipelineRefused(s)
  <2>1. job[s].call \in {"readPipeline", "createPipeline"}
    BY <1>24 DEF ReadPipeline, CreatePipeline, PipelineRefused, At
  <2>2. Move(s, "createPipeline") => GreenJob(job'[s], greened'[job'[s].mr])
    <3>1. /\ "createPipeline" \in SuccessCalls \ {"status"}
          /\ "createPipeline" \in Call \ {"findReleased", "resolveThread", "arm"}
      BY DEF SuccessCalls, Call
    <3>2. QED BY <1>6, <1>7, <1>8, <2>1, <3>1
  <2>3. QED BY <1>10, <1>24, <2>1, <2>2 DEF ReadPipeline, CreatePipeline, PipelineRefused
<1>25. CASE Arm(s) \/ Fail(s)
  BY <1>5, <1>25 DEF Arm, Fail
<1>26. CASE Killed(s)
  BY <1>4, <1>12, <1>26 DEF Killed, IdleJob
<1>27. QED BY <1>11, <1>13, <1>14, <1>15, <1>17, <1>19, <1>20, <1>21, <1>22, <1>23, <1>24,
              <1>25, <1>26 DEF SweepStep, SweepFault

LEMMA GreenStep == TypeOK /\ GreenInv /\ [Next]_vars => GreenInv'
<1> SUFFICES ASSUME TypeOK, GreenInv, [Next]_vars
             PROVE  GreenInv'
  OBVIOUS
<1> USE DEF discussion, gate, merging, history
<1>1. \A m \in MRs : greened[m] \subseteq greened'[m]
  BY StepGrows DEF Grows
<1>2. ASSUME UNCHANGED <<job, armedFor>>
      PROVE  GreenInv'
  BY <1>1, <1>2 DEF TypeOK, Job, GreenInv, GreenJob, ArmedWasGreen
<1>3. ASSUME NEW s \in Sweeps, SweepStep(s) \/ SweepFault(s)
      PROVE  GreenInv'
  <2>1. ASSUME NEW t \in Sweeps
        PROVE  GreenJob(job'[t], greened'[job'[t].mr])
    <3>1. CASE t = s
      BY <1>3, <3>1, GreenJobStep
    <3>2. CASE t # s
      <4>1. job'[t] = job[t] /\ job[t].mr \in MRs
        BY <1>3, <3>2, OtherSweeps DEF TypeOK, Job
      <4>2. QED BY <1>1, <4>1 DEF GreenInv, GreenJob
    <3>3. QED BY <3>1, <3>2
  <2>2. ASSUME NEW m \in MRs
        PROVE  armedFor'[m] \subseteq greened'[m]
    <3>1. CASE Arm(s)
      <4>1. job[s].mr \in MRs /\ job[s].head \in greened[job[s].mr]
        BY <3>1 DEF Arm, At, GreenInv, GreenJob, TypeOK, Job
      <4>2. \/ armedFor' = armedFor
            \/ armedFor' = [armedFor EXCEPT ![job[s].mr] = @ \cup {job[s].head}]
        BY <3>1 DEF Arm
      <4>3. armedFor \in [MRs -> SUBSET Revisions]
        BY DEF TypeOK
      <4>4. armedFor'[m] \subseteq armedFor[m]
                \cup (IF m = job[s].mr THEN {job[s].head} ELSE {})
        BY <4>2, <4>3
      <4>5. QED BY <1>1, <4>1, <4>4 DEF GreenInv, ArmedWasGreen
    <3>2. CASE ~Arm(s)
      <4>1. armedFor' = armedFor
        BY <1>3, <3>2 DEF SweepStep, SweepFault, ForgeUnchanged, ListOpen, EndSweep,
           ReadMergeRequest, ReadDiffs, RereadHead, Classify, AddLabel, RemoveLabel,
           ReadPushers, ReadPushEvents, PushersUntold, ReadApprovedBy, ReadVersions,
           ReadApprovalEvents,
           FindThread, OpenThread, ReopenThread, SetCommitStatus, FindReleased, ResolveThread,
           ReadArmed, CancelArm, ReadPipeline, CreatePipeline, PipelineRefused, Fail, Killed
      <4>2. QED BY <1>1, <4>1 DEF GreenInv, ArmedWasGreen
    <3>3. QED BY <3>1, <3>2
  <2>3. QED BY <2>1, <2>2 DEF GreenInv, ArmedWasGreen
<1>4. ASSUME NEW m \in MRs, People(m) \/ GitLab(m)
      PROVE  GreenInv'
  BY <1>2, <1>4 DEF People, GitLab, Push, Approve, Unapprove, WaveThrough, MergeArmed,
     MergeByPerson, Merge, PipelinePasses
<1>5. UNCHANGED vars => GreenInv'
  BY <1>2 DEF vars
<1>6. QED BY <1>3, <1>4, <1>5 DEF Next

LEMMA GreenInit == Init => GreenInv
BY DEF Init, GreenInv, GreenJob, ArmedWasGreen, IdleJob

LEMMA GreenInvariant == Spec => [](TypeOK /\ GreenInv)
BY TypeInit, TypeStep, GreenInit, GreenStep, PTL DEF Spec

\* Whatever the sweeps, failures and pushes do in between, auto-merge is armed
\* only for commits a sweep recorded green.
THEOREM ArmsOnlyGreen == Spec => []ArmedWasGreen
<1>1. GreenInv => ArmedWasGreen
  BY DEF GreenInv
<1>2. QED BY <1>1, GreenInvariant, PTL

\* No step of the bot takes the block off a merge request it never recorded
\* green.
THEOREM ReleasesOnlyGreen == Spec => ReleasedOnceGreen
<1> DEFINE Release ==
        \A m \in MRs : \A i \in DOMAIN threads[m] :
            threads[m][i] = "open" /\ threads'[m][i] = "resolved" => greened[m] # {}
<1>1. TypeOK /\ GreenInv /\ [Next]_vars => [Release]_vars
  <2> SUFFICES ASSUME TypeOK, GreenInv, [Next]_vars, ~UNCHANGED vars,
                      NEW m \in MRs, NEW i \in DOMAIN threads[m],
                      threads[m][i] = "open", threads'[m][i] = "resolved"
               PROVE  greened[m] # {}
    OBVIOUS
  <2> USE DEF gate, discussion, merging, history
  <2>1. PICK s \in Sweeps : ResolveThread(s) /\ job[s].mr = m
    <3>1. threads[m] \in Seq(ThreadState) /\ m \in DOMAIN threads
      BY DEF TypeOK
    <3>2. threads'[m] # threads[m]
      OBVIOUS
    <3>3. ASSUME NEW n \in MRs, People(n) \/ GitLab(n)
          PROVE  FALSE
      <4>1. PICK k : threads' = [threads EXCEPT ![n][k] = "waved"]
        BY <3>2, <3>3 DEF People, GitLab, Push, Approve, Unapprove, WaveThrough, MergeArmed,
           MergeByPerson, Merge, PipelinePasses
      <4>2. threads'[m][i] \in {threads[m][i], "waved"}
        BY <3>1, <4>1
      <4>3. QED BY <4>2
    <3>4. PICK s \in Sweeps : SweepStep(s) \/ SweepFault(s)
      BY <3>3 DEF Next, vars
    <3>5. OpenThread(s) \/ ReopenThread(s) \/ ResolveThread(s)
      BY <3>2, <3>4 DEF SweepStep, SweepFault, ForgeUnchanged, ListOpen, EndSweep,
         ReadMergeRequest, ReadDiffs, RereadHead, Classify, AddLabel, RemoveLabel,
         ReadPushers, ReadPushEvents, PushersUntold, ReadApprovedBy, ReadVersions,
         ReadApprovalEvents,
         FindThread, SetCommitStatus, FindReleased, Arm,
         ReadArmed, CancelArm, ReadPipeline, CreatePipeline, PipelineRefused, Fail, Killed
    <3>6. ~OpenThread(s)
      <4>1. ASSUME threads' = [threads EXCEPT ![job[s].mr] = Append(threads[job[s].mr], "open")]
            PROVE  FALSE
        <5>1. threads'[m] = Append(threads[m], "open")
          BY <3>1, <3>2, <4>1
        <5>2. threads'[m][i] = threads[m][i]
          BY <3>1, <5>1
        <5>3. QED BY <5>2
      <4>2. QED BY <4>1 DEF OpenThread
    <3>7. ~ReopenThread(s)
      <4>1. ASSUME threads' = [threads EXCEPT ![job[s].mr][job[s].thread] = "open"]
            PROVE  FALSE
        <5>1. threads'[m][i] \in {threads[m][i], "open"}
          BY <3>1, <4>1
        <5>2. QED BY <5>1
      <4>2. QED BY <4>1 DEF ReopenThread
    <3>8. job[s].mr = m
      <4>1. ResolveThread(s)
        BY <3>5, <3>6, <3>7
      <4>2. threads' = [threads EXCEPT ![job[s].mr][job[s].thread] = "resolved"]
        BY <4>1 DEF ResolveThread
      <4>3. QED BY <3>1, <3>2, <4>2
    <3>9. QED BY <3>5, <3>6, <3>7, <3>8
  <2>2. GreenJob(job[s], greened[job[s].mr]) /\ job[s].call = "resolveThread"
    BY <2>1 DEF GreenInv, ResolveThread, At
  <2>3. QED BY <2>1, <2>2 DEF GreenJob
<1>2. QED BY <1>1, GreenInvariant, PTL DEF Spec, ReleasedOnceGreen

-----------------------------------------------------------------------------
(* The status on a commit, and what is merged.                             *)

\* A commit that reads success was recorded green, and only such a commit of
\* the project's own is merged.
MergedGreen ==
    /\ \A m \in MRs, r \in Revisions : status[m][r] = "success" => r \in greened[m]
    /\ \A m \in MRs \ Forks : ~Opened(m) => merged[m] \in greened[m]

LEMMA MergedGreenStep == TypeOK /\ MergedGreen /\ [Next]_vars => MergedGreen'
<1> SUFFICES ASSUME TypeOK, MergedGreen, [Next]_vars
             PROVE  MergedGreen'
  OBVIOUS
<1> USE DEF discussion, gate, merging, history
<1>1. \A m \in MRs : greened[m] \subseteq greened'[m]
  BY StepGrows DEF Grows
<1>2. ASSUME UNCHANGED <<status, merged>>
      PROVE  MergedGreen'
  BY <1>1, <1>2 DEF MergedGreen, Opened
<1>3. ASSUME NEW s \in Sweeps, SetCommitStatus(s)
      PROVE  MergedGreen'
  <2>1. /\ job[s].mr \in MRs /\ job[s].head \in Revisions
        /\ status[job[s].mr] \in [Revisions -> {"absent", "pending", "success"}]
    BY DEF TypeOK, Job
  <2>2. ASSUME NEW m \in MRs, NEW r \in Revisions, status'[m][r] = "success"
        PROVE  r \in greened'[m]
    <3>1. CASE m = job[s].mr /\ r = job[s].head
      <4>1. job[s].state = "success"
        BY <1>3, <2>1, <2>2, <3>1 DEF SetCommitStatus, TypeOK
      <4>2. QED BY <1>3, <2>1, <3>1, <4>1 DEF SetCommitStatus, TypeOK
    <3>2. CASE ~(m = job[s].mr /\ r = job[s].head)
      <4>1. status'[m][r] = status[m][r]
        BY <1>3, <2>1, <3>2 DEF SetCommitStatus, TypeOK
      <4>2. QED BY <1>1, <2>2, <4>1 DEF MergedGreen
    <3>3. QED BY <3>1, <3>2
  <2>3. merged' = merged
    BY <1>3 DEF SetCommitStatus
  <2>4. QED BY <1>1, <2>2, <2>3 DEF MergedGreen, Opened
<1>4. ASSUME NEW m \in MRs, Merge(m)
      PROVE  MergedGreen'
  <2>1. status' = status /\ merged' = [merged EXCEPT ![m] = HeadOf(m)]
    BY <1>4 DEF Merge
  <2>2. m \notin Forks => HeadOf(m) \in greened[m]
    BY <1>4, HeadType DEF Merge, Mergeable, MergedGreen
  <2>3. merged \in [MRs -> Revisions \cup {NotMerged}]
    BY DEF TypeOK
  <2>4. \A n \in MRs : merged'[n] = IF n = m THEN HeadOf(m) ELSE merged[n]
    BY <2>1, <2>3
  <2>5. QED BY <1>1, <2>1, <2>2, <2>4 DEF MergedGreen, Opened
<1>5. ASSUME NEW s \in Sweeps, SweepStep(s) \/ SweepFault(s), ~SetCommitStatus(s)
      PROVE  UNCHANGED <<status, merged>>
  BY <1>5 DEF SweepStep, SweepFault, ForgeUnchanged, ListOpen, EndSweep,
     ReadMergeRequest, ReadDiffs, RereadHead, Classify, AddLabel, RemoveLabel,
     ReadPushers, ReadPushEvents, PushersUntold, ReadApprovedBy, ReadVersions,
     ReadApprovalEvents,
     FindThread, OpenThread, ReopenThread, FindReleased, ResolveThread, Arm,
     ReadArmed, CancelArm, ReadPipeline, CreatePipeline, PipelineRefused, Fail, Killed
<1>6. ASSUME NEW m \in MRs, People(m) \/ GitLab(m), ~Merge(m)
      PROVE  UNCHANGED <<status, merged>>
  BY <1>6 DEF People, GitLab, Push, Approve, Unapprove, WaveThrough, MergeArmed,
     MergeByPerson, PipelinePasses
<1>7. QED BY <1>2, <1>3, <1>4, <1>5, <1>6 DEF Next, vars

LEMMA MergedGreenInvariant == Spec => [](TypeOK /\ MergedGreen)
<1>1. Init => MergedGreen
  BY DEF Init, MergedGreen, Opened
<1>2. QED BY <1>1, TypeInit, TypeStep, MergedGreenStep, PTL DEF Spec

-----------------------------------------------------------------------------
(* What a sweep has read, if branches only move forward.                   *)

\* No branch returns to a revision it left.
Distinct(vs) == \A i, k \in DOMAIN vs : vs[i].rev = vs[k].rev => i = k

Pushed(vs, r) == \E v \in DOMAIN vs : vs[v].rev = r

PushedInOrder(vs, q, r) ==
    \E v, w \in DOMAIN vs : v <= w /\ vs[v].rev = q /\ vs[w].rev = r

\* What holds of a job between its calls, against the versions and the approved
\* events of its merge request.
JudgedWell(j, vs, evs) ==
    /\ j.call \notin {"list", "next"} => Pushed(vs, j.head)
    /\ j.call = "reread" => PushedInOrder(vs, j.head, j.paths)
    /\ j.call \notin Reading => j.paths = j.head
    /\ j.call \notin Reading \cup {"classify"} => j.class = LaneOf[j.head]
    /\ j.call \in {"pushers", "pushEvents"} => AutoMerge = "owners" /\ j.class = "refresh"
    /\ j.call = "pushEvents" => j.mr \notin Forks
    /\ j.owner => /\ j.call \in {"approvedBy", "versions", "events"}
                  /\ EarnedFrom(j.mr, j.head, vs, evs)
    /\ j.call = "events" => j.since \in DOMAIN vs /\ vs[j.since].rev = j.head
    /\ j.state = "success" => /\ j.call \in SuccessCalls
                              /\ EarnedFrom(j.mr, j.head, vs, evs)

JudgeInv ==
    /\ \A m \in MRs : Distinct(versions[m])
    /\ \A s \in Sweeps : JudgedWell(job[s], versions[job[s].mr], approvals[job[s].mr])
    /\ GreenIsEarned

LEMMA JudgedKept ==
    ASSUME NEW j, NEW vs \in Seq(Version), NEW ws \in Seq(Version), NEW evs, NEW fvs,
           GrowsTo(vs, ws, evs, fvs), JudgedWell(j, vs, evs)
    PROVE  JudgedWell(j, ws, fvs)
<1>1. Len(vs) \in Nat /\ Len(ws) \in Nat /\ DOMAIN vs = 1 .. Len(vs) /\ DOMAIN ws = 1 .. Len(ws)
  OBVIOUS
<1>2. \A v \in DOMAIN vs : v \in DOMAIN ws /\ ws[v] = vs[v]
  BY <1>1 DEF GrowsTo
<1>3. Pushed(vs, j.head) => Pushed(ws, j.head)
  BY <1>2 DEF Pushed
<1>4. PushedInOrder(vs, j.head, j.paths) => PushedInOrder(ws, j.head, j.paths)
  BY <1>2 DEF PushedInOrder
<1>5. EarnedFrom(j.mr, j.head, vs, evs) => EarnedFrom(j.mr, j.head, ws, fvs)
  BY EarnedKept
<1>6. j.since \in DOMAIN vs /\ vs[j.since].rev = j.head =>
          j.since \in DOMAIN ws /\ ws[j.since].rev = j.head
  BY <1>2
<1>7. QED BY <1>3, <1>4, <1>5, <1>6 DEF JudgedWell

\* A sweep's next call, with the merge request as it stands.
LEMMA JudgeJobStep ==
    ASSUME TypeOK, JudgeInv, NEW s \in Sweeps, SweepStep(s) \/ SweepFault(s)
    PROVE  JudgedWell(job'[s], versions[job'[s].mr], approvals[job'[s].mr])
<1> DEFINE j == job[s]
           k == job'[s]
           m == job[s].mr
           vs == versions[m]
           evs == approvals[m]
           Goal == JudgedWell(k, versions[k.mr], approvals[k.mr])
<1>1. j \in Job /\ m \in MRs /\ j.head \in Revisions
  BY DEF TypeOK, Job
<1>2. JudgedWell(j, vs, evs) /\ Distinct(vs)
  BY <1>1 DEF JudgeInv
<1>3. vs \in Seq(Version) /\ Newest(m) \in DOMAIN vs /\ HeadOf(m) = vs[Newest(m)].rev
  BY <1>1, HeadType DEF TypeOK, Newest, HeadOf
<1>4. \A j2 : Becomes(s, j2) => k = j2
  BY DEF TypeOK, Becomes
<1>5. ASSUME k.call \in {"list", "next"}, k.owner = FALSE, k.state = "pending"
      PROVE  Goal
  BY <1>5 DEF JudgedWell, Reading
<1>6. Forget(s) => Goal
  BY <1>5, ForgetFields
\* Moving on, after the decision.
<1>7. ASSUME NEW c \in Call \ {"list", "next", "paths", "reread", "classify", "label", "unlabel",
                               "pushers", "pushEvents", "approvedBy", "versions", "events"},
             Move(s, c), j.call \notin Reading \cup {"classify"}, ~j.owner,
             j.state = "success" => c \in SuccessCalls
      PROVE  Goal
  <2>1. /\ k.call = c /\ k.mr = m /\ k.head = j.head /\ k.paths = j.paths
        /\ k.class = j.class /\ k.owner = j.owner /\ k.state = j.state
    BY <1>7, MoveFields
  <2>2. QED BY <1>2, <1>7, <2>1 DEF JudgedWell, Reading
\* Reading on, with nothing judged, owned or decided yet.
<1>8. ASSUME NEW c \in Call, Move(s, c)
      PROVE  /\ k.call = c /\ k.mr = m /\ k.head = j.head /\ k.paths = j.paths
             /\ k.class = j.class /\ k.owner = j.owner /\ k.state = j.state
  BY <1>8, MoveFields
<1>9. j.call \notin {"approvedBy", "versions", "events"} => j.owner = FALSE
  BY <1>1, <1>2 DEF JudgedWell, Job
<1>10. j.call \notin SuccessCalls => j.state = "pending"
  BY <1>1, <1>2 DEF JudgedWell, Job
<1>11. CASE ListOpen(s) \/ EndSweep(s)
  <2>1. j.owner = FALSE /\ j.state = "pending"
    BY <1>9, <1>10, <1>11 DEF ListOpen, EndSweep, At, SuccessCalls
  <2>2. QED BY <1>5, <1>8, <1>11, <2>1 DEF ListOpen, EndSweep, Call
<1>12. CASE ReadMergeRequest(s)
  <2>1. PICK n \in todo[s] :
              k = [j EXCEPT !.call = "paths", !.mr = n, !.head = HeadOf(n), !.labels = labels[n]]
    BY <1>4, <1>12 DEF ReadMergeRequest
  <2>2. n \in MRs /\ versions[n] \in Seq(Version) /\ Newest(n) \in DOMAIN versions[n]
    BY HeadType DEF TypeOK, Newest
  <2>3. Pushed(versions[n], HeadOf(n))
    BY <2>2 DEF Pushed, HeadOf
  <2>4. j.owner = FALSE /\ j.state = "pending"
    BY <1>9, <1>10, <1>12 DEF ReadMergeRequest, At, SuccessCalls
  <2>5. /\ k.call = "paths" /\ k.mr = n /\ k.head = HeadOf(n)
        /\ k.owner = FALSE /\ k.state = "pending"
    BY <1>1, <2>1, <2>4 DEF Job
  <2>6. QED BY <2>3, <2>5 DEF JudgedWell, Reading
<1>13. CASE ReadDiffs(s)
  <2>1. j.call = "paths" /\ j.owner = FALSE /\ j.state = "pending"
    BY <1>9, <1>10, <1>13 DEF ReadDiffs, At, SuccessCalls
  <2>2. k = [j EXCEPT !.call = "reread", !.paths = HeadOf(m)]
    BY <1>4, <1>13 DEF ReadDiffs
  <2>3. /\ k.call = "reread" /\ k.mr = m /\ k.head = j.head /\ k.paths = HeadOf(m)
        /\ k.owner = FALSE /\ k.state = "pending"
    BY <1>1, <2>1, <2>2 DEF Job
  <2>4. Pushed(vs, j.head)
    BY <1>2, <2>1 DEF JudgedWell
  <2>5. PushedInOrder(vs, j.head, HeadOf(m))
    <3>1. PICK v \in DOMAIN vs : vs[v].rev = j.head
      BY <2>4 DEF Pushed
    <3>2. v <= Newest(m)
      BY <1>3 DEF Newest
    <3>3. QED BY <1>3, <3>1, <3>2 DEF PushedInOrder
  <2>6. QED BY <2>3, <2>4, <2>5 DEF JudgedWell, Reading
<1>14. CASE RereadHead(s)
  <2>1. j.call = "reread" /\ j.owner = FALSE /\ j.state = "pending"
    BY <1>9, <1>10, <1>14 DEF RereadHead, At, SuccessCalls
  <2>2. CASE HeadOf(m) = j.head /\ Move(s, "classify")
    <3>1. PICK v \in DOMAIN vs, w \in DOMAIN vs :
                v <= w /\ vs[v].rev = j.head /\ vs[w].rev = j.paths
      BY <1>2, <2>1 DEF JudgedWell, PushedInOrder
    <3>2. v = Newest(m)
      BY <1>2, <1>3, <2>2, <3>1 DEF Distinct
    <3>3. w = v
      BY <1>3, <3>1, <3>2 DEF Newest
    <3>4. j.paths = j.head /\ Pushed(vs, j.head)
      BY <3>1, <3>3 DEF Pushed
    <3>5. /\ k.call = "classify" /\ k.mr = m /\ k.head = j.head /\ k.paths = j.paths
          /\ k.owner = FALSE /\ k.state = "pending"
      BY <1>8, <2>1, <2>2 DEF Call
    <3>6. QED BY <3>4, <3>5 DEF JudgedWell, Reading
  <2>3. QED BY <1>6, <1>14, <2>2 DEF RereadHead
<1>15. CASE Classify(s)
  <2>1. j.call = "classify" /\ j.owner = FALSE /\ j.state = "pending"
    BY <1>9, <1>10, <1>15 DEF Classify, At, SuccessCalls
  <2>2. j.paths = j.head /\ Pushed(vs, j.head)
    BY <1>2, <2>1 DEF JudgedWell, Reading
  <2>3. CASE k = [j EXCEPT !.call = "label", !.class = JudgedClass(j)]
    <3>1. JudgedClass(j) = LaneOf[j.head]
      BY <1>1, <2>2 DEF JudgedClass, LaneOf
    <3>2. /\ k.call = "label" /\ k.mr = m /\ k.head = j.head /\ k.paths = j.paths
          /\ k.class = LaneOf[j.head] /\ k.owner = FALSE /\ k.state = "pending"
      BY <1>1, <2>1, <2>3, <3>1 DEF Job
    <3>3. QED BY <2>2, <3>2 DEF JudgedWell, Reading
  <2>4. QED BY <1>4, <1>6, <1>15, <2>3 DEF Classify
\* Labels, and the pushers' first read.
<1>16. ASSUME j.call \in {"label", "unlabel", "pushers", "pushEvents"},
              k.call \in {"unlabel", "pushers", "pushEvents", "approvedBy"},
              k.mr = m, k.head = j.head, k.paths = j.paths, k.class = j.class,
              k.owner = j.owner, k.state = j.state,
              k.call \in {"pushers", "pushEvents"} => AutoMerge = "owners" /\ j.class = "refresh",
              k.call = "pushEvents" => m \notin Forks
       PROVE  Goal
  <2>1. j.owner = FALSE /\ j.state = "pending"
    BY <1>9, <1>10, <1>16 DEF SuccessCalls
  <2>2. j.paths = j.head /\ Pushed(vs, j.head) /\ j.class = LaneOf[j.head]
    BY <1>2, <1>16 DEF JudgedWell, Reading
  <2>3. QED BY <1>16, <2>1, <2>2 DEF JudgedWell, Reading
<1>17. CASE AddLabel(s)
  <2>1. j.call = "label" /\ Move(s, "unlabel") /\ "unlabel" \in Call
    BY <1>17 DEF AddLabel, At, Call
  <2>2. QED BY <1>8, <1>16, <2>1
<1>18. CASE RemoveLabel(s)
  <2>1. j.call = "unlabel"
    BY <1>18 DEF RemoveLabel, At
  <2>2. ASSUME NEW l, k = [j EXCEPT !.labels = @ \ {l}]
        PROVE  Goal
    <3>1. /\ k.call = j.call /\ k.mr = m /\ k.head = j.head /\ k.paths = j.paths
          /\ k.class = j.class /\ k.owner = j.owner /\ k.state = j.state
      BY <1>1, <2>2 DEF Job
    <3>2. QED BY <1>16, <2>1, <3>1
  <2>3. CASE AutoMerge = "owners" /\ j.class = "refresh" /\ Move(s, "pushers")
    <3>1. "pushers" \in Call
      BY DEF Call
    <3>2. QED BY <1>8, <1>16, <2>1, <2>3, <3>1
  <2>4. CASE Move(s, "approvedBy")
    <3>1. "approvedBy" \in Call
      BY DEF Call
    <3>2. QED BY <1>8, <1>16, <2>1, <2>4, <3>1
  <2>5. QED BY <1>4, <1>18, <2>2, <2>3, <2>4 DEF RemoveLabel
<1>19. CASE ReadPushers(s) \/ PushersUntold(s)
  <2>1. /\ j.call \in {"pushers", "pushEvents"}
        /\ "approvedBy" \in Call /\ "pushEvents" \in Call
    BY <1>19 DEF ReadPushers, PushersUntold, At, Call
  <2>2. AutoMerge = "owners" /\ j.class = "refresh"
    BY <1>2, <2>1 DEF JudgedWell
  <2>3. Move(s, "approvedBy") \/ (m \notin Forks /\ Move(s, "pushEvents"))
    BY <1>19 DEF ReadPushers, PushersUntold
  <2>4. QED BY <1>8, <1>16, <2>1, <2>2, <2>3
<1>20. CASE ReadPushEvents(s)
  <2> DEFINE o == OwnsEveryTouchedPackage(Content[j.paths].paths, {Author[m]} \cup Pushers(m))
  <2>1. j.call = "pushEvents" /\ j.state = "pending"
    BY <1>10, <1>20 DEF ReadPushEvents, At, SuccessCalls
  <2>2. /\ j.paths = j.head /\ Pushed(vs, j.head) /\ j.class = LaneOf[j.head]
        /\ AutoMerge = "owners" /\ j.class = "refresh" /\ m \notin Forks
    BY <1>2, <2>1 DEF JudgedWell, Reading
  <2>3. o => EarnedFrom(m, j.head, vs, evs)
    <3>1. PICK v \in DOMAIN vs : vs[v].rev = j.head
      BY <2>2 DEF Pushed
    <3>2. {vs[i].by : i \in 1 .. v} \subseteq Pushers(m)
      BY <1>3, <3>1 DEF Pushers
    <3>3. o => OwnsEveryTouchedPackage(Content[j.head].paths,
                                       {Author[m]} \cup {vs[i].by : i \in 1 .. v})
      BY <2>2, <3>2 DEF OwnsEveryTouchedPackage
    <3>4. QED BY <2>2, <3>1, <3>3 DEF EarnedFrom
  <2>4. k = [j EXCEPT !.call = "approvedBy", !.owner = o]
    BY <1>4, <1>20 DEF ReadPushEvents
  <2> HIDE DEF o
  <2>5. /\ k.call = "approvedBy" /\ k.mr = m /\ k.head = j.head /\ k.paths = j.paths
        /\ k.class = j.class /\ k.owner = o /\ k.state = "pending"
    BY <1>1, <2>1, <2>4 DEF Job
  <2>6. QED BY <2>2, <2>3, <2>5 DEF JudgedWell, Reading
\* The decision.
<1>21. ASSUME NEW approved, Decide(s, approved), approved => EarnedFrom(m, j.head, vs, evs),
              j.call \in {"approvedBy", "versions", "events"}
       PROVE  Goal
  <2> DEFINE d == Disposition(j.class, j.owner, approved)
  <2>1. j.paths = j.head /\ Pushed(vs, j.head) /\ j.class = LaneOf[j.head]
    BY <1>2, <1>21 DEF JudgedWell, Reading
  <2>2. d = "success" => EarnedFrom(m, j.head, vs, evs)
    <3>1. j.owner => EarnedFrom(m, j.head, vs, evs)
      BY <1>2 DEF JudgedWell
    <3>2. LaneOf[j.head] = "refresh" /\ AutoMerge = "always" => EarnedFrom(m, j.head, vs, evs)
      BY <2>1 DEF EarnedFrom, Pushed, LaneOf
    <3>3. QED BY <1>21, <2>1, <3>1, <3>2 DEF Disposition
  <2>3. /\ k.call = IF d = "success" THEN "status" ELSE "findThread"
        /\ k.mr = m /\ k.head = j.head /\ k.paths = j.paths /\ k.class = j.class
        /\ k.state = d /\ k.owner = FALSE
    BY <1>21, DecideFields
  <2> HIDE DEF d
  <2>4. QED BY <2>1, <2>2, <2>3 DEF JudgedWell, Reading, SuccessCalls
<1>22. CASE ReadApprovedBy(s)
  <2>1. j.call = "approvedBy" /\ j.state = "pending"
    BY <1>10, <1>22 DEF ReadApprovedBy, At, SuccessCalls
  <2>2. CASE k = [j EXCEPT !.call = "versions", !.approvers = approvedBy[m]]
    <3>1. /\ k.call = "versions" /\ k.mr = m /\ k.head = j.head /\ k.paths = j.paths
          /\ k.class = j.class /\ k.owner = j.owner /\ k.state = "pending"
      BY <1>1, <2>1, <2>2 DEF Job
    <3>2. /\ j.paths = j.head /\ Pushed(vs, j.head) /\ j.class = LaneOf[j.head]
          /\ j.owner => EarnedFrom(m, j.head, vs, evs)
      BY <1>2, <2>1 DEF JudgedWell, Reading
    <3>3. QED BY <3>1, <3>2 DEF JudgedWell, Reading
  <2>3. QED BY <1>4, <1>21, <1>22, <2>1, <2>2 DEF ReadApprovedBy
<1>23. CASE ReadVersions(s)
  <2>1. j.call = "versions" /\ j.state = "pending"
    BY <1>10, <1>23 DEF ReadVersions, At, SuccessCalls
  <2>2. CASE HeadOf(m) = j.head /\ k = [j EXCEPT !.call = "events", !.since = Newest(m)]
    <3>1. /\ k.call = "events" /\ k.mr = m /\ k.head = j.head /\ k.paths = j.paths
          /\ k.class = j.class /\ k.owner = j.owner /\ k.state = "pending"
          /\ k.since = Newest(m)
      BY <1>1, <2>1, <2>2 DEF Job
    <3>2. /\ j.paths = j.head /\ Pushed(vs, j.head) /\ j.class = LaneOf[j.head]
          /\ j.owner => EarnedFrom(m, j.head, vs, evs)
      BY <1>2, <2>1 DEF JudgedWell, Reading
    <3>3. k.since \in DOMAIN vs /\ vs[k.since].rev = k.head
      BY <1>3, <2>2, <3>1
    <3>4. QED BY <3>1, <3>2, <3>3 DEF JudgedWell, Reading
  <2>3. QED BY <1>4, <1>21, <1>23, <2>1, <2>2 DEF ReadVersions
<1>24. CASE ReadApprovalEvents(s)
  <2> DEFINE approved == Eligible(m) \cap j.approvers \cap ApproversSince(m, j.since) # {}
  <2>1. j.call = "events" /\ Decide(s, approved)
    BY <1>24 DEF ReadApprovalEvents, At
  <2>2. j.since \in DOMAIN vs /\ vs[j.since].rev = j.head
    BY <1>2, <2>1 DEF JudgedWell
  <2>3. approved => EarnedFrom(m, j.head, vs, evs)
    <3>1. approved => \E e \in evs : e.by \in Eligible(m) /\ e.at >= j.since
      BY DEF ApproversSince
    <3>2. QED BY <2>2, <3>1 DEF EarnedFrom
  <2> HIDE DEF approved
  <2>4. QED BY <1>21, <2>1, <2>3
\* Acting on it.
<1>25. ASSUME NEW c, NEW i, Becomes(s, [j EXCEPT !.call = c, !.thread = i]),
              c \in Call \ {"list", "next", "paths", "reread", "classify", "label", "unlabel",
                            "pushers", "pushEvents", "approvedBy", "versions", "events"},
              j.call \notin Reading \cup {"classify"}, j.owner = FALSE,
              j.state = "success" => c \in SuccessCalls
       PROVE  Goal
  <2>1. k = [j EXCEPT !.call = c, !.thread = i]
    BY <1>4, <1>25
  <2>2. /\ k.call = c /\ k.mr = m /\ k.head = j.head /\ k.paths = j.paths
        /\ k.class = j.class /\ k.owner = j.owner /\ k.state = j.state
    BY <1>1, <2>1 DEF Job
  <2>3. QED BY <1>2, <1>25, <2>2 DEF JudgedWell, Reading
<1>26. CASE \/ FindThread(s) \/ OpenThread(s) \/ ReopenThread(s) \/ SetCommitStatus(s)
            \/ FindReleased(s) \/ ResolveThread(s) \/ ReadArmed(s) \/ CancelArm(s)
            \/ ReadPipeline(s) \/ CreatePipeline(s) \/ PipelineRefused(s)
  <2>1. j.call \in {"findThread", "openThread", "reopenThread", "status", "findReleased",
                    "resolveThread", "readArmed", "cancelArm", "readPipeline", "createPipeline"}
    BY <1>26 DEF FindThread, OpenThread, ReopenThread, SetCommitStatus, FindReleased,
       ResolveThread, ReadArmed, CancelArm, ReadPipeline, CreatePipeline, PipelineRefused, At
  <2>2. j.call \notin Reading \cup {"classify"} /\ j.owner = FALSE
    BY <1>9, <2>1 DEF Reading
  <2>3. j.call \in {"findThread", "openThread", "reopenThread", "readArmed", "cancelArm"} =>
            j.state = "pending"
    BY <1>10 DEF SuccessCalls
  <2>4. \A c \in {"openThread", "reopenThread", "status", "findReleased", "resolveThread",
                  "readArmed", "cancelArm", "readPipeline", "createPipeline", "arm"} :
            c \in Call \ {"list", "next", "paths", "reread", "classify", "label", "unlabel",
                          "pushers", "pushEvents", "approvedBy", "versions", "events"}
    BY DEF Call
  <2>5. {"status", "findReleased", "resolveThread", "readPipeline", "createPipeline", "arm"}
            \subseteq SuccessCalls
    BY DEF SuccessCalls
  <2>6. AfterPipeline(s) => Goal
    BY <1>6, <1>7, <2>2, <2>4, <2>5 DEF AfterPipeline
  <2>7. AfterWithdraw(s) => Goal
    <3>1. j.state = "success" => "readPipeline" \in SuccessCalls
      BY <2>5
    <3>2. Move(s, "readPipeline") => Goal
      BY <1>7, <2>2, <2>4, <3>1
    <3>3. QED BY <1>6, <3>2 DEF AfterWithdraw
  <2>8. CASE FindThread(s) \/ FindReleased(s)
    BY <1>6, <1>25, <2>2, <2>3, <2>4, <2>5, <2>8 DEF FindThread, FindReleased, At
  <2>9. CASE OpenThread(s) \/ ReopenThread(s) \/ ResolveThread(s)
    BY <1>7, <2>2, <2>4, <2>5, <2>9 DEF OpenThread, ReopenThread, ResolveThread
  <2>10. CASE SetCommitStatus(s)
    <3>1. \/ Move(s, "findReleased")
          \/ j.state # "success" /\ Move(s, "readArmed")
      BY <2>10 DEF SetCommitStatus
    <3>2. QED BY <1>7, <2>2, <2>4, <2>5, <3>1
  <2>11. CASE ReadArmed(s) \/ CancelArm(s)
    <3>1. j.state = "pending"
      BY <2>3, <2>11 DEF ReadArmed, CancelArm, At
    <3>2. Move(s, "cancelArm") \/ AfterWithdraw(s) \/ Forget(s)
      BY <2>11 DEF ReadArmed, CancelArm
    <3>3. QED BY <1>6, <1>7, <2>2, <2>4, <2>7, <3>1, <3>2
  <2>12. CASE ReadPipeline(s) \/ CreatePipeline(s) \/ PipelineRefused(s)
    <3>1. Move(s, "createPipeline") \/ AfterPipeline(s)
      BY <2>12 DEF ReadPipeline, CreatePipeline, PipelineRefused
    <3>2. QED BY <1>7, <2>2, <2>4, <2>5, <2>6, <3>1
  <2>13. QED BY <1>26, <2>8, <2>9, <2>10, <2>11, <2>12, Zenon
<1>27. CASE Arm(s) \/ Fail(s)
  BY <1>6, <1>27 DEF Arm, Fail
<1>28. CASE Killed(s)
  <2>1. k = IdleJob
    BY <1>4, <1>28 DEF Killed
  <2>2. k.call = "list" /\ k.owner = FALSE /\ k.state = "pending"
    BY <2>1 DEF IdleJob
  <2>3. QED BY <1>5, <2>2
<1>29. QED
  BY <1>11, <1>12, <1>13, <1>14, <1>15, <1>17, <1>18, <1>19, <1>20, <1>22, <1>23,
     <1>24, <1>26, <1>27, <1>28 DEF SweepStep, SweepFault

LEMMA DistinctStep ==
    ASSUME AllowRewind = FALSE, TypeOK, JudgeInv, [Next]_vars, NEW n \in MRs
    PROVE  Distinct(versions'[n])
<1> USE DEF discussion, gate, merging, history
<1>1. Distinct(versions[n]) /\ versions[n] \in Seq(Version)
  BY DEF JudgeInv, TypeOK
<1>2. CASE versions'[n] = versions[n]
  BY <1>1, <1>2
<1>3. ASSUME NEW r \in Revisions, NEW a \in Accounts, Push(n, r, a)
      PROVE  Distinct(versions'[n])
  <2> DEFINE v == [rev |-> r, by |-> a]
  <2>1. \A i \in DOMAIN versions[n] : versions[n][i].rev # r
    BY <1>3 DEF Push
  <2>2. versions'[n] = Append(versions[n], v)
    BY <1>3 DEF Push, TypeOK
  <2>3. v \in Version /\ v.rev = r
    BY DEF Version
  <2> HIDE DEF v
  <2>4. /\ Len(versions[n]) \in Nat /\ DOMAIN versions[n] = 1 .. Len(versions[n])
        /\ DOMAIN versions'[n] = 1 .. Len(versions[n]) + 1
        /\ \A i \in 1 .. Len(versions[n]) : versions'[n][i] = versions[n][i]
        /\ versions'[n][Len(versions[n]) + 1] = v
    BY <1>1, <2>2, <2>3
  <2>5. \A i \in DOMAIN versions'[n] : i \in DOMAIN versions[n] \/ i = Len(versions[n]) + 1
    BY <2>4
  <2>6. QED BY <1>1, <2>1, <2>3, <2>4, <2>5 DEF Distinct
<1>4. ASSUME NEW m \in MRs, NEW r, NEW a, Push(m, r, a), m # n
      PROVE  versions'[n] = versions[n]
  BY <1>4 DEF Push, TypeOK
<1>5. ASSUME NEW s \in Sweeps, SweepStep(s) \/ SweepFault(s)
      PROVE  versions' = versions
  BY <1>5, SweepGrows
<1>6. ASSUME NEW m \in MRs, \/ \E a \in Reviewers[m] : Approve(m, a) \/ Unapprove(m, a)
                            \/ WaveThrough(m) \/ Merge(m)
                            \/ \E r \in Revisions : PipelinePasses(m, r)
      PROVE  versions' = versions
  BY <1>6 DEF Approve, Unapprove, WaveThrough, Merge, PipelinePasses
<1>7. CASE UNCHANGED vars
  BY <1>2, <1>7 DEF vars
<1>8. QED BY <1>2, <1>3, <1>4, <1>5, <1>6, <1>7
          DEF Next, People, GitLab, MergeArmed, MergeByPerson

LEMMA JudgeStep ==
    ASSUME AllowRewind = FALSE, TypeOK, TypeOK', JudgeInv, [Next]_vars
    PROVE  JudgeInv'
<1> USE DEF discussion, gate, merging, history
<1>1. \A m \in MRs : /\ GrowsTo(versions[m], versions'[m], approvals[m], approvals'[m])
                     /\ versions[m] \in Seq(Version) /\ versions'[m] \in Seq(Version)
  BY StepGrows DEF Grows, GrowsTo, TypeOK
<1>2. \A m \in MRs : Distinct(versions'[m])
  BY DistinctStep
<1>3. \A s \in Sweeps : job[s].mr \in MRs /\ job'[s].mr \in MRs
  BY DEF TypeOK, Job
<1>4. ASSUME NEW s \in Sweeps
      PROVE  JudgedWell(job'[s], versions'[job'[s].mr], approvals'[job'[s].mr])
  <2>1. CASE job'[s] = job[s]
    <3>1. JudgedWell(job[s], versions[job[s].mr], approvals[job[s].mr])
      BY DEF JudgeInv
    <3>2. JudgedWell(job[s], versions'[job[s].mr], approvals'[job[s].mr])
      BY <1>1, <1>3, <3>1, JudgedKept
    <3>3. QED BY <2>1, <3>2
  <2>2. ASSUME NEW t \in Sweeps, SweepStep(t) \/ SweepFault(t), job'[s] # job[s]
        PROVE  JudgedWell(job'[s], versions'[job'[s].mr], approvals'[job'[s].mr])
    <3>1. s = t
      BY <2>2, OtherSweeps
    <3>2. JudgedWell(job'[s], versions[job'[s].mr], approvals[job'[s].mr])
      BY <2>2, <3>1, JudgeJobStep
    <3>3. UNCHANGED <<versions, approvals>>
      BY <2>2, SweepGrows
    <3>4. QED BY <3>2, <3>3
  <2>3. ASSUME NEW m \in MRs, People(m) \/ GitLab(m)
        PROVE  job' = job
    BY <2>3 DEF People, GitLab, Push, Approve, Unapprove, WaveThrough, MergeArmed,
       MergeByPerson, Merge, PipelinePasses
  <2>4. QED BY <2>1, <2>2, <2>3 DEF Next, vars
<1>5. ASSUME NEW m \in MRs, NEW r \in greened'[m]
      PROVE  EarnedFrom(m, r, versions'[m], approvals'[m])
  <2>1. CASE r \in greened[m]
    <3>1. EarnedFrom(m, r, versions[m], approvals[m])
      BY <2>1, EarnedIs DEF JudgeInv, GreenIsEarned
    <3>2. QED BY <1>1, <3>1, EarnedKept
  <2>2. CASE r \notin greened[m]
    <3>1. PICK s \in Sweeps : SetCommitStatus(s)
      <4>1. greened' # greened
        BY <1>5, <2>2, Zenon
      <4>2. ASSUME NEW s \in Sweeps, SweepStep(s) \/ SweepFault(s), ~SetCommitStatus(s)
            PROVE  greened' = greened
        BY <4>2 DEF SweepStep, SweepFault, ForgeUnchanged, ListOpen, EndSweep,
           ReadMergeRequest, ReadDiffs, RereadHead, Classify, AddLabel, RemoveLabel,
           ReadPushers, ReadPushEvents, PushersUntold, ReadApprovedBy, ReadVersions,
           ReadApprovalEvents,
           FindThread, OpenThread, ReopenThread, FindReleased, ResolveThread, Arm,
           ReadArmed, CancelArm, ReadPipeline, CreatePipeline, PipelineRefused, Fail, Killed
      <4>3. ASSUME NEW n \in MRs, People(n) \/ GitLab(n)
            PROVE  greened' = greened
        BY <4>3 DEF People, GitLab, Push, Approve, Unapprove, WaveThrough, MergeArmed,
           MergeByPerson, Merge, PipelinePasses
      <4>4. QED BY <4>1, <4>2, <4>3 DEF Next, vars
    <3>2. m = job[s].mr /\ r = job[s].head /\ job[s].state = "success"
      BY <1>3, <2>2, <3>1 DEF SetCommitStatus, TypeOK
    <3>3. EarnedFrom(m, r, versions[m], approvals[m])
      BY <3>2 DEF JudgeInv, JudgedWell
    <3>4. QED BY <1>1, <3>3, EarnedKept
  <2>3. QED BY <2>1, <2>2
<1>6. GreenIsEarned'
  <2>1. ASSUME NEW m \in MRs, NEW r \in greened'[m]
        PROVE  Earned(m, r)'
    BY <1>5, <2>1 DEF Earned, EarnedFrom, PushersUpTo, LaneOf, Eligible
  <2>2. QED BY <2>1 DEF GreenIsEarned
<1>7. QED BY <1>2, <1>4, <1>6 DEF JudgeInv

LEMMA JudgeInit == Init => JudgeInv
<1> SUFFICES ASSUME Init PROVE JudgeInv
  OBVIOUS
<1>1. \A m \in MRs : versions[m] = <<[rev |-> FirstHead[m], by |-> Author[m]]>>
  BY DEF Init
<1>2. \A m \in MRs : Distinct(versions[m])
  <2>1. ASSUME NEW m \in MRs
        PROVE  DOMAIN versions[m] = {1}
    <3> DEFINE v == [rev |-> FirstHead[m], by |-> Author[m]]
    <3> HIDE DEF v
    <3>1. Len(<<v>>) = 1 /\ <<v>> \in Seq({v})
      OBVIOUS
    <3>2. DOMAIN <<v>> = {1}
      BY <3>1
    <3>3. QED BY <1>1, <3>2 DEF v
  <2>2. QED BY <2>1 DEF Distinct
<1>3. \A s \in Sweeps : job[s] = IdleJob
  BY DEF Init
<1>4. IdleJob.call = "list" /\ IdleJob.owner = FALSE /\ IdleJob.state = "pending"
  BY DEF IdleJob
<1>5. \A s \in Sweeps : JudgedWell(job[s], versions[job[s].mr], approvals[job[s].mr])
  BY <1>3, <1>4 DEF JudgedWell, Reading
<1>6. GreenIsEarned
  BY DEF Init, GreenIsEarned
<1>7. QED BY <1>2, <1>5, <1>6 DEF JudgeInv

LEMMA JudgeInvariant ==
    ASSUME AllowRewind = FALSE
    PROVE  Spec => [](TypeOK /\ JudgeInv)
<1>1. TypeOK /\ JudgeInv /\ [Next]_vars => (TypeOK /\ JudgeInv)'
  <2> SUFFICES ASSUME TypeOK, JudgeInv, [Next]_vars
               PROVE  TypeOK' /\ JudgeInv'
    OBVIOUS
  <2>1. TypeOK'
    BY TypeStep
  <2>2. JudgeInv'
    BY <2>1, JudgeStep
  <2>3. QED BY <2>1, <2>2
<1>2. QED BY <1>1, TypeInit, JudgeInit, PTL DEF Spec

\* If branches only move forward, a commit is recorded green only for a reason
\* that holds of that very commit, for any number of sweeps, pushes, approvals,
\* withdrawn approvals, failures and kills between any two calls.
THEOREM GreenOnlyIfEarned ==
    ASSUME AllowRewind = FALSE
    PROVE  Spec => []GreenIsEarned
<1>1. JudgeInv => GreenIsEarned
  BY DEF JudgeInv
<1>2. QED BY <1>1, JudgeInvariant, PTL

\* Likewise, the head and the changed paths that are judged together are of one
\* revision.
THEOREM JudgesOneRevision ==
    ASSUME AllowRewind = FALSE
    PROVE  Spec => []JudgedOneRevision
<1>1. JudgeInv => JudgedOneRevision
  BY DEF JudgeInv, JudgedWell, JudgedOneRevision
<1>2. QED BY <1>1, JudgeInvariant, PTL

\* End to end: what is merged of the project's own merge requests was earned.
THEOREM MergesOnlyEarned ==
    ASSUME AllowRewind = FALSE
    PROVE  Spec => []MergedIsEarned
<1>1. JudgeInv /\ MergedGreen => MergedIsEarned
  BY DEF JudgeInv, MergedGreen, GreenIsEarned, MergedIsEarned
<1>2. QED BY <1>1, JudgeInvariant, MergedGreenInvariant, PTL

-----------------------------------------------------------------------------
(* The lane implements the gate's promise.                                 *)

LEMMA GateEntitled ==
    ASSUME NEW m, NEW r \in Revisions, EarnedFrom(m, r, versions[m], approvals[m])
    PROVE  Gate!Entitled(m, r)
<1>1. LaneOf[r] = Gate!Lane(r)
  BY DEF LaneOf, Gate!Lane,
         ClassifyPullRequest, Gate!ClassifyPullRequest, ClassifyOneRoot, Gate!ClassifyOneRoot,
         ClassifyChange, Gate!ClassifyChange, RemovalClass, Gate!RemovalClass,
         MarkersKept, Gate!MarkersKept, Severity, Gate!Severity, RootsTouched,
         Gate!RootsTouched, EveryPathInRefreshScope, Gate!EveryPathInRefreshScope
<1>2. PICK v \in DOMAIN versions[m] :
        /\ versions[m][v].rev = r
        /\ \/ \E e \in approvals[m] : e.by \in Eligible(m) /\ e.at >= v
           \/ LaneOf[r] = "refresh" /\ AutoMerge = "always"
           \/ /\ LaneOf[r] = "refresh" /\ AutoMerge = "owners"
              /\ m \notin Forks
              /\ OwnsEveryTouchedPackage(Content[r].paths,
                                         {Author[m]} \cup {versions[m][i].by : i \in 1 .. v})
  BY DEF EarnedFrom
<1>3. Gate!Approved(m, v) <=> \E e \in approvals[m] : e.by \in Eligible(m) /\ e.at >= v
  BY DEF Gate!Approved, Eligible
<1>4. OwnsEveryTouchedPackage(Content[r].paths,
                              {Author[m]} \cup {versions[m][i].by : i \in 1 .. v})
      /\ AutoMerge = "owners" /\ m \notin Forks => Gate!OwnedBySender(m, v)
  BY <1>2 DEF Gate!OwnedBySender, OwnsEveryTouchedPackage, Gate!OwnsEveryTouchedPackage,
              RootsTouched, Gate!RootsTouched
<1>5. \/ Gate!Approved(m, v)
      \/ Gate!Lane(r) = "refresh" /\ (AutoMerge = "always" \/ Gate!OwnedBySender(m, v))
  BY <1>1, <1>2, <1>3, <1>4
<1>6. QED BY <1>2, <1>5 DEF Gate!Entitled

LEMMA GateInit == Init => Gate!Init
BY GitLabAssumption DEF Init, Gate!Init

LEMMA GateStep ==
    ASSUME TypeOK, JudgeInv, MergedGreen, [Next]_vars
    PROVE  [Gate!Next]_Gate!vars
<1> USE DEF discussion, gate, merging, history
<1> DEFINE Seen == <<versions, approvals, greened, merged>>
           Goal == [Gate!Next]_Gate!vars
<1>1. UNCHANGED Seen => Goal
  BY DEF Gate!vars
<1>2. ASSUME NEW m \in MRs, Gate!Push(m) \/ Gate!Approve(m) \/ Gate!Release(m) \/ Gate!Merge(m)
      PROVE  Goal
  BY <1>2 DEF Gate!Next
<1>3. ASSUME NEW s \in Sweeps, SetCommitStatus(s)
      PROVE  Goal
  <2>1. /\ job[s].mr \in MRs /\ job[s].head \in Revisions
        /\ UNCHANGED <<versions, approvals, merged>>
    BY <1>3 DEF SetCommitStatus, TypeOK, Job
  <2>2. CASE job[s].state = "success"
    <3>1. EarnedFrom(job[s].mr, job[s].head, versions[job[s].mr], approvals[job[s].mr])
      BY <2>2 DEF JudgeInv, JudgedWell
    <3>2. Gate!Entitled(job[s].mr, job[s].head)
      BY <2>1, <3>1, GateEntitled
    <3>3. greened' = [greened EXCEPT ![job[s].mr] = @ \cup {job[s].head}]
      BY <1>3, <2>2 DEF SetCommitStatus
    <3>4. Gate!Release(job[s].mr)
      BY <2>1, <3>2, <3>3 DEF Gate!Release
    <3>5. QED BY <1>2, <2>1, <3>4
  <2>3. CASE job[s].state # "success"
    <3>1. greened' = greened
      BY <1>3, <2>1, <2>3 DEF SetCommitStatus, TypeOK
    <3>2. QED BY <1>1, <2>1, <3>1
  <2>4. QED BY <2>2, <2>3
<1>4. ASSUME NEW s \in Sweeps, SweepStep(s) \/ SweepFault(s), ~SetCommitStatus(s)
      PROVE  Goal
  <2>1. UNCHANGED Seen
    BY <1>4 DEF SweepStep, SweepFault, ForgeUnchanged, ListOpen, EndSweep,
       ReadMergeRequest, ReadDiffs, RereadHead, Classify, AddLabel, RemoveLabel,
       ReadPushers, ReadPushEvents, PushersUntold, ReadApprovedBy, ReadVersions,
       ReadApprovalEvents,
       FindThread, OpenThread, ReopenThread, FindReleased, ResolveThread, Arm,
       ReadArmed, CancelArm, ReadPipeline, CreatePipeline, PipelineRefused, Fail, Killed
  <2>2. QED BY <1>1, <2>1
<1>5. ASSUME NEW m \in MRs, NEW r \in Revisions, NEW a \in Accounts, Push(m, r, a)
      PROVE  Goal
  <2>1. Gate!Push(m)
    BY <1>5 DEF Push, Gate!Push, Opened, Gate!Opened
  <2>2. QED BY <1>2, <2>1
<1>6. ASSUME NEW m \in MRs, NEW a \in Reviewers[m], Approve(m, a)
      PROVE  Goal
  <2>1. a \in Accounts
    BY GitLabAssumption
  <2>2. Gate!Approve(m)
    BY <1>6, <2>1 DEF Approve, Gate!Approve, Opened, Gate!Opened, Newest
  <2>3. QED BY <1>2, <2>2
<1>7. ASSUME NEW m \in MRs, Merge(m)
      PROVE  Goal
  <2>1. m \in Forks \/ HeadOf(m) \in greened[m]
    BY <1>7, HeadType DEF Merge, Mergeable, MergedGreen
  <2>2. HeadOf(m) = Gate!HeadOf(m)
    BY DEF HeadOf, Newest, Gate!HeadOf
  <2>3. Gate!Merge(m)
    BY <1>7, <2>1, <2>2 DEF Merge, Mergeable, Gate!Merge, Opened, Gate!Opened
  <2>4. QED BY <1>2, <2>3
<1>8. ASSUME NEW m \in MRs, \/ \E a \in Reviewers[m] : Unapprove(m, a)
                            \/ WaveThrough(m) \/ \E r \in Revisions : PipelinePasses(m, r)
      PROVE  Goal
  <2>1. UNCHANGED Seen
    BY <1>8 DEF Unapprove, WaveThrough, PipelinePasses
  <2>2. QED BY <1>1, <2>1
<1>9. CASE UNCHANGED vars
  BY <1>1, <1>9 DEF vars
<1>10. QED BY <1>3, <1>4, <1>5, <1>6, <1>7, <1>8, <1>9
           DEF Next, People, GitLab, MergeArmed, MergeByPerson

\* Every behaviour of the lane is one of the gate's promise: recording a commit
\* green releases it, and only with cause; merging takes a released head; and no
\* other call of any sweep is visible.
THEOREM Implements ==
    ASSUME AllowRewind = FALSE
    PROVE  Spec => ImplementsMergeGate
<1>1. TypeOK /\ JudgeInv /\ MergedGreen /\ [Next]_vars => [Gate!Next]_Gate!vars
  BY GateStep
<1>2. QED BY <1>1, GateInit, JudgeInvariant, MergedGreenInvariant, PTL
          DEF Spec, ImplementsMergeGate, Gate!Spec
=============================================================================
