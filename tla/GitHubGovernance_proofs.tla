----------------------- MODULE GitHubGovernance_proofs -----------------------
(***************************************************************************)
(* Proofs about the GitHub governance lane, for any revisions, accounts,     *)
(* reviews, events and failures.                                           *)
(***************************************************************************)
EXTENDS GitHubGovernance, SequenceTheorems, TLAPS

-----------------------------------------------------------------------------
(* What the gate decides, for any roots and any dial.                      *)

\* One root is always put in one of the three lanes.
LEMMA RootClassType ==
    ASSUME NEW before, NEW after, NEW gone
    PROVE  ClassifyOneRoot(before, after, gone) \in ChangeClass
BY DEF ClassifyOneRoot, ClassifyChange, RemovalClass, ChangeClass

\* Among lanes there is a most severe one.
LEMMA WorstClass ==
    ASSUME NEW C \in SUBSET ChangeClass, C # {}
    PROVE  \E c \in C : \A d \in C : Severity(d) <= Severity(c)
<1>1. CASE "human-review-required" \in C
  BY <1>1 DEF ChangeClass, Severity
<1>2. CASE "human-review-required" \notin C /\ "new-package" \in C
  BY <1>2 DEF ChangeClass, Severity
<1>3. CASE "human-review-required" \notin C /\ "new-package" \notin C
  <2>1. \A d \in C : d = "refresh"
    BY <1>3 DEF ChangeClass
  <2>2. \A d \in C : Severity(d) <= Severity("refresh")
    BY <2>1 DEF Severity
  <2>3. "refresh" \in C
    BY <2>1
  <2>4. QED BY <2>2, <2>3
<1>4. QED BY <1>1, <1>2, <1>3

\* classify_pull_request always names a lane.
LEMMA LaneType ==
    ASSUME NEW paths, NEW root, NEW gone
    PROVE  ClassifyPullRequest(paths, root, gone) \in ChangeClass
<1> DEFINE C == {ClassifyOneRoot(BaseRoot[p], root[p], gone) : p \in RootsTouched(paths)}
<1>1. C \in SUBSET ChangeClass
  BY RootClassType
<1>2. CASE C = {} \/ ~EveryPathInRefreshScope(paths)
  BY <1>2 DEF ClassifyPullRequest, ChangeClass
<1>3. CASE C # {} /\ EveryPathInRefreshScope(paths)
  <2>1. PICK c \in C : \A d \in C : Severity(d) <= Severity(c)
    BY <1>1, <1>3, WorstClass
  <2>2. (CHOOSE k \in C : \A d \in C : Severity(d) <= Severity(k)) \in C
    BY <2>1
  <2>3. QED BY <1>1, <1>3, <2>2 DEF ClassifyPullRequest
<1>4. QED BY <1>2, <1>3

\* _disposition knows two answers.
LEMMA DispositionType ==
    ASSUME NEW class, NEW owner, NEW approved
    PROVE  Disposition(class, owner, approved) \in {"pending", "success"}
BY DEF Disposition

-----------------------------------------------------------------------------
(* Types.                                                                  *)

\* Every push comes with an event, which is what bounds the pushes.
Typed == TypeOK /\ Len(versions) <= Len(runs)

Runs == DOMAIN runs
Said == {"", "pending", "success"}

LEMMA IdleTypes ==
    /\ IdleGate \in GateJob /\ IdleGate.call = "none"
    /\ IdleArm \in ArmJob /\ IdleArm.call = "none"
  BY GitHubAssumption DEF IdleGate, GateJob, GateCall, ChangeClass, IdleArm, ArmJob, ArmCall

LEMMA RunsAre ==
    ASSUME TypeOK
    PROVE  /\ runs \in Seq(Run) /\ Len(runs) \in Nat \ {0} /\ Runs = 1 .. Len(runs)
           /\ runs \in [1 .. Len(runs) -> Run]
           /\ versions \in Seq(Version) /\ Len(versions) \in Nat \ {0}
           /\ DOMAIN versions = 1 .. Len(versions) /\ MaxEvents \in Nat
           /\ versions \in [1 .. Len(versions) -> Version]
  BY GitHubAssumption DEF TypeOK, Runs

LEMMA HeadType ==
    ASSUME TypeOK
    PROVE  HeadOf \in Revisions /\ Newest \in DOMAIN versions /\ HeadOf = versions[Newest].rev
  BY RunsAre DEF HeadOf, Newest, Version

\* A field of one run written, and nothing else of any.
LEMMA Records ==
    ASSUME TypeOK, NEW i \in Runs, NEW d \in Said,
           runs' = [runs EXCEPT ![i].disposition = d]
    PROVE  /\ runs' \in Seq(Run) /\ Len(runs') = Len(runs) /\ Runs' = Runs
           /\ \A j \in Runs : /\ runs'[j].head = runs[j].head /\ runs'[j].sync = runs[j].sync
                              /\ runs'[j].disposition = IF j = i THEN d ELSE runs[j].disposition
<1> DEFINE run == [runs[i] EXCEPT !.disposition = d]
<1>1. runs \in Seq(Run) /\ i \in 1 .. Len(runs) /\ runs[i] \in Run /\ Runs = 1 .. Len(runs)
  BY RunsAre
<1>2. run \in Run /\ run.head = runs[i].head /\ run.sync = runs[i].sync /\ run.disposition = d
  BY <1>1 DEF Run, Said
<1>3. runs' = [runs EXCEPT ![i] = run]
  OBVIOUS
<1> HIDE DEF run
<1>4. runs' \in Seq(Run) /\ Len(runs') = Len(runs)
      /\ \A j \in 1 .. Len(runs) : runs'[j] = IF j = i THEN run ELSE runs[j]
  BY <1>1, <1>2, <1>3, ExceptSeq
<1>5. Runs' = Runs
  BY <1>1, <1>4, LenProperties DEF Runs
<1>6. QED BY <1>1, <1>2, <1>4, <1>5

LEMMA Syncs ==
    ASSUME TypeOK, NEW i \in Runs, NEW s \in {"due", "done", "failed"},
           runs' = [runs EXCEPT ![i].sync = s]
    PROVE  /\ runs' \in Seq(Run) /\ Len(runs') = Len(runs) /\ Runs' = Runs
           /\ \A j \in Runs : /\ runs'[j].head = runs[j].head
                              /\ runs'[j].disposition = runs[j].disposition
                              /\ runs'[j].sync = IF j = i THEN s ELSE runs[j].sync
<1> DEFINE run == [runs[i] EXCEPT !.sync = s]
<1>1. runs \in Seq(Run) /\ i \in 1 .. Len(runs) /\ runs[i] \in Run /\ Runs = 1 .. Len(runs)
  BY RunsAre
<1>2. run \in Run /\ run.head = runs[i].head /\ run.disposition = runs[i].disposition /\ run.sync = s
  BY <1>1 DEF Run
<1>3. runs' = [runs EXCEPT ![i] = run]
  OBVIOUS
<1> HIDE DEF run
<1>4. runs' \in Seq(Run) /\ Len(runs') = Len(runs)
      /\ \A j \in 1 .. Len(runs) : runs'[j] = IF j = i THEN run ELSE runs[j]
  BY <1>1, <1>2, <1>3, ExceptSeq
<1>5. Runs' = Runs
  BY <1>1, <1>4, LenProperties DEF Runs
<1>6. QED BY <1>1, <1>2, <1>4, <1>5

\* An event adds its run, and queues its gate; a gate it takes the place of may
\* still get its arm job.
LEMMA Queues ==
    ASSUME TypeOK, NEW head \in Revisions, Event(head)
    PROVE  /\ runs' \in Seq(Run) /\ Len(runs') = Len(runs) + 1 /\ Len(runs') \in 1 .. MaxEvents
           /\ Runs' = Runs \cup {Len(runs')} /\ Len(runs') \notin Runs
           /\ \A i \in Runs : runs'[i] = runs[i] /\ i < Len(runs')
           /\ runs'[Len(runs')] = NewRun(head)
           /\ gateQueue' = {Len(runs')}
           /\ armQueue' = armQueue \/ \E i \in gateQueue : armQueue' = {i}
<1> DEFINE new == Len(runs) + 1
<1>1. runs \in Seq(Run) /\ Len(runs) \in Nat \ {0} /\ Runs = 1 .. Len(runs) /\ MaxEvents \in Nat
  BY RunsAre
<1>2. NewRun(head) \in Run
  BY DEF NewRun, Run
<1>3. runs' = Append(runs, NewRun(head)) /\ Len(runs) < MaxEvents
  BY DEF Event
<1>4. runs' \in Seq(Run) /\ Len(runs') = new /\ runs'[new] = NewRun(head)
      /\ \A i \in 1 .. Len(runs) : runs'[i] = runs[i]
  BY <1>1, <1>2, <1>3
<1>5. 1 .. new = (1 .. Len(runs)) \cup {new} /\ new \notin 1 .. Len(runs)
      /\ new \in 1 .. MaxEvents /\ \A i \in 1 .. Len(runs) : i < new
  BY <1>1, <1>3
<1>6. Runs' = 1 .. new
  BY <1>1, <1>4 DEF Runs
<1>7. gateQueue' = {new} /\ (armQueue' = armQueue \/ \E i \in gateQueue : armQueue' = {i})
  BY DEF Event, Enqueue
<1>8. QED BY <1>1, <1>4, <1>5, <1>6, <1>7

-----------------------------------------------------------------------------
(* Types: the gate job.                                                    *)

\* A call of the gate changes its job and what it has noted.
LEMMA GateCallType ==
    ASSUME Typed, NEW g \in GateJob, gate' = g, g.run \in Runs \/ g.call = "none",
           UNCHANGED <<people, merging, runs, gateQueue, arm, failures>>,
           armQueue' \subseteq Runs, labels' \subseteq ChangeClass,
           status' \in [Revisions -> {"absent", "pending", "success"}],
           comments' \in Nat, greened' \subseteq Revisions
    PROVE  Typed'
  BY DEF Typed, TypeOK, Runs, people, merging

\* What a running gate job can go on as.
LEMMA GateMoves ==
    ASSUME TypeOK, gate.call # "none"
    PROVE  /\ gate \in GateJob /\ gate.run \in Runs
           /\ \A c \in GateCall : /\ [gate EXCEPT !.call = c] \in GateJob
                                  /\ [gate EXCEPT !.call = c].run = gate.run
                                  /\ [gate EXCEPT !.call = c].call = c
  BY DEF TypeOK, GateJob, Runs

LEMMA GateEndsType ==
    ASSUME Typed, gate.call # "none", NEW d \in Said, GateEnds(d),
           UNCHANGED <<people, notes, merging, arm>>, failures' \in 0 .. MaxFailures
    PROVE  Typed'
<1>1. TypeOK /\ gate.run \in Runs
  BY GateMoves DEF Typed
<1>2. runs' \in Seq(Run) /\ Len(runs') = Len(runs) /\ Runs' = Runs
  BY <1>1, Records DEF GateEnds
<1>3. armQueue' \subseteq Runs /\ gateQueue' = gateQueue
  BY <1>1 DEF GateEnds, Enqueue, TypeOK, Runs
<1>4. gate' \in GateJob /\ gate'.call = "none"
  BY IdleTypes DEF GateEnds
<1>5. QED BY <1>2, <1>3, <1>4 DEF Typed, TypeOK, Runs, people, notes, merging

LEMMA GateErrorsType ==
    ASSUME Typed, gate.call # "none", GateErrors,
           UNCHANGED <<people, notes, merging, arm>>, failures' \in 0 .. MaxFailures
    PROVE  Typed'
  BY GateEndsType DEF GateErrors, Said

\* The reading calls, and the calls that note something.
LEMMA GateReadsType ==
    ASSUME Typed, NEW g \in GateJob, gate' = g, g.run \in Runs, OnlyGate
    PROVE  Typed'
  BY GateCallType DEF OnlyGate, Typed, TypeOK, notes, queues, people, Runs

LEMMA GateStepType ==
    ASSUME Typed, GateStep
    PROVE  Typed'
<1> USE DEF GateCall
<1>1. TypeOK /\ HeadOf \in Revisions
  BY HeadType DEF Typed
<1>2. gate \in GateJob
  BY <1>1 DEF TypeOK
<1>3. failures \in 0 .. MaxFailures
  BY <1>1 DEF TypeOK
<1>4. CASE StartGate
  <2>1. PICK i \in gateQueue : /\ gateQueue' = gateQueue \ {i}
                               /\ gate' = [IdleGate EXCEPT !.call = "pull", !.run = i]
    BY <1>4 DEF StartGate
  <2>2. i \in Runs /\ i \in Nat
    BY <1>1, <2>1, RunsAre DEF TypeOK, Runs
  <2> DEFINE g == [IdleGate EXCEPT !.call = "pull", !.run = i]
  <2>3. g \in GateJob /\ g.run = i
    BY <2>2, IdleTypes DEF GateJob
  <2>4. gate' = g /\ gateQueue' \subseteq Runs
    BY <1>1, <2>1 DEF TypeOK, Runs
  <2> HIDE DEF g
  <2>5. QED BY <1>4, <2>2, <2>3, <2>4 DEF StartGate, Typed, TypeOK, Runs, people, notes, merging
<1>5. CASE ReadPull
  <2> DEFINE g == [gate EXCEPT !.call = "files", !.head = HeadOf, !.labels = labels]
  <2>1. g \in GateJob /\ g.run = gate.run
    BY <1>1, <1>2 DEF GateJob, TypeOK
  <2>2. gate' = g /\ OnlyGate /\ gate.run \in Runs
    BY <1>1, <1>5, GateMoves DEF ReadPull
  <2> HIDE DEF g
  <2>3. QED BY <2>1, <2>2, GateReadsType
<1>6. CASE ReadFiles
  <2> DEFINE g == [gate EXCEPT !.call = "reread", !.paths = HeadOf]
  <2>1. g \in GateJob /\ g.run = gate.run
    BY <1>1, <1>2 DEF GateJob
  <2>2. gate' = g /\ OnlyGate /\ gate.run \in Runs
    BY <1>1, <1>6, GateMoves DEF ReadFiles
  <2> HIDE DEF g
  <2>3. QED BY <2>1, <2>2, GateReadsType
<1>7. CASE RereadHead
  <2>1. CASE GateErrors
    BY <1>3, <1>7, <2>1, GateErrorsType DEF RereadHead
  <2>2. CASE Goes("classify") /\ UNCHANGED queues
    <3>1. OnlyGate /\ gate.run \in Runs /\ "classify" \in GateCall
      BY <1>1, <1>7, <2>2, GateMoves DEF RereadHead, OnlyGate
    <3>2. QED BY <1>1, <1>7, <2>2, <3>1, GateMoves, GateReadsType DEF RereadHead, Goes
  <2>3. QED BY <1>7, <2>1, <2>2 DEF RereadHead
<1>8. CASE Classify
  <2>1. CASE GateErrors
    BY <1>3, <1>8, <2>1, GateErrorsType DEF Classify
  <2>2. CASE ~GateErrors
    <3> DEFINE class == JudgedClass
               g == [gate EXCEPT !.call = "label", !.class = class]
    <3>1. class \in ChangeClass
      BY LaneType DEF JudgedClass
    <3> HIDE DEF class
    <3>2. g \in GateJob /\ g.run = gate.run
      BY <1>2, <3>1 DEF GateJob
    <3>3. gate' = g /\ OnlyGate /\ gate.run \in Runs
      BY <1>1, <1>8, <2>2, GateMoves DEF Classify, OnlyGate, class
    <3> HIDE DEF g
    <3>4. QED BY <3>2, <3>3, GateReadsType
  <2>3. QED BY <2>1, <2>2
<1>9. CASE AddLabel
  <2>1. gate.run \in Runs /\ gate.class \in ChangeClass /\ "unlabel" \in GateCall
    BY <1>1, <1>9, GateMoves DEF AddLabel, GateJob
  <2>2. labels' \subseteq ChangeClass
    BY <1>1, <1>9, <2>1 DEF AddLabel, TypeOK
  <2>3. QED BY <1>1, <1>9, <2>1, <2>2, GateMoves, GateCallType
            DEF AddLabel, Goes, queues, TypeOK, Runs
<1>10. CASE RemoveLabel
  <2>1. gate.run \in Runs
    BY <1>1, <1>10, GateMoves DEF RemoveLabel
  <2>2. labels' \subseteq ChangeClass
    BY <1>1, <1>10 DEF RemoveLabel, TypeOK
  <2>3. gate' \in GateJob /\ gate'.run = gate.run
    <3>1. CASE gate.labels \ {gate.class} # {}
      BY <1>2, <1>10, <3>1 DEF RemoveLabel, GateJob
    <3>2. CASE gate.labels \ {gate.class} = {}
      BY <1>2, <1>10, <3>2 DEF RemoveLabel, GateJob, Goes, AfterLabels
    <3>3. QED BY <3>1, <3>2
  <2>4. QED BY <1>1, <1>10, <2>1, <2>2, <2>3, GateCallType DEF RemoveLabel, queues, TypeOK, Runs
<1>11. CASE ReadPullAgain
  <2>1. OnlyGate /\ gate.run \in Runs /\ "reviews" \in GateCall /\ "activity" \in GateCall
    BY <1>1, <1>11, GateMoves DEF ReadPullAgain
  <2>2. QED BY <1>1, <1>11, <2>1, GateMoves, GateReadsType DEF ReadPullAgain, Goes
<1>12. CASE ReadActivity
  <2>1. PICK v \in 0 .. Newest, complete \in BOOLEAN :
            gate' = [gate EXCEPT !.call = "reviews",
                       !.owner = /\ complete /\ FeedReaches(v)
                                 /\ OwnsEveryTouchedPackage(Content[gate.paths].paths,
                                                            {Author} \cup PushersUpTo(v))]
    BY <1>12 DEF ReadActivity
  <2> DEFINE owner == /\ complete /\ FeedReaches(v)
                      /\ OwnsEveryTouchedPackage(Content[gate.paths].paths, {Author} \cup PushersUpTo(v))
             g == [gate EXCEPT !.call = "reviews", !.owner = owner]
  <2>2. owner \in BOOLEAN /\ gate' = g
    BY <2>1 DEF FeedReaches, OwnsEveryTouchedPackage
  <2> HIDE DEF owner
  <2>3. g \in GateJob /\ g.run = gate.run
    BY <1>2, <2>2 DEF GateJob
  <2>4. OnlyGate /\ gate.run \in Runs
    BY <1>1, <1>12, GateMoves DEF ReadActivity
  <2> HIDE DEF g
  <2>5. QED BY <2>2, <2>3, <2>4, GateReadsType
<1>13. CASE ReadReviews
  <2> DEFINE state == Disposition(gate.class, gate.owner, Eligible \cap ApproversOf(gate.head) # {})
             g == [gate EXCEPT !.state = state, !.labels = {}, !.owner = FALSE,
                               !.call = IF state = "success" THEN "status" ELSE "findComment"]
  <2>1. state \in {"pending", "success"}
    BY DispositionType
  <2>2. gate' = g
    BY <1>13 DEF ReadReviews
  <2> HIDE DEF state
  <2>3. g \in GateJob /\ g.run = gate.run
    BY <1>2, <2>1 DEF GateJob
  <2>4. OnlyGate /\ gate.run \in Runs
    BY <1>1, <1>13, GateMoves DEF ReadReviews
  <2> HIDE DEF g
  <2>5. QED BY <2>2, <2>3, <2>4, GateReadsType
<1>14. CASE FindComment
  <2>1. CASE GateErrors
    BY <1>3, <1>14, <2>1, GateErrorsType DEF FindComment
  <2>2. CASE ~GateErrors
    <3>1. OnlyGate /\ gate.run \in Runs /\ "postComment" \in GateCall /\ "status" \in GateCall
      BY <1>1, <1>14, <2>2, GateMoves DEF FindComment, OnlyGate
    <3>2. Goes("postComment") \/ Goes("status")
      BY <1>14, <2>2 DEF FindComment
    <3>3. QED BY <1>1, <1>14, <3>1, <3>2, GateMoves, GateReadsType DEF FindComment, Goes
  <2>3. QED BY <2>1, <2>2
<1>15. CASE PostComment
  <2>1. gate.run \in Runs /\ "status" \in GateCall
    BY <1>1, <1>15, GateMoves DEF PostComment
  <2>2. comments' \in Nat
    BY <1>1, <1>15 DEF PostComment, TypeOK
  <2>3. QED BY <1>1, <1>15, <2>1, <2>2, GateMoves, GateCallType
            DEF PostComment, Goes, queues, TypeOK, Runs
<1>16. CASE SetCommitStatus
  <2>1. gate.run \in Runs /\ gate.head \in Revisions /\ gate.state \in {"pending", "success"}
        /\ "output" \in GateCall
    BY <1>1, <1>16, GateMoves DEF SetCommitStatus, GateJob
  <2>2. status' \in [Revisions -> {"absent", "pending", "success"}] /\ greened' \subseteq Revisions
    BY <1>1, <1>16, <2>1 DEF SetCommitStatus, TypeOK
  <2>3. QED BY <1>1, <1>16, <2>1, <2>2, GateMoves, GateCallType
            DEF SetCommitStatus, Goes, queues, TypeOK, Runs
<1>17. CASE Output
  <2>1. gate.state \in Said /\ gate.call # "none"
    BY <1>2, <1>17 DEF Output, GateJob, Said
  <2>2. QED BY <1>3, <1>17, <2>1, GateEndsType DEF Output
<1>18. QED BY <1>4, <1>5, <1>6, <1>7, <1>8, <1>9, <1>10, <1>11, <1>12, <1>13, <1>14, <1>15, <1>16, <1>17
           DEF GateStep

-----------------------------------------------------------------------------
(* Types: the arm job, people and GitHub.                                  *)

LEMMA ArmMoves ==
    ASSUME TypeOK, arm.call # "none"
    PROVE  /\ arm \in ArmJob /\ arm.run \in Runs /\ runs[arm.run].head \in Revisions
           /\ \A c \in ArmCall : /\ [arm EXCEPT !.call = c] \in ArmJob
                                 /\ [arm EXCEPT !.call = c].run = arm.run
                                 /\ [arm EXCEPT !.call = c].call = c
<1>1. arm.run \in Runs /\ runs[arm.run] \in Run
  BY RunsAre DEF TypeOK, Runs
<1>2. QED BY <1>1 DEF TypeOK, ArmJob, Run

\* A call of the arm job: it goes on, or ends and says how.
LEMMA ArmCallType ==
    ASSUME Typed, arm.call # "none",
           \/ (\E c \in ArmCall : ArmGoes(c)) /\ UNCHANGED runs
           \/ \E s \in {"done", "failed"} : ArmEnds(s),
           UNCHANGED <<versions, reviews, checks, approvals, notes, gateQueue, armQueue, gate>>,
           opened' \in BOOLEAN, armed' \in BOOLEAN, merged' \in Revisions \cup {NotMerged},
           armedFor' \subseteq Revisions, failures' \in 0 .. MaxFailures
    PROVE  Typed'
<1>1. TypeOK /\ arm.run \in Runs
  BY ArmMoves DEF Typed
<1>2. /\ runs' \in Seq(Run) /\ Len(runs') = Len(runs) /\ Runs' = Runs
      /\ arm' \in ArmJob /\ (arm'.call = "none" \/ arm'.run \in Runs)
  <2>1. CASE (\E c \in ArmCall : ArmGoes(c)) /\ UNCHANGED runs
    BY <1>1, <2>1, ArmMoves DEF ArmGoes, TypeOK, Runs
  <2>2. CASE \E s \in {"done", "failed"} : ArmEnds(s)
    BY <1>1, <2>2, Syncs, IdleTypes DEF ArmEnds
  <2>3. QED BY <2>1, <2>2
<1>3. QED BY <1>1, <1>2 DEF Typed, TypeOK, Runs, notes

LEMMA ArmStepType ==
    ASSUME Typed, ArmStep \/ ArmFails
    PROVE  Typed'
<1> USE DEF ArmCall
<1>1. /\ TypeOK /\ HeadOf \in Revisions /\ opened \in BOOLEAN /\ armed \in BOOLEAN
      /\ merged \in Revisions \cup {NotMerged} /\ armedFor \subseteq Revisions
      /\ failures \in 0 .. MaxFailures
  BY HeadType DEF Typed, TypeOK
<1>2. CASE StartArm
  <2>1. PICK i \in armQueue :
           /\ armQueue' = armQueue \ {i}
           /\ arm' = [call |-> IF runs[i].disposition = "success" THEN "readNode" ELSE "readArmed",
                      run |-> i]
    BY <1>2 DEF StartArm
  <2>2. i \in Runs /\ i \in Nat
    BY <1>1, <2>1, RunsAre DEF TypeOK, Runs
  <2>3. arm' \in ArmJob /\ arm'.run = i
    BY <2>1, <2>2 DEF ArmJob
  <2>4. armQueue' \subseteq Runs
    BY <1>1, <2>1 DEF TypeOK, Runs
  <2>5. QED BY <1>2, <2>2, <2>3, <2>4 DEF StartArm, Typed, TypeOK, Runs, people, notes, merging
<1>3. CASE ArmFails
  BY <1>1, <1>3, ArmCallType, GitHubAssumption DEF ArmFails, people, merging
<1>4. CASE FinishArm
  BY <1>1, <1>4, ArmCallType DEF FinishArm, people, merging
<1>5. CASE ReadNode
  BY <1>1, <1>5, ArmCallType DEF ReadNode, people, merging, queues
<1>6. CASE Enable
  <2>1. EventHead \in Revisions
    BY <1>1, <1>6, ArmMoves DEF Enable, EventHead
  <2>2. QED BY <1>1, <1>6, <2>1, ArmCallType DEF Enable, people, merging
<1>7. CASE Squash
  <2>1. EventHead \in Revisions
    BY <1>1, <1>7, ArmMoves DEF Squash, EventHead
  <2>2. QED BY <1>1, <1>7, <2>1, ArmCallType DEF Squash, merging
<1>8. CASE ReadArmed
  BY <1>1, <1>8, ArmCallType DEF ReadArmed, people, merging, queues
<1>9. CASE Disable
  BY <1>1, <1>9, ArmCallType DEF Disable, people
<1>10. QED BY <1>2, <1>3, <1>4, <1>5, <1>6, <1>7, <1>8, <1>9 DEF ArmStep

\* An event's queues, whatever people did to cause it.
LEMMA EventType ==
    ASSUME TypeOK, NEW head \in Revisions, Event(head), UNCHANGED <<gate, arm>>
    PROVE  /\ runs' \in Seq(Run) /\ Len(runs') \in 1 .. MaxEvents /\ Len(runs') = Len(runs) + 1
           /\ gateQueue' \subseteq Runs' /\ armQueue' \subseteq Runs'
           /\ gate'.call # "none" => gate'.run \in Runs'
           /\ arm'.call # "none" => arm'.run \in Runs'
  BY Queues DEF TypeOK, Runs

LEMMA PeopleType ==
    ASSUME Typed, People \/ ChecksPass \/ MergeArmed
    PROVE  Typed'
<1>1. TypeOK /\ HeadOf \in Revisions /\ Newest \in VersionNumber /\ Len(versions) <= Len(runs)
  BY HeadType, RunsAre DEF Typed, VersionNumber, Newest
<1>2. ASSUME NEW r \in Revisions, NEW a \in Accounts, Push(r, a) PROVE Typed'
  <2> DEFINE version == [rev |-> r, by |-> a]
  <2>1. version \in Version /\ versions' = Append(versions, version)
    BY <1>2 DEF Push, Version
  <2> HIDE DEF version
  <2>2. versions' \in Seq(Version) /\ Len(versions') = Len(versions) + 1
    BY <1>1, <2>1, RunsAre
  <2>3. Event(r) /\ UNCHANGED <<gate, arm>>
    BY <1>2 DEF Push, OnlyPeople
  <2>4. Len(versions') \in 1 .. MaxEvents /\ Len(versions') <= Len(runs')
    BY <1>1, <2>2, <2>3, EventType, RunsAre
  <2>5. armed' \in BOOLEAN
    BY <1>1, <1>2 DEF Push, TypeOK
  <2>6. QED BY <1>1, <1>2, <2>2, <2>3, <2>4, <2>5, EventType
            DEF Push, OnlyPeople, Typed, TypeOK, Runs, notes
<1>3. CASE Close
  BY <1>3 DEF Close, OnlyPeople, Typed, TypeOK, notes, queues
<1>4. CASE Reopen
  <2>1. Event(HeadOf) /\ UNCHANGED <<gate, arm, versions>>
    BY <1>4 DEF Reopen, OnlyPeople
  <2>2. Len(versions') <= Len(runs')
    BY <1>1, <2>1, EventType, RunsAre
  <2>3. QED BY <1>1, <1>4, <2>1, <2>2, EventType
            DEF Reopen, OnlyPeople, Typed, TypeOK, Runs, notes, merging
<1>5. ASSUME NEW a \in Reviewers, ApproveHead(a) PROVE Typed'
  <2>1. reviews' = reviews \cup {[by |-> a, rev |-> HeadOf]}
        /\ approvals' = approvals \cup {[by |-> a, at |-> Newest]}
    BY <1>5 DEF ApproveHead
  <2>2. [by |-> a, rev |-> HeadOf] \in Review /\ [by |-> a, at |-> Newest] \in Approval
    BY <1>1, <1>5, GitHubAssumption DEF Review, Approval
  <2>3. reviews' \subseteq Review /\ approvals' \subseteq Approval
    BY <1>1, <2>1, <2>2 DEF TypeOK
  <2>4. QED BY <1>5, <2>3 DEF ApproveHead, OnlyPeople, Typed, TypeOK, notes, queues, merging
<1>6. ASSUME NEW e \in reviews, DismissReview(e) PROVE Typed'
  BY <1>6 DEF DismissReview, OnlyPeople, Typed, TypeOK, notes, queues, merging
<1>7. CASE ChecksPass
  BY <1>1, <1>7 DEF ChecksPass, OnlyPeople, Typed, TypeOK, notes, queues, merging
<1>8. CASE Merge
  BY <1>1, <1>8 DEF Merge, OnlyPeople, Typed, TypeOK, notes, queues
<1>9. QED BY <1>2, <1>3, <1>4, <1>5, <1>6, <1>7, <1>8 DEF People, MergeArmed, MergeByPerson

LEMMA TypedStep == Typed /\ [Next]_vars => Typed'
<1> SUFFICES ASSUME Typed, [Next]_vars PROVE Typed'
  OBVIOUS
<1>1. CASE GateFails
  <2>1. failures' \in 0 .. MaxFailures
    BY <1>1, GitHubAssumption DEF GateFails, Typed, TypeOK
  <2>2. QED BY <1>1, <2>1, GateErrorsType DEF GateFails
<1>2. CASE UNCHANGED vars
  BY <1>2 DEF vars, people, notes, merging, queues, Typed, TypeOK
<1>3. QED BY <1>1, <1>2, GateStepType, ArmStepType, PeopleType DEF Next

LEMMA TypedInit == Init => Typed
<1> SUFFICES ASSUME Init PROVE Typed
  OBVIOUS
<1> DEFINE first == [rev |-> FirstHead, by |-> Author]
<1>1. first \in Version /\ NewRun(FirstHead) \in Run
  BY GitHubAssumption DEF Version, NewRun, Run
<1>2. versions = <<first>> /\ runs = <<NewRun(FirstHead)>>
  BY DEF Init
<1> HIDE DEF first
<1>3. /\ versions \in Seq(Version) /\ Len(versions) = 1 /\ runs \in Seq(Run) /\ Len(runs) = 1
      /\ DOMAIN runs = {1}
  BY <1>1, <1>2
<1>4. 1 \in 1 .. MaxEvents /\ 0 \in 0 .. MaxFailures
  BY GitHubAssumption
<1>5. /\ checks \in [Revisions -> BOOLEAN]
      /\ status \in [Revisions -> {"absent", "pending", "success"}]
      /\ gate \in GateJob /\ gate.call = "none" /\ arm \in ArmJob /\ arm.call = "none"
      /\ gateQueue \subseteq DOMAIN runs /\ armQueue \subseteq DOMAIN runs
  BY <1>3, IdleTypes DEF Init
<1>6. /\ opened \in BOOLEAN /\ armed \in BOOLEAN /\ comments \in Nat /\ failures = 0
      /\ merged \in Revisions \cup {NotMerged}
      /\ reviews = {} /\ approvals = {} /\ labels = {} /\ greened = {} /\ armedFor = {}
  BY DEF Init
<1>7. QED BY <1>3, <1>4, <1>5, <1>6 DEF Typed, TypeOK

\* The lane's variables keep their types, however its jobs are queued, superseded,
\* fail and interleave with pushes, reviews and merges.
THEOREM GitHubTypeCorrect == Spec => []TypeOK
<1>1. Typed => TypeOK
  BY DEF Typed
<1>2. QED BY <1>1, TypedInit, TypedStep, PTL DEF Spec

-----------------------------------------------------------------------------
(* What a step does to the queues and the jobs.                            *)

\* A gate that ends is followed by its arm job, the only one then waiting.
LEMMA GateGoes ==
    ASSUME TypeOK, GateStep \/ GateFails
    PROVE  /\ UNCHANGED arm
           /\ \/ \E i \in gateQueue : /\ gateQueue' = gateQueue \ {i}
                                      /\ gate'.call = "pull" /\ gate'.run = i
                                      /\ gate.call = "none" /\ UNCHANGED <<runs, armQueue>>
              \/ /\ gate.call # "none" /\ gate'.call # "none" /\ gate'.run = gate.run
                 /\ UNCHANGED queues
              \/ \E d \in Said : GateEnds(d) /\ gate.call # "none"
<1>1. gate.call # "none" => gate \in GateJob
  BY DEF TypeOK
<1>2. CASE StartGate
  <2>1. PICK i \in gateQueue : /\ gateQueue' = gateQueue \ {i}
                               /\ gate' = [IdleGate EXCEPT !.call = "pull", !.run = i]
    BY <1>2 DEF StartGate
  <2>2. gate'.call = "pull" /\ gate'.run = i
    BY <2>1 DEF IdleGate
  <2>3. QED BY <1>2, <2>1, <2>2 DEF StartGate
<1>3. ASSUME GateErrors, gate.call # "none", UNCHANGED arm PROVE \E d \in Said : GateEnds(d)
  BY <1>3 DEF GateErrors, Said
<1>4. CASE ReadPull \/ ReadFiles \/ AddLabel \/ ReadPullAgain \/ PostComment \/ SetCommitStatus
  BY <1>1, <1>4 DEF ReadPull, ReadFiles, AddLabel, ReadPullAgain, PostComment, SetCommitStatus,
                    OnlyGate, Goes, GateJob
<1>5. CASE ReadActivity
  <2>1. PICK v \in 0 .. Newest, complete \in BOOLEAN :
            gate' = [gate EXCEPT !.call = "reviews",
                       !.owner = /\ complete /\ FeedReaches(v)
                                 /\ OwnsEveryTouchedPackage(Content[gate.paths].paths,
                                                            {Author} \cup PushersUpTo(v))]
    BY <1>5 DEF ReadActivity
  <2> DEFINE owner == /\ complete /\ FeedReaches(v)
                      /\ OwnsEveryTouchedPackage(Content[gate.paths].paths, {Author} \cup PushersUpTo(v))
  <2>2. gate' = [gate EXCEPT !.call = "reviews", !.owner = owner]
    BY <2>1
  <2> HIDE DEF owner
  <2>3. gate'.call = "reviews" /\ gate'.run = gate.run
    BY <1>1, <1>5, <2>2 DEF ReadActivity, GateJob
  <2>4. QED BY <1>5, <2>3 DEF ReadActivity, OnlyGate
<1>6. CASE ReadReviews
  <2> DEFINE state == Disposition(gate.class, gate.owner, Eligible \cap ApproversOf(gate.head) # {})
  <2>1. gate' = [gate EXCEPT !.state = state, !.labels = {}, !.owner = FALSE,
                             !.call = IF state = "success" THEN "status" ELSE "findComment"]
    BY <1>6 DEF ReadReviews
  <2> HIDE DEF state
  <2>2. gate'.call # "none" /\ gate'.run = gate.run
    BY <1>1, <1>6, <2>1 DEF ReadReviews, GateJob
  <2>3. QED BY <1>6, <2>2 DEF ReadReviews, OnlyGate
<1>7. CASE RemoveLabel
  <2>1. gate'.call # "none" /\ gate'.run = gate.run /\ UNCHANGED <<queues, arm>> /\ gate.call # "none"
    BY <1>1, <1>7 DEF RemoveLabel, Goes, AfterLabels, GateJob
  <2>2. QED BY <2>1
<1>8. CASE RereadHead
  BY <1>1, <1>3, <1>8 DEF RereadHead, Goes, GateJob
<1>9. CASE Classify
  <2>1. CASE GateErrors
    BY <1>3, <1>9, <2>1 DEF Classify
  <2>2. CASE ~GateErrors
    <3> DEFINE class == JudgedClass
    <3>1. gate' = [gate EXCEPT !.call = "label", !.class = class] /\ UNCHANGED <<queues, arm>>
          /\ gate.call # "none"
      BY <1>9, <2>2 DEF Classify
    <3> HIDE DEF class
    <3>2. gate'.call # "none" /\ gate'.run = gate.run
      BY <1>1, <3>1 DEF GateJob
    <3>3. QED BY <3>1, <3>2
  <2>3. QED BY <2>1, <2>2
<1>10. CASE FindComment
  <2>1. CASE GateErrors
    BY <1>3, <1>10, <2>1 DEF FindComment
  <2>2. CASE ~GateErrors
    <3>1. (Goes("postComment") \/ Goes("status")) /\ UNCHANGED <<queues, arm>> /\ gate.call # "none"
      BY <1>10, <2>2 DEF FindComment
    <3>2. gate'.call # "none" /\ gate'.run = gate.run
      BY <1>1, <3>1 DEF GateJob, Goes
    <3>3. QED BY <3>1, <3>2
  <2>3. QED BY <2>1, <2>2
<1>11. CASE Output
  <2>1. gate.state \in Said /\ gate.call # "none"
    BY <1>1, <1>11 DEF Output, GateJob, Said
  <2>2. QED BY <1>11, <2>1 DEF Output
<1>12. CASE GateFails
  BY <1>3, <1>12 DEF GateFails
<1>13. QED BY <1>2, <1>4, <1>5, <1>6, <1>7, <1>8, <1>9, <1>10, <1>11, <1>12 DEF GateStep

LEMMA ArmCalls ==
    ASSUME TypeOK, ArmStep \/ ArmFails
    PROVE  /\ UNCHANGED <<gate, gateQueue>>
           /\ \/ \E i \in armQueue :
                    /\ armQueue' = armQueue \ {i} /\ arm'.run = i /\ UNCHANGED runs
                    /\ arm.call = "none" /\ arm'.call # "none"
                    /\ arm'.call # "readArmed" => runs[i].disposition = "success"
              \/ /\ arm.call # "none" /\ arm'.call # "none" /\ arm'.run = arm.run
                 /\ UNCHANGED <<runs, armQueue>>
                 /\ arm'.call \in {"enable", "squash"} => arm.call \in {"readNode", "enable"}
                 /\ arm'.call # "readNode"
              \/ /\ arm.call # "none" /\ UNCHANGED armQueue
                 /\ \E s \in {"done", "failed"} : ArmEnds(s)
<1>1. arm.call # "none" => arm \in ArmJob
  BY DEF TypeOK
<1>2. CASE StartArm
  BY <1>2 DEF StartArm
<1>3. CASE ArmFails \/ FinishArm
  BY <1>3 DEF ArmFails, FinishArm
<1>4. CASE ReadNode \/ ReadArmed
  BY <1>1, <1>4 DEF ReadNode, ReadArmed, ArmGoes, ArmJob, queues
<1>5. CASE Enable \/ Squash
  <2>1. CASE ArmEnds("failed")
    BY <1>5, <2>1 DEF Enable, Squash
  <2>2. CASE ~ArmEnds("failed")
    <3>1. \E c \in {"finish", "squash"} :
             /\ arm' = [arm EXCEPT !.call = c]
             /\ c = "squash" => arm.call = "enable"
      BY <1>5, <2>2 DEF Enable, Squash, ArmGoes
    <3>2. UNCHANGED <<runs, armQueue, gate, gateQueue>> /\ arm.call # "none"
      BY <1>5, <2>2 DEF Enable, Squash
    <3>3. QED BY <1>1, <3>1, <3>2 DEF ArmJob
  <2>3. QED BY <2>1, <2>2
<1>6. CASE Disable
  BY <1>1, <1>6 DEF Disable, ArmGoes, ArmJob
<1>7. QED BY <1>2, <1>3, <1>4, <1>5, <1>6 DEF ArmStep

LEMMA PeopleQueue ==
    ASSUME TypeOK, People \/ ChecksPass \/ MergeArmed
    PROVE  /\ UNCHANGED <<gate, arm>>
           /\ UNCHANGED queues \/ \E r \in Revisions : Event(r)
<1>1. ASSUME NEW r \in Revisions, NEW a \in Accounts, Push(r, a)
      PROVE  Event(r) /\ UNCHANGED <<gate, arm>>
  BY <1>1 DEF Push, OnlyPeople
<1>2. Reopen => Event(HeadOf) /\ UNCHANGED <<gate, arm>> /\ HeadOf \in Revisions
  BY HeadType DEF Reopen, OnlyPeople
<1>3. Close \/ ChecksPass \/ Merge => UNCHANGED <<queues, gate, arm>>
  BY DEF Close, ChecksPass, Merge, OnlyPeople
<1>4. ASSUME NEW a, ApproveHead(a) \/ DismissReview(a) PROVE UNCHANGED <<queues, gate, arm>>
  BY <1>4 DEF ApproveHead, DismissReview, OnlyPeople
<1>5. QED BY <1>1, <1>2, <1>3, <1>4 DEF People, MergeArmed, MergeByPerson

-----------------------------------------------------------------------------
(* The order of the events.  At most one job waits in a group, a gate job     *)
(* runs before those that wait, and no arm job starts behind one of a later   *)
(* event whose gate has spoken.                                            *)

Unsaid == ""
Judged(i) == runs[i].disposition # Unsaid
Arming(i) == arm.call # "none" /\ arm.run = i
Gating(i) == i \in gateQueue \/ (gate.call # "none" /\ gate.run = i)
Synced(i) == runs[i].sync # "due"

OneWaits == /\ \A i, j \in gateQueue : i = j
            /\ \A i, j \in armQueue : i = j

\* Gates run in the order of their events.
GatesInOrder ==
    /\ gate.call # "none" => \A j \in gateQueue : gate.run < j
    /\ \A i, j \in Runs : Judged(i) /\ Gating(j) => i < j

\* No arm job of a run precedes its gate.
GateFirst == \A i \in Runs : Gating(i) => ~Synced(i) /\ ~Arming(i) /\ i \notin armQueue

ArmsInOrder ==
    /\ \A i \in Runs, j \in armQueue : Judged(i) /\ (Synced(i) \/ Arming(i)) => i < j
    /\ \A i, j \in Runs : Judged(i) /\ Synced(i) /\ Arming(j) => i < j

InOrder == OneWaits /\ GatesInOrder /\ GateFirst /\ ArmsInOrder

LEMMA NewRuns ==
    ASSUME NEW head
    PROVE  /\ NewRun(head).head = head
           /\ NewRun(head).disposition = Unsaid
           /\ NewRun(head).sync = "due"
<1>1. NewRun(head) = [head |-> head, disposition |-> Unsaid, sync |-> "due"]
  BY Zenon DEF NewRun, Unsaid
<1>2. QED BY <1>1

LEMMA OrderInit == Init => InOrder
<1> SUFFICES ASSUME Init PROVE InOrder
  OBVIOUS
<1>1. runs = <<NewRun(FirstHead)>> /\ gate.call = "none" /\ arm.call = "none"
      /\ gateQueue = {1} /\ armQueue = {}
  BY IdleTypes DEF Init
<1>2. Runs = {1} /\ runs[1] = NewRun(FirstHead)
  BY <1>1 DEF Runs
<1>3. ~Judged(1)
  BY <1>2, NewRuns DEF Judged
<1>4. ~Synced(1)
  BY <1>2, NewRuns DEF Synced
<1>5. QED BY <1>1, <1>2, <1>3, <1>4
          DEF InOrder, OneWaits, GatesInOrder, GateFirst, ArmsInOrder, Gating, Arming

\* What the jobs' numbers range over.
LEMMA Numbers ==
    ASSUME TypeOK
    PROVE  /\ Runs \subseteq Nat /\ gateQueue \subseteq Runs /\ armQueue \subseteq Runs
           /\ gate.call # "none" => gate.run \in Runs
           /\ arm.call # "none" => arm.run \in Runs
<1>1. Len(runs) \in Nat /\ Runs = 1 .. Len(runs)
  BY RunsAre
<1>2. QED BY <1>1 DEF TypeOK, Runs

LEMMA GateSpeaks ==
    ASSUME TypeOK, gate.call # "none", NEW d \in Said, GateEnds(d)
    PROVE  /\ gate.run \in Runs /\ Runs' = Runs /\ gate'.call = "none"
           /\ gateQueue' = gateQueue /\ armQueue' = {gate.run}
           /\ \A j \in Runs : /\ Synced(j)' <=> Synced(j)
                              /\ j # gate.run => (Judged(j)' <=> Judged(j))
<1>1. PICK i \in Runs : i = gate.run
  BY Numbers
<1>2. runs' = [runs EXCEPT ![i].disposition = d]
  BY <1>1 DEF GateEnds
<1>3. Runs' = Runs /\ \A j \in Runs : /\ runs'[j].sync = runs[j].sync
                                      /\ j # i => runs'[j].disposition = runs[j].disposition
  <2>1. \A j \in Runs : /\ runs'[j].sync = runs[j].sync
                       /\ runs'[j].disposition = IF j = i THEN d ELSE runs[j].disposition
    BY <1>2, Records
  <2>2. Runs' = Runs
    BY <1>2, Records
  <2>3. QED BY <2>1, <2>2
<1>4. gateQueue' = gateQueue /\ armQueue' = {gate.run} /\ gate'.call = "none"
  BY IdleTypes DEF GateEnds, Enqueue
<1>5. QED BY <1>1, <1>3, <1>4 DEF Judged, Synced

LEMMA ArmSpeaks ==
    ASSUME TypeOK, arm.call # "none", NEW s \in {"done", "failed"}, ArmEnds(s)
    PROVE  /\ arm.run \in Runs /\ Runs' = Runs /\ arm'.call = "none"
           /\ \A j \in Runs : /\ Judged(j)' <=> Judged(j)
                              /\ j # arm.run => (Synced(j)' <=> Synced(j))
<1>1. PICK i \in Runs : i = arm.run
  BY Numbers
<1>2. runs' = [runs EXCEPT ![i].sync = s] /\ s \in {"due", "done", "failed"}
  BY <1>1 DEF ArmEnds
<1>3. Runs' = Runs /\ \A j \in Runs : /\ runs'[j].disposition = runs[j].disposition
                                      /\ j # i => runs'[j].sync = runs[j].sync
  <2>1. \A j \in Runs : /\ runs'[j].disposition = runs[j].disposition
                       /\ runs'[j].sync = IF j = i THEN s ELSE runs[j].sync
    BY <1>2, Syncs
  <2>2. Runs' = Runs
    BY <1>2, Syncs
  <2>3. QED BY <2>1, <2>2
<1>4. arm'.call = "none"
  BY IdleTypes DEF ArmEnds
<1>5. QED BY <1>1, <1>3, <1>4 DEF Judged, Synced

LEMMA OrderGate ==
    ASSUME TypeOK, InOrder, GateStep \/ GateFails
    PROVE  InOrder'
<1> USE DEF InOrder, OneWaits, GatesInOrder, GateFirst, ArmsInOrder
<1>1. UNCHANGED arm
  BY GateGoes
<1>2. ASSUME NEW i \in gateQueue, gateQueue' = gateQueue \ {i}, gate'.call = "pull", gate'.run = i,
             gate.call = "none", UNCHANGED <<runs, armQueue>>
      PROVE  InOrder'
  <2>1. gateQueue' = {} /\ UNCHANGED Runs
    BY <1>2 DEF Runs
  <2>2. \A j : Gating(j)' <=> j = i
    BY <1>2, <2>1 DEF Gating
  <2>3. Gating(i) /\ i \in Runs
    BY <1>2, Numbers DEF Gating
  <2>4. \A j : (Judged(j)' <=> Judged(j)) /\ (Synced(j)' <=> Synced(j)) /\ (Arming(j)' <=> Arming(j))
    BY <1>1, <1>2 DEF Judged, Synced, Arming
  <2>5. QED BY <1>2, <2>1, <2>2, <2>3, <2>4
<1>3. ASSUME gate.call # "none", gate'.call # "none", gate'.run = gate.run, UNCHANGED queues
      PROVE  InOrder'
  <2>1. \A j : /\ Judged(j)' <=> Judged(j)
               /\ Synced(j)' <=> Synced(j)
               /\ Arming(j)' <=> Arming(j)
               /\ Gating(j)' <=> Gating(j)
    BY <1>1, <1>3 DEF queues, Judged, Synced, Arming, Gating
  <2>2. QED BY <1>3, <2>1 DEF queues, Runs
<1>4. ASSUME NEW d \in Said, GateEnds(d), gate.call # "none"
      PROVE  InOrder'
  <2> DEFINE g == gate.run
  <2>1. g \in Runs /\ Gating(g)
    BY <1>4, Numbers DEF Gating
  <2> HIDE DEF g
  <2>2. gateQueue' = gateQueue /\ armQueue' = {g} /\ gate'.call = "none"
    BY <1>4, GateSpeaks DEF g
  <2>3. Runs' = Runs /\ \A j \in Runs : /\ Synced(j)' <=> Synced(j)
                                        /\ j # g => (Judged(j)' <=> Judged(j))
    BY <1>4, GateSpeaks DEF g
  <2>4. \A j : (Arming(j)' <=> Arming(j)) /\ (Gating(j)' <=> j \in gateQueue)
    BY <1>1, <2>2 DEF Arming, Gating
  <2>5. \A j \in gateQueue : Gating(j) /\ g < j /\ j \in Runs
    BY <1>4, Numbers DEF Gating, g
  <2>6. ~Synced(g) /\ ~Arming(g) /\ \A i \in Runs : Judged(i) => i < g
    BY <2>1
  <2>7. Runs \subseteq Nat
    BY Numbers
  <2>8. GatesInOrder'
    BY <2>1, <2>2, <2>3, <2>4, <2>5, <2>6, <2>7
  <2>9. GateFirst'
    BY <2>1, <2>2, <2>3, <2>4, <2>5, <2>6, <2>7
  <2>10. ArmsInOrder'
    BY <2>1, <2>2, <2>3, <2>4, <2>5, <2>6, <2>7
  <2>11. QED BY <2>2, <2>8, <2>9, <2>10
<1>5. QED BY <1>2, <1>3, <1>4, GateGoes

LEMMA OrderArm ==
    ASSUME TypeOK, InOrder, ArmStep \/ ArmFails
    PROVE  InOrder'
<1> USE DEF InOrder, OneWaits, GatesInOrder, GateFirst, ArmsInOrder
<1>1. UNCHANGED <<gate, gateQueue>> /\ \A j : Gating(j)' <=> Gating(j)
  BY ArmCalls DEF Gating
<1>2. ASSUME NEW i \in armQueue, armQueue' = armQueue \ {i}, arm'.run = i, UNCHANGED runs,
             arm.call = "none", arm'.call # "none"
      PROVE  InOrder'
  <2>1. armQueue' = {} /\ UNCHANGED Runs /\ i \in Runs
    BY <1>2, Numbers DEF Runs
  <2>2. \A j : /\ Judged(j)' <=> Judged(j)
               /\ Synced(j)' <=> Synced(j)
               /\ Arming(j)' <=> j = i
    BY <1>2 DEF Judged, Synced, Arming
  <2>3. QED BY <1>1, <1>2, <2>1, <2>2
<1>3. ASSUME arm.call # "none", arm'.call # "none", arm'.run = arm.run, UNCHANGED <<runs, armQueue>>
      PROVE  InOrder'
  <2>1. \A j : /\ Judged(j)' <=> Judged(j)
               /\ Synced(j)' <=> Synced(j)
               /\ Arming(j)' <=> Arming(j)
    BY <1>3 DEF Judged, Synced, Arming
  <2>2. QED BY <1>1, <1>3, <2>1 DEF Runs
<1>4. ASSUME arm.call # "none", UNCHANGED armQueue, NEW s \in {"done", "failed"}, ArmEnds(s)
      PROVE  InOrder'
  <2> DEFINE k == arm.run
  <2>1. k \in Runs /\ Arming(k)
    BY <1>4, Numbers DEF Arming
  <2> HIDE DEF k
  <2>2. arm'.call = "none"
    BY <1>4, ArmSpeaks
  <2>3. Runs' = Runs /\ \A j \in Runs : /\ Judged(j)' <=> Judged(j)
                                        /\ j # k => (Synced(j)' <=> Synced(j))
    BY <1>4, ArmSpeaks DEF k
  <2>4. \A j : ~Arming(j)'
    BY <2>2 DEF Arming
  <2>5. armQueue \subseteq Runs
    BY Numbers
  <2>6. QED BY <1>1, <1>4, <2>1, <2>3, <2>4, <2>5
<1>5. QED BY <1>2, <1>3, <1>4, ArmCalls

LEMMA OrderPeople ==
    ASSUME TypeOK, InOrder, UNCHANGED <<gate, arm>>,
           UNCHANGED queues \/ \E r \in Revisions : Event(r)
    PROVE  InOrder'
<1> USE DEF InOrder, OneWaits, GatesInOrder, GateFirst, ArmsInOrder
<1>1. CASE UNCHANGED queues
  <2>1. \A j : /\ Judged(j)' <=> Judged(j)
               /\ Synced(j)' <=> Synced(j)
               /\ Arming(j)' <=> Arming(j)
               /\ Gating(j)' <=> Gating(j)
    BY <1>1 DEF queues, Judged, Synced, Arming, Gating
  <2>2. QED BY <1>1, <2>1 DEF queues, Runs
<1>2. ASSUME NEW r \in Revisions, Event(r)
      PROVE  InOrder'
  <2>1. PICK n :
        /\ Runs' = Runs \cup {n} /\ n \notin Runs /\ \A i \in Runs : runs'[i] = runs[i] /\ i < n
        /\ runs'[n] = NewRun(r) /\ gateQueue' = {n}
        /\ armQueue' = armQueue \/ \E i \in gateQueue : armQueue' = {i}
    BY <1>2, Queues
  <2>2. \A i \in Runs : (Judged(i)' <=> Judged(i)) /\ (Synced(i)' <=> Synced(i))
    BY <2>1 DEF Judged, Synced
  <2>3. ~Judged(n)' /\ ~Synced(n)'
    BY <2>1, NewRuns DEF Judged, Synced
  <2>4. /\ Runs \subseteq Nat /\ gateQueue \subseteq Runs /\ armQueue \subseteq Runs
        /\ \A j : Arming(j) => j \in Runs
        /\ \A j : Gating(j) => j \in Runs
        /\ \A j \in gateQueue : Gating(j)
    BY Numbers DEF Arming, Gating
  <2>5. \A j : (Arming(j)' <=> Arming(j)) /\ (Gating(j)' => j = n \/ Gating(j))
    BY <2>1 DEF Arming, Gating
  <2>6. OneWaits' /\ gate'.call = gate.call /\ gate'.run = gate.run
    BY <2>1
  <2>7. gate.call # "none" => Gating(gate.run)
    BY DEF Gating
  <2>8. GatesInOrder'
    <3>1. ASSUME NEW i \in Runs', NEW j \in Runs', Judged(i)', Gating(j)' PROVE i < j
      <4>1. i \in Runs /\ Judged(i)
        BY <2>1, <2>2, <2>3, <3>1
      <4>2. CASE j = n
        BY <2>1, <4>1, <4>2
      <4>3. CASE j # n
        BY <2>1, <2>4, <2>5, <3>1, <4>1, <4>3
      <4>4. QED BY <4>2, <4>3
    <3>2. gate'.call # "none" => \A j \in gateQueue' : gate'.run < j
      BY <2>1, <2>4, <2>6, <2>7
    <3>3. QED BY <3>1, <3>2
  <2>9. GateFirst'
    <3>1. ASSUME NEW i \in Runs', Gating(i)' PROVE ~Synced(i)' /\ ~Arming(i)' /\ i \notin armQueue'
      <4>1. CASE i = n
        BY <2>1, <2>3, <2>4, <2>5, <4>1
      <4>2. CASE i # n
        <5>1. i \in Runs /\ Gating(i)
          BY <2>1, <2>5, <3>1, <4>2
        <5>2. ~Synced(i)' /\ ~Arming(i)' /\ i \notin armQueue
          BY <2>2, <2>5, <5>1
        <5>3. \A k \in gateQueue : i < k
          BY <2>1, <2>5, <3>1, <4>2 DEF Gating
        <5>4. \A k \in armQueue' : k \in armQueue \/ k \in gateQueue
          BY <2>1
        <5>5. \A k \in gateQueue : k # i
          BY <2>4, <5>1, <5>3
        <5>6. i \notin armQueue'
          BY <5>2, <5>4, <5>5
        <5>7. QED BY <5>2, <5>6
      <4>3. QED BY <4>1, <4>2
    <3>2. QED BY <3>1
  <2>10. ArmsInOrder'
    <3>1. \A i \in Runs, j \in armQueue' : Judged(i) /\ (Synced(i) \/ Arming(i)) => i < j
      BY <2>1, <2>4
    <3>2. armQueue' \subseteq Runs
      BY <2>1, <2>4
    <3>3. QED BY <2>1, <2>2, <2>3, <2>4, <2>5, <3>1, <3>2
  <2>11. QED BY <2>6, <2>8, <2>9, <2>10
<1>3. QED BY <1>1, <1>2

LEMMA OrderStep == Typed /\ InOrder /\ [Next]_vars => InOrder'
<1> SUFFICES ASSUME Typed, InOrder, [Next]_vars PROVE InOrder'
  OBVIOUS
<1>1. TypeOK
  BY DEF Typed
<1>2. UNCHANGED vars => UNCHANGED <<gate, arm>> /\ UNCHANGED queues
  BY DEF vars, queues
<1>3. QED BY <1>1, <1>2, OrderGate, OrderArm, OrderPeople, PeopleQueue DEF Next

\* Nobody but the arm job enables auto-merge.
LEMMA OnlyEnableArms ==
    ASSUME TypeOK, [Next]_vars, ~armed, armed'
    PROVE  Enable
<1>1. armed' \in {TRUE} \/ armed' # FALSE
  OBVIOUS
<1>2. GateStep \/ GateFails => UNCHANGED merging
  BY DEF GateStep, GateFails, StartGate, ReadPull, ReadFiles, RereadHead, Classify, AddLabel,
         RemoveLabel, ReadPullAgain, ReadActivity, ReadReviews, FindComment, PostComment,
         SetCommitStatus, Output, OnlyGate, merging
<1>3. ArmFails \/ StartArm \/ FinishArm \/ ReadNode \/ ReadArmed => UNCHANGED merging
  BY DEF ArmFails, StartArm, FinishArm, ReadNode, ReadArmed, merging
<1>4. ~Squash /\ ~Disable
  BY DEF Squash, Disable, merging
<1>5. ~People /\ ~ChecksPass /\ ~MergeArmed
  BY DEF People, Push, Close, Reopen, ApproveHead, DismissReview, MergeByPerson, MergeArmed, Merge,
         ChecksPass, merging
<1>6. ~UNCHANGED merging
  BY DEF merging
<1>7. QED BY <1>2, <1>3, <1>4, <1>5, <1>6 DEF Next, ArmStep, vars

\* An arm job that enables auto-merge is of the newest event whose gate has
\* spoken and whose arm job is through: the concurrency groups keep a decision
\* withdrawn from being armed over by an older one.
THEOREM ArmedInOrder == Spec => NoStaleArm
<1> DEFINE Armed == ~armed /\ armed' =>
        \A i \in DOMAIN runs :
            i > arm.run /\ runs[i].disposition # "" => runs[i].sync # "done"
<1>1. Typed /\ InOrder /\ [Next]_vars => [Armed]_vars
  <2> SUFFICES ASSUME Typed, InOrder, [Next]_vars, ~armed, armed',
                      NEW i \in DOMAIN runs, i > arm.run, runs[i].disposition # Unsaid
               PROVE  runs[i].sync # "done"
    BY DEF Unsaid
  <2>1. TypeOK /\ i \in Runs /\ Judged(i)
    BY DEF Typed, Runs, Judged
  <2>2. arm.call = "enable"
    BY <2>1, OnlyEnableArms DEF Enable
  <2>3. arm.run \in Runs /\ Arming(arm.run) /\ Runs \subseteq Nat
    BY <2>1, <2>2, Numbers DEF Arming
  <2>4. Synced(i) => i < arm.run
    BY <2>1, <2>3 DEF InOrder, ArmsInOrder
  <2>5. QED BY <2>1, <2>3, <2>4 DEF Synced
<1>2. QED BY <1>1, TypedInit, TypedStep, OrderInit, OrderStep, PTL DEF Spec, NoStaleArm

-----------------------------------------------------------------------------
(* What an event's head and the head its gate read have to do with each       *)
(* other, as long as the branch is not pushed back: the gate reads after its   *)
(* event, so what it read is that head or a newer one, and auto-merge is       *)
(* bound to the event's head, which is then still the newest.               *)

At(v, rev) == v \in DOMAIN versions /\ versions[v].rev = rev
Behind(old, new) == \E u, v \in Nat : u <= v /\ At(u, old) /\ At(v, new)

Distinct == \A u, v \in DOMAIN versions : versions[u].rev = versions[v].rev => u = v
HeadsPushed == \A i \in Runs : \E u \in Nat : At(u, runs[i].head)
GateReadLater ==
    gate.call \notin {"none", "pull"} => Behind(runs[gate.run].head, gate.head)
GateRecorded == gate.call = "output" /\ gate.state = "success" => gate.head \in greened
Backed(i) == \E new \in greened : Behind(runs[i].head, new)
SaidGreen == \A i \in Runs : runs[i].disposition = "success" => Backed(i)
ArmsGreen == arm.call \in {"readNode", "enable", "squash"} => Backed(arm.run)

Grounded == /\ Distinct /\ HeadsPushed /\ GateReadLater /\ GateRecorded
            /\ SaidGreen /\ ArmsGreen /\ ArmedWasGreen

LEMMA GroundedInit == Init => Grounded
<1> SUFFICES ASSUME Init PROVE Grounded
  OBVIOUS
<1> DEFINE first == [rev |-> FirstHead, by |-> Author]
<1>1. /\ versions = <<first>> /\ runs = <<NewRun(FirstHead)>> /\ armedFor = {}
      /\ gate.call = "none" /\ arm.call = "none"
  BY IdleTypes DEF Init
<1>2. first.rev = FirstHead
  OBVIOUS
<1> HIDE DEF first
<1>3. DOMAIN versions = {1} /\ versions[1] = first /\ Runs = {1} /\ runs[1] = NewRun(FirstHead)
  BY <1>1 DEF Runs
<1>4. runs[1].head = FirstHead /\ runs[1].disposition = Unsaid
  BY <1>3, NewRuns
<1>5. Unsaid # "success"
  BY DEF Unsaid
<1>6. At(1, FirstHead)
  BY <1>2, <1>3 DEF At
<1>7. QED BY <1>1, <1>3, <1>4, <1>5, <1>6
          DEF Grounded, Distinct, HeadsPushed, GateReadLater, GateRecorded, SaidGreen, ArmsGreen,
              ArmedWasGreen

\* What the gate job does to the head it judges and to what it has said.
LEMMA GateEffects ==
    ASSUME TypeOK, GateStep \/ GateFails
    PROVE  /\ UNCHANGED <<versions, armedFor, arm>>
           /\ \/ /\ UNCHANGED <<runs, greened>>
                 /\ \/ gate.call = "none" /\ gate'.call = "pull"
                    \/ gate.call = "pull" /\ gate'.call = "files" /\ gate'.run = gate.run
                       /\ gate'.head = HeadOf
                    \/ gate.call \notin {"none", "pull", "status"}
                       /\ gate'.call \notin {"none", "output"}
                       /\ gate'.run = gate.run /\ gate'.head = gate.head
              \/ /\ gate.call = "status" /\ gate'.call = "output"
                 /\ gate'.run = gate.run /\ gate'.head = gate.head
                 /\ gate'.state = gate.state /\ UNCHANGED runs
                 /\ greened' = IF gate.state = "success" THEN greened \cup {gate.head} ELSE greened
              \/ gate.call # "none" /\ GateErrors /\ UNCHANGED greened
              \/ gate.call = "output" /\ GateEnds(gate.state) /\ UNCHANGED greened
<1>1. gate.call # "none" => gate \in GateJob
  BY DEF TypeOK
<1>2. UNCHANGED <<versions, armedFor, arm>>
  BY DEF GateStep, GateFails, StartGate, ReadPull, ReadFiles, RereadHead, Classify, AddLabel,
         RemoveLabel, ReadPullAgain, ReadActivity, ReadReviews, FindComment, PostComment,
         SetCommitStatus, Output, OnlyGate, merging, people
<1>3. ~SetCommitStatus => UNCHANGED greened
  BY DEF GateStep, GateFails, StartGate, ReadPull, ReadFiles, RereadHead, Classify, AddLabel,
         RemoveLabel, ReadPullAgain, ReadActivity, ReadReviews, FindComment, PostComment,
         Output, OnlyGate, notes
<1>4. CASE StartGate
  BY <1>2, <1>3, <1>4, IdleTypes DEF StartGate, SetCommitStatus, GateJob, IdleGate
<1>5. CASE ReadPull
  BY <1>1, <1>2, <1>3, <1>5 DEF ReadPull, OnlyGate, queues, SetCommitStatus, GateJob
<1>6. CASE SetCommitStatus
  BY <1>1, <1>2, <1>6 DEF SetCommitStatus, Goes, queues, GateJob
<1>7. CASE Output
  BY <1>2, <1>3, <1>7 DEF Output, SetCommitStatus
<1> DEFINE Keeps == /\ gate'.call \notin {"none", "output"} /\ gate'.run = gate.run /\ gate'.head = gate.head
                    /\ gate.call \notin {"none", "pull", "status"} /\ UNCHANGED runs
<1>8. CASE GateErrors /\ gate.call # "none"
  <2>1. gate'.call = "none"
    BY <1>8, IdleTypes DEF GateErrors, GateEnds
  <2>2. ~SetCommitStatus
    BY <1>1, <1>8, <2>1 DEF SetCommitStatus, Goes, GateJob
  <2>3. QED BY <1>2, <1>3, <1>8, <2>2
<1>9. ReadFiles \/ AddLabel \/ ReadPullAgain \/ PostComment => Keeps
  BY <1>1 DEF ReadFiles, AddLabel, ReadPullAgain, PostComment, OnlyGate, Goes, queues, GateJob
<1>10. ReadActivity => Keeps
  <2> SUFFICES ASSUME ReadActivity PROVE Keeps
    OBVIOUS
  <2>1. PICK v \in 0 .. Newest, complete \in BOOLEAN :
            gate' = [gate EXCEPT !.call = "reviews",
                       !.owner = /\ complete /\ FeedReaches(v)
                                 /\ OwnsEveryTouchedPackage(Content[gate.paths].paths,
                                                            {Author} \cup PushersUpTo(v))]
    BY DEF ReadActivity
  <2> DEFINE owner == /\ complete /\ FeedReaches(v)
                      /\ OwnsEveryTouchedPackage(Content[gate.paths].paths, {Author} \cup PushersUpTo(v))
  <2>2. gate' = [gate EXCEPT !.call = "reviews", !.owner = owner]
    BY <2>1
  <2> HIDE DEF owner
  <2>3. gate'.call = "reviews" /\ gate'.run = gate.run /\ gate'.head = gate.head
    BY <1>1, <2>2 DEF ReadActivity, GateJob
  <2>4. QED BY <2>3 DEF ReadActivity, OnlyGate, queues
<1>11. ReadReviews => Keeps
  <2> SUFFICES ASSUME ReadReviews PROVE Keeps
    OBVIOUS
  <2> DEFINE state == Disposition(gate.class, gate.owner, Eligible \cap ApproversOf(gate.head) # {})
  <2>1. gate' = [gate EXCEPT !.state = state, !.labels = {}, !.owner = FALSE,
                             !.call = IF state = "success" THEN "status" ELSE "findComment"]
    BY DEF ReadReviews
  <2> HIDE DEF state
  <2>2. gate'.call \notin {"none", "output"} /\ gate'.run = gate.run /\ gate'.head = gate.head
    BY <1>1, <2>1 DEF ReadReviews, GateJob
  <2>3. QED BY <2>2 DEF ReadReviews, OnlyGate, queues
<1>12. RemoveLabel => Keeps
  BY <1>1 DEF RemoveLabel, Goes, AfterLabels, GateJob, queues
<1>13. RereadHead => Keeps \/ (GateErrors /\ gate.call # "none")
  BY <1>1 DEF RereadHead, Goes, GateJob, queues
<1>14. Classify => Keeps \/ (GateErrors /\ gate.call # "none")
  <2> SUFFICES ASSUME Classify, ~GateErrors PROVE Keeps
    BY DEF Classify
  <2> DEFINE class == JudgedClass
  <2>1. gate' = [gate EXCEPT !.call = "label", !.class = class] /\ UNCHANGED queues
        /\ gate.call = "classify"
    BY DEF Classify
  <2> HIDE DEF class
  <2>2. QED BY <1>1, <2>1 DEF GateJob, queues
<1>15. FindComment => Keeps \/ (GateErrors /\ gate.call # "none")
  <2> SUFFICES ASSUME FindComment, ~GateErrors PROVE Keeps
    BY DEF FindComment
  <2>1. (Goes("postComment") \/ Goes("status")) /\ UNCHANGED queues /\ gate.call = "findComment"
    BY DEF FindComment
  <2>2. QED BY <1>1, <2>1 DEF GateJob, Goes, queues
<1>16. GateFails => GateErrors /\ gate.call # "none"
  BY DEF GateFails
<1>17. CASE Keeps
  <2>1. ~SetCommitStatus
    BY <1>17 DEF SetCommitStatus
  <2>2. QED BY <1>2, <1>3, <1>17, <2>1
<1> HIDE DEF Keeps
<1>18. QED BY <1>4, <1>5, <1>6, <1>7, <1>8, <1>9, <1>10, <1>11, <1>12, <1>13, <1>14, <1>15, <1>16,
              <1>17 DEF GateStep

\* A pull request's heads, and what was recorded of them, only grow; the head an
\* event delivered never changes.
LEMMA Grows ==
    ASSUME TypeOK, [Next]_vars
    PROVE  /\ DOMAIN versions \subseteq DOMAIN versions'
           /\ \A v \in DOMAIN versions : versions'[v] = versions[v]
           /\ greened \subseteq greened'
           /\ Runs \subseteq Runs' /\ \A i \in Runs : runs'[i].head = runs[i].head
<1>1. /\ DOMAIN versions = 1 .. Len(versions) /\ Len(versions) \in Nat /\ versions \in Seq(Version)
  BY RunsAre
<1>2. ASSUME NEW r \in Revisions, NEW a \in Accounts, Push(r, a)
      PROVE  /\ DOMAIN versions \subseteq DOMAIN versions'
             /\ \A v \in DOMAIN versions : versions'[v] = versions[v]
  <2> DEFINE version == [rev |-> r, by |-> a]
  <2>1. versions' = Append(versions, version) /\ version \in Version
    BY <1>2 DEF Push, Version
  <2> HIDE DEF version
  <2>2. versions' \in Seq(Version) /\ Len(versions') = Len(versions) + 1
        /\ \A v \in 1 .. Len(versions) : versions'[v] = versions[v]
    BY <1>1, <2>1
  <2>3. DOMAIN versions' = 1 .. Len(versions')
    BY <2>2
  <2>4. QED BY <1>1, <2>2, <2>3
<1>3. UNCHANGED versions \/ \E r \in Revisions, a \in Accounts : Push(r, a)
  <2>1. ArmStep \/ ArmFails => UNCHANGED versions
    BY DEF ArmStep, ArmFails, StartArm, ReadNode, Enable, Squash, ReadArmed, Disable, FinishArm, people
  <2>2. People \/ ChecksPass \/ MergeArmed =>
            UNCHANGED versions \/ \E r \in Revisions, a \in Accounts : Push(r, a)
    BY DEF People, Close, Reopen, ApproveHead, DismissReview, MergeByPerson, MergeArmed, Merge,
           ChecksPass
  <2>3. QED BY <2>1, <2>2, GateEffects DEF Next, vars, people
<1>4. greened \subseteq greened'
  <2>1. ArmStep \/ ArmFails => UNCHANGED greened
    BY DEF ArmStep, ArmFails, StartArm, ReadNode, Enable, Squash, ReadArmed, Disable, FinishArm, notes
  <2>2. People \/ ChecksPass \/ MergeArmed => UNCHANGED greened
    BY DEF People, Push, Close, Reopen, ApproveHead, DismissReview, MergeByPerson, MergeArmed, Merge,
           ChecksPass, OnlyPeople, notes
  <2>3. QED BY <2>1, <2>2, GateEffects DEF Next, vars, notes
<1>5. Runs \subseteq Runs' /\ \A i \in Runs : runs'[i].head = runs[i].head
  <2>1. ASSUME gate.call # "none", NEW d \in Said, GateEnds(d)
        PROVE  Runs \subseteq Runs' /\ \A i \in Runs : runs'[i].head = runs[i].head
    <3>1. PICK g \in Runs : g = gate.run
      BY <2>1, Numbers
    <3>2. runs' = [runs EXCEPT ![g].disposition = d]
      BY <2>1, <3>1 DEF GateEnds
    <3>3. Runs' = Runs
      BY <2>1, <3>2, Records
    <3>4. \A j \in Runs : runs'[j].head = runs[j].head
      BY <2>1, <3>2, Records
    <3>5. QED BY <3>3, <3>4
  <2>2. ASSUME arm.call # "none", NEW s \in {"done", "failed"}, ArmEnds(s)
        PROVE  Runs \subseteq Runs' /\ \A i \in Runs : runs'[i].head = runs[i].head
    <3>1. PICK k \in Runs : k = arm.run
      BY <2>2, Numbers
    <3>2. runs' = [runs EXCEPT ![k].sync = s] /\ s \in {"due", "done", "failed"}
      BY <2>2, <3>1 DEF ArmEnds
    <3>3. Runs' = Runs
      BY <2>2, <3>2, Syncs
    <3>4. \A j \in Runs : runs'[j].head = runs[j].head
      BY <2>2, <3>2, Syncs
    <3>5. QED BY <3>3, <3>4
  <2>3. ASSUME NEW r \in Revisions, Event(r)
        PROVE  Runs \subseteq Runs' /\ \A i \in Runs : runs'[i].head = runs[i].head
    BY <2>3, Queues
  <2>4. UNCHANGED runs => Runs \subseteq Runs' /\ \A i \in Runs : runs'[i].head = runs[i].head
    BY DEF Runs
  <2>5. GateStep \/ GateFails => UNCHANGED runs \/ (gate.call # "none" /\ \E d \in Said : GateEnds(d))
    BY GateGoes DEF queues
  <2>6. ASSUME ArmStep \/ ArmFails
        PROVE  UNCHANGED runs \/ (arm.call # "none" /\ \E s \in {"done", "failed"} : ArmEnds(s))
    BY <2>6, ArmCalls
  <2>7. ASSUME People \/ ChecksPass \/ MergeArmed
        PROVE  UNCHANGED runs \/ \E r \in Revisions : Event(r)
    <3>1. UNCHANGED queues => UNCHANGED runs
      BY DEF queues
    <3>2. QED BY <2>7, <3>1, PeopleQueue
  <2>8. UNCHANGED vars => UNCHANGED runs
    BY DEF vars, queues
  <2>9. QED BY <2>1, <2>2, <2>3, <2>4, <2>5, <2>6, <2>7, <2>8 DEF Next
<1>6. QED BY <1>2, <1>3, <1>4, <1>5

LEMMA StillBehind ==
    ASSUME TypeOK, [Next]_vars
    PROVE  /\ \A v, rev : At(v, rev) => At(v, rev)'
           /\ \A old, new : Behind(old, new) => Behind(old, new)'
           /\ \A i \in Runs : Backed(i) => Backed(i)'
<1>1. \A v, rev : At(v, rev) => At(v, rev)'
  BY Grows DEF At
<1>2. \A old, new : Behind(old, new) => Behind(old, new)'
  BY <1>1 DEF Behind
<1>3. ASSUME NEW i \in Runs, Backed(i) PROVE Backed(i)'
  <2>1. PICK new \in greened : Behind(runs[i].head, new)
    BY <1>3 DEF Backed
  <2>2. new \in greened' /\ runs'[i].head = runs[i].head
    BY <2>1, Grows
  <2>3. QED BY <1>2, <2>1, <2>2 DEF Backed
<1>4. QED BY <1>1, <1>2, <1>3

\* What a pull request's people do to its heads and to what was armed.
LEMMA PeopleEffects ==
    ASSUME TypeOK, People \/ ChecksPass \/ MergeArmed, AllowRewind = FALSE, Distinct
    PROVE  /\ Distinct' /\ UNCHANGED <<greened, armedFor, gate, arm>>
           /\ UNCHANGED runs \/ \E r \in Revisions : Event(r) /\ \E v \in Nat : At(v, r)'
<1>1. /\ DOMAIN versions = 1 .. Len(versions) /\ Len(versions) \in Nat /\ versions \in Seq(Version)
      /\ Newest \in DOMAIN versions /\ HeadOf = versions[Newest].rev
  BY RunsAre, HeadType
<1>2. UNCHANGED <<greened, armedFor, gate, arm>>
  BY DEF People, Push, Close, Reopen, ApproveHead, DismissReview, MergeByPerson, MergeArmed, Merge,
         ChecksPass, OnlyPeople, notes, merging
<1>3. ASSUME NEW r \in Revisions, NEW a \in Accounts, Push(r, a)
      PROVE  Distinct' /\ Event(r) /\ \E v \in Nat : At(v, r)'
  <2> DEFINE version == [rev |-> r, by |-> a]
  <2>1. versions' = Append(versions, version) /\ version \in Version /\ version.rev = r
        /\ Event(r) /\ \A i \in DOMAIN versions : versions[i].rev # r
    BY <1>3 DEF Push, Version
  <2> HIDE DEF version
  <2>2. versions' \in Seq(Version) /\ Len(versions') = Len(versions) + 1
        /\ (\A v \in 1 .. Len(versions) : versions'[v] = versions[v])
        /\ versions'[Len(versions) + 1] = version
    BY <1>1, <2>1
  <2>3. PICK n \in Nat : n = Len(versions) + 1
    BY <1>1
  <2>4. DOMAIN versions' = DOMAIN versions \cup {n}
    BY <1>1, <2>2, <2>3
  <2>5. versions'[n].rev = r /\ \A v \in DOMAIN versions : versions'[v] = versions[v]
    BY <1>1, <2>1, <2>2, <2>3
  <2>6. Distinct'
    BY <2>1, <2>4, <2>5 DEF Distinct
  <2>7. At(n, r)'
    BY <2>4, <2>5 DEF At
  <2>8. QED BY <2>1, <2>6, <2>7
<1>4. CASE Reopen
  <2>1. UNCHANGED versions /\ Event(HeadOf)
    BY <1>4 DEF Reopen
  <2>2. PICK r \in Revisions, v \in Nat : r = HeadOf /\ v = Newest
    BY <1>1, HeadType
  <2>3. At(v, r)'
    BY <1>1, <2>1, <2>2 DEF At
  <2>4. Event(r)
    BY <2>1, <2>2
  <2>5. QED BY <1>2, <2>1, <2>3, <2>4 DEF Distinct
<1>5. ASSUME Close \/ ChecksPass \/ Merge \/ (\E a \in Reviewers : ApproveHead(a))
             \/ \E e \in reviews : DismissReview(e)
      PROVE  UNCHANGED <<runs, versions>>
  BY <1>5 DEF Close, ChecksPass, Merge, ApproveHead, DismissReview, queues
<1>6. CASE \E r \in Revisions, a \in Accounts : Push(r, a)
  BY <1>2, <1>3, <1>6
<1>7. CASE UNCHANGED <<runs, versions>>
  BY <1>2, <1>7 DEF Distinct
<1>8. QED BY <1>4, <1>5, <1>6, <1>7 DEF People, MergeArmed, MergeByPerson

\* A step that adds no event keeps every head's version.
LEMMA HeadsKept ==
    ASSUME TypeOK, [Next]_vars, HeadsPushed, Runs' = Runs
    PROVE  HeadsPushed'
<1> SUFFICES ASSUME NEW i \in Runs PROVE \E u \in Nat : At(u, runs[i].head)'
  BY DEF HeadsPushed
<1>1. PICK u \in Nat : At(u, runs[i].head)
  BY DEF HeadsPushed
<1>2. PICK h : h = runs[i].head /\ h = runs'[i].head
  BY Grows
<1>3. At(u, h)'
  BY <1>1, <1>2, StillBehind
<1>4. QED BY <1>2, <1>3 DEF At

LEMMA GroundedGate ==
    ASSUME TypeOK, Grounded, GateStep \/ GateFails
    PROVE  Grounded'
<1> USE DEF Grounded
<1>1. [Next]_vars
  BY DEF Next
<1>2. UNCHANGED <<versions, armedFor, arm>> /\ greened \subseteq greened'
  BY <1>1, Grows, GateEffects
<1>3. Distinct' /\ ArmedWasGreen'
  BY <1>2 DEF Distinct, ArmedWasGreen
<1>4. ArmsGreen'
  <2>1. arm.call # "none" => arm.run \in Runs
    BY Numbers
  <2>2. SUFFICES ASSUME arm.call \in {"readNode", "enable", "squash"} PROVE Backed(arm.run)'
    BY <1>2 DEF ArmsGreen
  <2>3. PICK k \in Runs : k = arm.run /\ k = arm'.run
    BY <1>2, <2>1, <2>2
  <2>4. Backed(k)'
    BY <1>1, <2>2, <2>3, StillBehind DEF ArmsGreen
  <2>5. QED BY <2>3, <2>4 DEF Backed
<1>5. ASSUME UNCHANGED runs
      PROVE  Runs' = Runs /\ HeadsPushed' /\ SaidGreen'
  BY <1>1, <1>5, HeadsKept, StillBehind DEF SaidGreen, Runs
<1>6. ASSUME gate.call # "none", NEW d \in Said, GateEnds(d), UNCHANGED greened,
             d = "success" => Backed(gate.run)
      PROVE  Grounded'
  <2>1. PICK g \in Runs : g = gate.run
    BY <1>6, Numbers
  <2>2. Runs' = Runs /\ gate'.call = "none"
    BY <1>6, GateSpeaks
  <2>3. runs' = [runs EXCEPT ![g].disposition = d]
    BY <1>6, <2>1 DEF GateEnds
  <2>4. \A j \in Runs : runs'[j].disposition = IF j = g THEN d ELSE runs[j].disposition
    BY <1>6, <2>3, Records
  <2>5. \A j \in Runs : Backed(j) => Backed(j)'
    BY <1>1, StillBehind
  <2>6. SaidGreen'
    BY <1>6, <2>1, <2>2, <2>4, <2>5 DEF SaidGreen
  <2>7. GateReadLater' /\ GateRecorded'
    BY <2>2 DEF GateReadLater, GateRecorded
  <2>8. HeadsPushed'
    BY <1>1, <2>2, HeadsKept
  <2>9. QED BY <1>3, <1>4, <2>6, <2>7, <2>8
<1>7. CASE gate.call # "none" /\ GateErrors /\ UNCHANGED greened
  <2>1. Unsaid \in Said /\ GateEnds(Unsaid) /\ Unsaid # "success"
    BY <1>7 DEF GateErrors, Unsaid, Said
  <2>2. QED BY <1>6, <1>7, <2>1
<1>8. CASE gate.call = "output" /\ GateEnds(gate.state) /\ UNCHANGED greened
  <2>1. gate.state \in {"pending", "success"} /\ gate.head \in Revisions
    BY DEF TypeOK, GateJob
  <2>2. gate.state \in Said
    BY <2>1 DEF Said
  <2>3. gate.state = "success" => Backed(gate.run)
    BY <1>8 DEF GateReadLater, GateRecorded, Backed
  <2>4. QED BY <1>6, <1>8, <2>2, <2>3
<1>9. ASSUME gate.call \notin {"none", "pull"}, gate'.run = gate.run, gate'.head = gate.head,
             UNCHANGED runs
      PROVE  GateReadLater'
  <2>1. Behind(runs[gate.run].head, gate.head)
    BY <1>9 DEF GateReadLater
  <2>2. PICK h, new : h = runs[gate.run].head /\ new = gate.head
    OBVIOUS
  <2>3. Behind(h, new)'
    BY <1>1, <2>1, <2>2, StillBehind
  <2>4. h = runs'[gate'.run].head /\ new = gate'.head
    BY <1>9, <2>2
  <2>5. QED BY <2>3, <2>4 DEF GateReadLater, Behind, At
<1>10. CASE /\ UNCHANGED <<runs, greened>>
            /\ gate.call = "none" /\ gate'.call = "pull"
  BY <1>3, <1>4, <1>5, <1>10 DEF GateReadLater, GateRecorded
<1>11. CASE /\ UNCHANGED <<runs, greened>>
            /\ gate.call = "pull" /\ gate'.call = "files" /\ gate'.run = gate.run
            /\ gate'.head = HeadOf
  <2>1. PICK g \in Runs : g = gate.run
    BY <1>11, Numbers
  <2>2. PICK u \in Nat : At(u, runs[g].head)
    BY DEF HeadsPushed
  <2>3. Newest \in Nat /\ Newest \in DOMAIN versions /\ u <= Newest /\ HeadOf = versions[Newest].rev
    BY <2>2, HeadType, RunsAre DEF At, Newest
  <2>4. Behind(runs[gate.run].head, gate.head)'
    BY <1>2, <1>11, <2>1, <2>2, <2>3 DEF Behind, At
  <2>5. GateReadLater' /\ GateRecorded'
    BY <1>11, <2>4 DEF GateReadLater, GateRecorded
  <2>6. QED BY <1>3, <1>4, <1>5, <1>11, <2>5
<1>12. CASE /\ UNCHANGED <<runs, greened>>
            /\ gate.call \notin {"none", "pull", "status"} /\ gate'.call \notin {"none", "output"}
            /\ gate'.run = gate.run /\ gate'.head = gate.head
  <2>1. GateReadLater' /\ GateRecorded'
    BY <1>9, <1>12 DEF GateRecorded
  <2>2. QED BY <1>3, <1>4, <1>5, <1>12, <2>1
<1>13. CASE /\ gate.call = "status" /\ gate'.call = "output" /\ gate'.run = gate.run /\ gate'.head = gate.head
            /\ gate'.state = gate.state /\ UNCHANGED runs
            /\ greened' = IF gate.state = "success" THEN greened \cup {gate.head} ELSE greened
  <2>1. GateReadLater' /\ GateRecorded'
    BY <1>9, <1>13 DEF GateRecorded
  <2>2. QED BY <1>3, <1>4, <1>5, <1>13, <2>1
<1>14. QED BY <1>7, <1>8, <1>10, <1>11, <1>12, <1>13, GateEffects

\* Arming is bound to the event's head: where that is the newest head still, it
\* is the very head the run's gate recorded green.
LEMMA ArmedOnGreen ==
    ASSUME TypeOK, Grounded, arm.call \in {"enable", "squash"}, HeadOf = EventHead
    PROVE  EventHead \in greened
<1>1. PICK new \in greened, u \in Nat, v \in Nat :
          u <= v /\ At(u, runs[arm.run].head) /\ At(v, new)
  BY DEF Grounded, ArmsGreen, Backed, Behind
<1>2. PICK n \in Nat : DOMAIN versions = 1 .. n /\ n \in DOMAIN versions /\ HeadOf = versions[n].rev
  BY RunsAre, HeadType DEF Newest
<1>3. u = n
  <2>1. u \in DOMAIN versions /\ versions[u].rev = EventHead
    BY <1>1 DEF At, EventHead
  <2>2. versions[n].rev = EventHead
    BY <1>2
  <2>3. QED BY <1>2, <2>1, <2>2 DEF Grounded, Distinct
<1>4. v \in 1 .. n /\ versions[v].rev = new
  BY <1>1, <1>2 DEF At
<1>5. v = n
  BY <1>1, <1>2, <1>3, <1>4
<1>6. QED BY <1>1, <1>2, <1>4, <1>5

LEMMA GroundedArm ==
    ASSUME TypeOK, Grounded, ArmStep \/ ArmFails
    PROVE  Grounded'
<1> USE DEF Grounded
<1>1. [Next]_vars
  BY DEF Next
<1>2. UNCHANGED <<versions, greened, gate>>
  <2>1. StartArm \/ ArmFails \/ FinishArm \/ ReadNode \/ ReadArmed => UNCHANGED <<versions, greened, gate>>
    BY DEF ArmFails, StartArm, ReadNode, ReadArmed, FinishArm, people, notes
  <2>2. Enable \/ Squash \/ Disable => UNCHANGED <<versions, greened, gate>>
    BY DEF Enable, Squash, Disable, people, notes
  <2>3. QED BY <2>1, <2>2 DEF ArmStep
<1>3. Distinct'
  BY <1>2 DEF Distinct
<1>4. Runs' = Runs /\ \A j \in Runs : runs'[j].disposition = runs[j].disposition
  <2>1. ASSUME arm.call # "none", NEW s \in {"done", "failed"}, ArmEnds(s)
        PROVE  Runs' = Runs /\ \A j \in Runs : runs'[j].disposition = runs[j].disposition
    <3>1. PICK k \in Runs : k = arm.run
      BY <2>1, Numbers
    <3>2. runs' = [runs EXCEPT ![k].sync = s] /\ s \in {"due", "done", "failed"}
      BY <2>1, <3>1 DEF ArmEnds
    <3>3. Runs' = Runs
      BY <3>2, Syncs
    <3>4. \A j \in Runs : runs'[j].disposition = runs[j].disposition
      BY <3>2, Syncs
    <3>5. QED BY <3>3, <3>4
  <2>2. UNCHANGED runs => Runs' = Runs /\ \A j \in Runs : runs'[j].disposition = runs[j].disposition
    BY DEF Runs
  <2>3. UNCHANGED runs \/ (arm.call # "none" /\ \E s \in {"done", "failed"} : ArmEnds(s))
    BY ArmCalls
  <2>4. QED BY <2>1, <2>2, <2>3
<1>5. HeadsPushed'
  BY <1>1, <1>4, HeadsKept
<1>6. SaidGreen'
  BY <1>1, <1>4, StillBehind DEF SaidGreen
<1>7. GateReadLater' /\ GateRecorded'
  <2>1. GateRecorded'
    BY <1>2 DEF GateRecorded
  <2>2. ASSUME gate.call \notin {"none", "pull"}
        PROVE  Behind(runs[gate.run].head, gate.head)'
    <3>1. PICK g \in Runs : g = gate.run
      BY <2>2, Numbers
    <3>2. PICK h, new : h = runs[g].head /\ new = gate.head
      OBVIOUS
    <3>3. Behind(h, new)'
      BY <1>1, <2>2, <3>1, <3>2, StillBehind DEF GateReadLater
    <3>4. h = runs'[gate'.run].head /\ new = gate'.head
      BY <1>1, <1>2, <3>1, <3>2, Grows
    <3>5. QED BY <3>3, <3>4 DEF Behind, At
  <2>3. QED BY <1>2, <2>1, <2>2 DEF GateReadLater
<1>8. ArmsGreen'
  <2>1. SUFFICES ASSUME arm'.call \in {"readNode", "enable", "squash"}
                 PROVE  \E k \in Runs : k = arm'.run /\ Backed(k)
    BY <1>1, StillBehind DEF ArmsGreen, Backed
  <2>2. CASE arm.call = "none"
    <3>1. PICK i \in armQueue : arm'.run = i /\ runs[i].disposition = "success"
      BY <2>1, <2>2, ArmCalls
    <3>2. i \in Runs
      BY <3>1, Numbers
    <3>3. QED BY <3>1, <3>2 DEF SaidGreen
  <2>3. CASE arm.call # "none"
    <3>1. arm'.call # "none"
      BY <2>1
    <3>2. ~ \E s \in {"done", "failed"} : ArmEnds(s)
      BY <3>1, IdleTypes DEF ArmEnds
    <3>3. arm'.run = arm.run /\ arm.call \in {"readNode", "enable"} /\ arm.run \in Runs
      BY <2>1, <2>3, <3>2, ArmCalls, Numbers
    <3>4. QED BY <3>3 DEF ArmsGreen
  <2>4. QED BY <2>2, <2>3
<1>9. ArmedWasGreen'
  <2>1. CASE UNCHANGED armedFor
    BY <1>2, <2>1 DEF ArmedWasGreen
  <2>2. CASE ~ UNCHANGED armedFor
    <3>1. armedFor' = armedFor \cup {EventHead} /\ HeadOf = EventHead
          /\ arm.call \in {"enable", "squash"}
      BY <2>2 DEF ArmStep, ArmFails, StartArm, ReadNode, Enable, Squash, ReadArmed, Disable, FinishArm,
                  merging
    <3>2. QED BY <1>2, <3>1, ArmedOnGreen DEF ArmedWasGreen
  <2>3. QED BY <2>1, <2>2
<1>10. QED BY <1>3, <1>5, <1>6, <1>7, <1>8, <1>9

LEMMA GroundedPeople ==
    ASSUME TypeOK, Grounded, AllowRewind = FALSE, People \/ ChecksPass \/ MergeArmed
    PROVE  Grounded'
<1> USE DEF Grounded
<1>1. [Next]_vars
  BY DEF Next
<1>2. Distinct' /\ UNCHANGED <<greened, armedFor, gate, arm>>
      /\ (UNCHANGED runs \/ \E r \in Revisions : Event(r) /\ \E v \in Nat : At(v, r)')
  BY PeopleEffects
<1>3. ArmedWasGreen' /\ GateRecorded'
  BY <1>2 DEF ArmedWasGreen, GateRecorded
<1>4. GateReadLater'
  <2>1. SUFFICES ASSUME gate.call \notin {"none", "pull"}
                 PROVE  Behind(runs[gate.run].head, gate.head)'
    BY <1>2 DEF GateReadLater
  <2>2. PICK g \in Runs : g = gate.run
    BY <2>1, Numbers
  <2>3. PICK h, new : h = runs[g].head /\ new = gate.head
    OBVIOUS
  <2>4. Behind(h, new)'
    BY <1>1, <2>1, <2>2, <2>3, StillBehind DEF GateReadLater
  <2>5. h = runs'[gate'.run].head /\ new = gate'.head
    BY <1>1, <1>2, <2>2, <2>3, Grows
  <2>6. QED BY <2>4, <2>5 DEF Behind, At
<1>5. ArmsGreen'
  <2>1. SUFFICES ASSUME arm.call \in {"readNode", "enable", "squash"} PROVE Backed(arm.run)'
    BY <1>2 DEF ArmsGreen
  <2>2. PICK k \in Runs : k = arm.run /\ k = arm'.run
    BY <1>2, <2>1, Numbers
  <2>3. Backed(k)'
    BY <1>1, <2>1, <2>2, StillBehind DEF ArmsGreen
  <2>4. QED BY <2>2, <2>3 DEF Backed
<1>6. HeadsPushed' /\ SaidGreen'
  <2>1. CASE UNCHANGED runs
    BY <1>1, <2>1, HeadsKept, StillBehind DEF SaidGreen, Runs
  <2>2. ASSUME NEW r \in Revisions, Event(r), NEW v \in Nat, At(v, r)'
        PROVE  HeadsPushed' /\ SaidGreen'
    <3>1. PICK n : /\ Runs' = Runs \cup {n} /\ n \notin Runs /\ \A i \in Runs : runs'[i] = runs[i]
                   /\ runs'[n] = NewRun(r)
      BY <2>2, Queues
    <3>2. runs'[n].head = r /\ runs'[n].disposition # "success"
      <4>1. Unsaid # "success"
        BY DEF Unsaid
      <4>2. QED BY <3>1, <4>1, NewRuns
    <3>3. SaidGreen'
      BY <1>1, <3>1, <3>2, StillBehind DEF SaidGreen
    <3>4. ASSUME NEW i \in Runs PROVE \E u \in Nat : At(u, runs[i].head)'
      <4>1. PICK h : h = runs[i].head /\ h = runs'[i].head
        BY <3>1
      <4>2. PICK u \in Nat : At(u, h)
        BY <4>1 DEF HeadsPushed
      <4>3. At(u, h)'
        BY <1>1, <4>2, StillBehind
      <4>4. QED BY <4>1, <4>3 DEF At
    <3>5. \E u \in Nat : At(u, runs[n].head)'
      BY <2>2, <3>2 DEF At
    <3>6. QED BY <3>1, <3>3, <3>4, <3>5 DEF HeadsPushed
  <2>3. QED BY <1>2, <2>1, <2>2
<1>7. QED BY <1>2, <1>3, <1>4, <1>5, <1>6

LEMMA GroundedStep == AllowRewind = FALSE => (Typed /\ Grounded /\ [Next]_vars => Grounded')
<1> SUFFICES ASSUME AllowRewind = FALSE, Typed, Grounded, [Next]_vars PROVE Grounded'
  OBVIOUS
<1>1. TypeOK
  BY DEF Typed
<1>2. CASE UNCHANGED vars
  BY <1>2 DEF vars, people, notes, merging, queues, Grounded, Distinct, HeadsPushed, GateReadLater,
              GateRecorded, SaidGreen, ArmsGreen, ArmedWasGreen, Backed, Behind, At, Runs
<1>3. QED BY <1>1, <1>2, GroundedGate, GroundedArm, GroundedPeople DEF Next

\* As long as no branch is pushed back to a revision it had, auto-merge is never
\* armed, and nothing squashed, for a revision no gate recorded green, although
\* the arm job is handed the event's head and the disposition of another.
THEOREM ArmedAlwaysGreen ==
    ASSUME AllowRewind = FALSE
    PROVE  Spec => []ArmedWasGreen
<1>1. Grounded => ArmedWasGreen
  BY DEF Grounded
<1>2. Typed /\ Grounded /\ [Next]_vars => Grounded'
  BY GroundedStep
<1>3. QED BY <1>1, <1>2, TypedInit, TypedStep, GroundedInit, PTL DEF Spec

-----------------------------------------------------------------------------
(* Why a revision is green: every fact the gate judged it by is about the      *)
(* revision it recorded.  The files are listed between two reads of the head   *)
(* that agree, the reviews are of that commit, and the activity feed has       *)
(* reached it.                                                             *)

Owned(r) ==
    /\ ~FromFork
    /\ \E v \in Nat : At(v, r) /\ OwnsEveryTouchedPackage(Content[r].paths,
                                                          {Author} \cup PushersUpTo(v))

\* A review stands for the version it was given for.
Approved ==
    /\ \A a \in approvals : a.at \in DOMAIN versions
    /\ \A e \in reviews : \E a \in approvals : a.by = e.by /\ versions[a.at].rev = e.rev

JobIsRight ==
    /\ gate.call = "reread" => Behind(gate.head, gate.paths)
    /\ gate.call \notin {"none", "pull", "files", "reread"} => gate.paths = gate.head
    /\ gate.call \notin {"none", "pull", "files", "reread", "classify"} =>
           gate.class = LaneOf[gate.head]
    /\ gate.call = "activity" => ~FromFork
    /\ gate.owner => gate.call = "reviews" /\ Owned(gate.head)
    /\ gate.state = "success" => gate.call \in {"status", "output"} /\ Earned(gate.head)

Right == Approved /\ JobIsRight /\ GreenIsEarned

LEMMA RightInit == Init => Right
  BY DEF Init, Right, Approved, JobIsRight, GreenIsEarned, IdleGate

LEMMA PeopleKept ==
    ASSUME [Next]_vars
    PROVE  /\ approvals \subseteq approvals'
           /\ GateStep \/ GateFails \/ ArmStep \/ ArmFails => UNCHANGED <<versions, reviews, approvals>>
<1>1. GateStep \/ GateFails => UNCHANGED <<versions, reviews, approvals>>
  BY DEF GateStep, GateFails, StartGate, ReadPull, ReadFiles, RereadHead, Classify, AddLabel,
         RemoveLabel, ReadPullAgain, ReadActivity, ReadReviews, FindComment, PostComment,
         SetCommitStatus, Output, OnlyGate, people
<1>2. StartArm \/ ArmFails \/ FinishArm \/ ReadNode \/ ReadArmed =>
          UNCHANGED <<versions, reviews, approvals>>
  BY DEF ArmFails, StartArm, ReadNode, ReadArmed, FinishArm, people
<1>3. Enable \/ Squash \/ Disable => UNCHANGED <<versions, reviews, approvals>>
  BY DEF Enable, Squash, Disable, people
<1>4. People \/ ChecksPass \/ MergeArmed => approvals \subseteq approvals'
  BY DEF People, Push, Close, Reopen, ApproveHead, DismissReview, MergeByPerson, MergeArmed, Merge,
         ChecksPass
<1>5. UNCHANGED vars => UNCHANGED approvals
  BY DEF vars, people
<1>6. QED BY <1>1, <1>2, <1>3, <1>4, <1>5 DEF Next, ArmStep

\* What a revision was green for stays so.
LEMMA EarnedKept ==
    ASSUME TypeOK, [Next]_vars, Approved
    PROVE  \A r : (Owned(r) => Owned(r)') /\ (Earned(r) => Earned(r)')
<1>1. \A v \in DOMAIN versions : PushersUpTo(v)' = PushersUpTo(v)
  <2> SUFFICES ASSUME NEW v \in DOMAIN versions PROVE PushersUpTo(v)' = PushersUpTo(v)
    OBVIOUS
  <2>1. v \in Nat /\ 1 .. v \subseteq DOMAIN versions
    BY RunsAre
  <2>2. \A i \in 1 .. v : versions'[i] = versions[i]
    BY <2>1, Grows
  <2>3. QED BY <2>2 DEF PushersUpTo
<1>2. ASSUME NEW r, Owned(r) PROVE Owned(r)'
  <2>1. PICK v \in Nat : /\ At(v, r)
                         /\ OwnsEveryTouchedPackage(Content[r].paths, {Author} \cup PushersUpTo(v))
    BY <1>2 DEF Owned
  <2>2. PushersUpTo(v)' = PushersUpTo(v) /\ At(v, r)'
    BY <1>1, <2>1, StillBehind DEF At
  <2>3. PICK pushers : pushers = PushersUpTo(v) /\ pushers = PushersUpTo(v)'
    BY <2>2
  <2>4. OwnsEveryTouchedPackage(Content[r].paths, {Author} \cup PushersUpTo(v))'
    BY <2>1, <2>3 DEF OwnsEveryTouchedPackage
  <2>5. QED BY <1>2, <2>2, <2>4 DEF Owned
<1>3. ASSUME NEW r, Earned(r) PROVE Earned(r)'
  <2>1. PICK v \in DOMAIN versions :
            /\ versions[v].rev = r
            /\ \/ \E e \in approvals : e.by \in Eligible /\ versions[e.at].rev = r
               \/ LaneOf[r] = "refresh" /\ AutoMerge = "always"
               \/ /\ LaneOf[r] = "refresh" /\ AutoMerge = "owners" /\ ~FromFork
                  /\ OwnsEveryTouchedPackage(Content[r].paths, {Author} \cup PushersUpTo(v))
    BY <1>3 DEF Earned
  <2>2. v \in DOMAIN versions' /\ versions'[v].rev = r
    BY <2>1, Grows
  <2>3. CASE \E e \in approvals : e.by \in Eligible /\ versions[e.at].rev = r
    <3>1. PICK e \in approvals : e.by \in Eligible /\ versions[e.at].rev = r
      BY <2>3
    <3>2. e \in approvals' /\ versions'[e.at].rev = r
      BY <3>1, Grows, PeopleKept DEF Approved
    <3>3. QED BY <2>2, <3>1, <3>2 DEF Earned
  <2>4. CASE LaneOf[r] = "refresh" /\ AutoMerge = "always"
    BY <2>2, <2>4 DEF Earned
  <2>5. CASE /\ LaneOf[r] = "refresh" /\ AutoMerge = "owners" /\ ~FromFork
             /\ OwnsEveryTouchedPackage(Content[r].paths, {Author} \cup PushersUpTo(v))
    <3>1. PICK pushers : pushers = PushersUpTo(v) /\ pushers = PushersUpTo(v)'
      BY <1>1, <2>1
    <3>2. OwnsEveryTouchedPackage(Content[r].paths, {Author} \cup PushersUpTo(v))'
      BY <2>5, <3>1 DEF OwnsEveryTouchedPackage
    <3>3. QED BY <2>2, <2>5, <3>2 DEF Earned
  <2>6. QED BY <2>1, <2>3, <2>4, <2>5
<1>4. QED BY <1>2, <1>3

LEMMA ApprovedStep ==
    ASSUME TypeOK, [Next]_vars, Approved
    PROVE  Approved'
<1>1. \A a \in approvals : a.at \in DOMAIN versions' /\ versions'[a.at] = versions[a.at]
  BY Grows DEF Approved
<1>2. CASE UNCHANGED approvals /\ reviews' \subseteq reviews
  BY <1>1, <1>2 DEF Approved
<1>3. ASSUME NEW p \in Reviewers, ApproveHead(p) PROVE Approved'
  <2>1. /\ Newest \in DOMAIN versions /\ HeadOf = versions[Newest].rev /\ UNCHANGED versions
        /\ reviews' = reviews \cup {[by |-> p, rev |-> HeadOf]}
        /\ approvals' = approvals \cup {[by |-> p, at |-> Newest]}
    BY <1>3, HeadType DEF ApproveHead
  <2>2. \A a \in approvals' : a.at \in DOMAIN versions'
    BY <1>1, <2>1
  <2>3. ASSUME NEW e \in reviews
        PROVE  \E a \in approvals' : a.by = e.by /\ versions'[a.at].rev = e.rev
    BY <1>1, <2>1 DEF Approved
  <2>4. \E a \in approvals' : a.by = p /\ versions'[a.at].rev = HeadOf
    <3>1. [by |-> p, at |-> Newest] \in approvals'
      BY <2>1
    <3>2. QED BY <2>1, <3>1
  <2>5. QED BY <2>1, <2>2, <2>3, <2>4 DEF Approved
<1>4. (\E r \in Revisions, a \in Accounts : Push(r, a)) => UNCHANGED <<approvals, reviews>>
  BY DEF Push
<1>5. Close \/ Reopen \/ ChecksPass \/ Merge \/ (\E e \in reviews : DismissReview(e)) =>
          UNCHANGED approvals /\ reviews' \subseteq reviews
  BY DEF Close, Reopen, ChecksPass, Merge, DismissReview
<1>6. UNCHANGED vars => UNCHANGED <<approvals, reviews>>
  BY DEF vars, people
<1>7. QED BY <1>2, <1>3, <1>4, <1>5, <1>6, PeopleKept DEF Next, People, MergeArmed, MergeByPerson

\* What makes the next job right, said of this state.
LEMMA NextJob ==
    ASSUME TypeOK, [Next]_vars, Approved,
           gate'.call = "reread" => Behind(gate'.head, gate'.paths),
           gate'.call \notin {"none", "pull", "files", "reread"} => gate'.paths = gate'.head,
           gate'.call \notin {"none", "pull", "files", "reread", "classify"} =>
               gate'.class = LaneOf[gate'.head],
           gate'.call = "activity" => ~FromFork,
           gate'.owner => gate'.call = "reviews" /\ Owned(gate'.head),
           gate'.state = "success" => gate'.call \in {"status", "output"} /\ Earned(gate'.head)
    PROVE  JobIsRight'
<1>1. PICK head, paths : head = gate'.head /\ paths = gate'.paths
  OBVIOUS
<1>2. gate'.call = "reread" => Behind(head, paths)'
  BY <1>1, StillBehind
<1>3. gate'.owner => gate'.call = "reviews" /\ Owned(head)'
  BY <1>1, EarnedKept
<1>4. gate'.state = "success" => gate'.call \in {"status", "output"} /\ Earned(head)'
  BY <1>1, EarnedKept
<1>5. gate'.call = "reread" => Behind(gate.head, gate.paths)'
  BY <1>1, <1>2 DEF Behind, At
<1>6. gate'.owner => Owned(gate.head)'
  BY <1>1, <1>3 DEF Owned, At
<1>7. gate'.state = "success" => Earned(gate.head)'
  BY <1>1, <1>4 DEF Earned
<1>8. LaneOf' = LaneOf
  BY DEF LaneOf
<1>9. QED BY <1>3, <1>4, <1>5, <1>6, <1>7, <1>8 DEF JobIsRight

\* The head read twice: what the files were listed from in between is that head.
LEMMA FilesOfTheHead ==
    ASSUME TypeOK, Grounded, JobIsRight, gate.call = "reread", HeadOf = gate.head
    PROVE  gate.paths = gate.head
<1>1. PICK u \in Nat, v \in Nat : u <= v /\ At(u, gate.head) /\ At(v, gate.paths)
  BY DEF JobIsRight, Behind
<1>2. PICK n \in Nat : DOMAIN versions = 1 .. n /\ n \in DOMAIN versions /\ HeadOf = versions[n].rev
  BY RunsAre, HeadType DEF Newest
<1>3. u = n
  <2>1. u \in DOMAIN versions /\ versions[u].rev = gate.head
    BY <1>1 DEF At
  <2>2. QED BY <1>2, <2>1 DEF Grounded, Distinct
<1>4. v \in 1 .. n /\ versions[v].rev = gate.paths
  BY <1>1, <1>2 DEF At
<1>5. v = n
  BY <1>1, <1>2, <1>3, <1>4
<1>6. QED BY <1>2, <1>4, <1>5

\* An owner's push, as far as the feed tells it.
LEMMA OwnerOfTheHead ==
    ASSUME TypeOK, ~FromFork, NEW v \in 0 .. Newest, FeedReaches(v), gate.paths = gate.head,
           OwnsEveryTouchedPackage(Content[gate.paths].paths, {Author} \cup PushersUpTo(v))
    PROVE  Owned(gate.head)
<1>1. v \in Nat /\ v <= Len(versions) /\ DOMAIN versions = 1 .. Len(versions) /\ Len(versions) \in Nat
  BY RunsAre DEF Newest
<1>2. PICK i \in 1 .. v : versions[i].rev = gate.head
  BY DEF FeedReaches
<1>3. i \in Nat /\ i \in DOMAIN versions /\ 1 .. i \subseteq 1 .. v
  BY <1>1
<1>4. PushersUpTo(i) \subseteq PushersUpTo(v)
  BY <1>3 DEF PushersUpTo
<1>5. OwnsEveryTouchedPackage(Content[gate.head].paths, {Author} \cup PushersUpTo(i))
  BY <1>4 DEF OwnsEveryTouchedPackage
<1>6. QED BY <1>2, <1>3, <1>5 DEF Owned, At

\* What the gate turns green it has a reason for.
LEMMA SuccessIsEarned ==
    ASSUME TypeOK, Grounded, Right, gate.call = "reviews",
           Disposition(gate.class, gate.owner, Eligible \cap ApproversOf(gate.head) # {}) = "success"
    PROVE  Earned(gate.head)
<1>1. PICK v \in Nat : At(v, gate.head)
  BY DEF Grounded, GateReadLater, Behind
<1>2. gate.class = LaneOf[gate.head]
  BY DEF Right, JobIsRight
<1>3. \/ Eligible \cap ApproversOf(gate.head) # {}
      \/ gate.class = "refresh" /\ AutoMerge = "always"
      \/ gate.class = "refresh" /\ AutoMerge = "owners" /\ gate.owner
  BY DEF Disposition
<1>4. CASE Eligible \cap ApproversOf(gate.head) # {}
  <2>1. PICK e \in reviews : e.rev = gate.head /\ e.by \in Eligible
    BY <1>4 DEF ApproversOf
  <2>2. PICK a \in approvals : a.by = e.by /\ versions[a.at].rev = e.rev
    BY DEF Right, Approved
  <2>3. QED BY <1>1, <2>1, <2>2 DEF Earned, At
<1>5. CASE gate.class = "refresh" /\ AutoMerge = "always"
  BY <1>1, <1>2, <1>5 DEF Earned, At
<1>6. CASE gate.class = "refresh" /\ AutoMerge = "owners" /\ gate.owner
  <2>1. Owned(gate.head)
    BY <1>6 DEF Right, JobIsRight
  <2>2. PICK w \in Nat : /\ At(w, gate.head)
                         /\ OwnsEveryTouchedPackage(Content[gate.head].paths,
                                                    {Author} \cup PushersUpTo(w))
    BY <2>1 DEF Owned
  <2>3. QED BY <1>2, <1>6, <2>1, <2>2 DEF Earned, At, Owned
<1>7. QED BY <1>3, <1>4, <1>5, <1>6

LEMMA JobStep ==
    ASSUME TypeOK, Grounded, Right, GateStep \/ GateFails
    PROVE  JobIsRight'
<1>1. [Next]_vars /\ Approved
  BY DEF Next, Right
<1>2. JobIsRight /\ (gate.call # "none" => gate \in GateJob)
  BY DEF Right, TypeOK
<1>3. CASE gate'.call = "none" /\ ~gate'.owner /\ gate'.state = "pending"
  BY <1>1, <1>3, NextJob
<1>4. \A d : GateEnds(d) => gate'.call = "none" /\ ~gate'.owner /\ gate'.state = "pending"
  BY DEF GateEnds, IdleGate
<1>5. GateErrors => gate'.call = "none" /\ ~gate'.owner /\ gate'.state = "pending"
  BY <1>4 DEF GateErrors
<1>6. CASE StartGate
  <2>1. gate'.call = "pull" /\ ~gate'.owner /\ gate'.state = "pending"
    BY <1>6 DEF StartGate, IdleGate
  <2>2. QED BY <1>1, <2>1, NextJob
<1>7. CASE ReadPull
  <2>1. gate'.call = "files" /\ gate'.owner = gate.owner /\ gate'.state = gate.state
    BY <1>2, <1>7 DEF ReadPull, GateJob
  <2>2. ~gate.owner /\ gate.state # "success"
    BY <1>2, <1>7 DEF ReadPull, JobIsRight
  <2>3. QED BY <1>1, <2>1, <2>2, NextJob
<1>8. CASE ReadFiles
  <2>1. /\ gate'.call = "reread" /\ gate'.owner = gate.owner /\ gate'.state = gate.state
        /\ gate'.head = gate.head /\ gate'.paths = HeadOf
    BY <1>2, <1>8 DEF ReadFiles, GateJob
  <2>2. ~gate.owner /\ gate.state # "success"
    BY <1>2, <1>8 DEF ReadFiles, JobIsRight
  <2>3. PICK n \in Nat : DOMAIN versions = 1 .. n /\ n \in DOMAIN versions /\ HeadOf = versions[n].rev
    BY RunsAre, HeadType DEF Newest
  <2>4. PICK v \in Nat : At(v, gate.head)
    BY <1>8 DEF ReadFiles, Grounded, GateReadLater, Behind
  <2>5. Behind(gate.head, HeadOf)
    BY <2>3, <2>4 DEF Behind, At
  <2>6. QED BY <1>1, <2>1, <2>2, <2>5, NextJob
<1>9. CASE RereadHead /\ ~GateErrors
  <2>1. /\ gate'.call = "classify" /\ gate'.owner = gate.owner /\ gate'.state = gate.state
        /\ gate'.head = gate.head /\ gate'.paths = gate.paths /\ HeadOf = gate.head
    BY <1>2, <1>9 DEF RereadHead, Goes, GateJob
  <2>2. ~gate.owner /\ gate.state # "success" /\ gate.call = "reread"
    BY <1>2, <1>9 DEF RereadHead, JobIsRight
  <2>3. gate.paths = gate.head
    BY <1>2, <2>1, <2>2, FilesOfTheHead
  <2>4. QED BY <1>1, <2>1, <2>2, <2>3, NextJob
<1>10. CASE Classify /\ ~GateErrors
  <2>1. gate' = [gate EXCEPT !.call = "label", !.class = JudgedClass] /\ gate.call = "classify"
    BY <1>10 DEF Classify
  <2>2. ~gate.owner /\ gate.state # "success" /\ gate.paths = gate.head
    BY <1>2, <2>1 DEF JobIsRight
  <2>3. JudgedClass = LaneOf[gate.head]
    BY <1>2, <2>1, <2>2 DEF JudgedClass, LaneOf, GateJob
  <2> DEFINE class == JudgedClass
  <2> HIDE DEF class
  <2>4. gate' = [gate EXCEPT !.call = "label", !.class = class]
    BY <2>1 DEF class
  <2>5. /\ gate'.call = "label" /\ gate'.owner = gate.owner /\ gate'.state = gate.state
        /\ gate'.head = gate.head /\ gate'.paths = gate.paths /\ gate'.class = class
    BY <1>2, <2>1, <2>4 DEF GateJob
  <2>6. QED BY <1>1, <2>2, <2>3, <2>5, NextJob DEF class
<1>11. ASSUME gate.call \notin {"none", "pull", "files", "reread", "classify", "reviews"},
              gate'.head = gate.head, gate'.paths = gate.paths, gate'.class = gate.class,
              gate'.owner = gate.owner, gate'.state = gate.state,
              gate'.call \notin {"reread", "activity"},
              gate.call \in {"status", "output"} => gate'.call \in {"status", "output"}
       PROVE  JobIsRight'
  <2>1. gate.paths = gate.head /\ gate.class = LaneOf[gate.head] /\ ~gate.owner
        /\ (gate.state = "success" => gate.call \in {"status", "output"} /\ Earned(gate.head))
    BY <1>2, <1>11 DEF JobIsRight
  <2>2. QED BY <1>1, <1>11, <2>1, NextJob
<1>12. CASE AddLabel \/ PostComment \/ SetCommitStatus
  BY <1>2, <1>11, <1>12 DEF AddLabel, PostComment, SetCommitStatus, Goes, GateJob
<1>13. CASE RemoveLabel
  BY <1>2, <1>11, <1>13 DEF RemoveLabel, Goes, AfterLabels, GateJob
<1>14. CASE FindComment /\ ~GateErrors
  <2>1. (Goes("postComment") \/ Goes("status")) /\ gate.call = "findComment"
    BY <1>14 DEF FindComment
  <2>2. QED BY <1>2, <1>11, <2>1 DEF Goes, GateJob
<1>15. CASE ReadPullAgain
  <2>1. gate.call = "pullAgain"
    BY <1>15 DEF ReadPullAgain
  <2>2. gate.paths = gate.head /\ gate.class = LaneOf[gate.head] /\ ~gate.owner /\ gate.state # "success"
    BY <1>2, <2>1 DEF JobIsRight
  <2>3. ASSUME NEW c \in {"reviews", "activity"}, Goes(c), c = "activity" => ~FromFork
        PROVE  JobIsRight'
    <3>1. gate'.head = gate.head /\ gate'.paths = gate.paths /\ gate'.class = gate.class
          /\ gate'.owner = gate.owner /\ gate'.state = gate.state
      BY <1>2, <2>1, <2>3 DEF GateJob, Goes
    <3>2. gate'.call = c
      BY <1>2, <2>1, <2>3 DEF GateJob, Goes
    <3>3. gate'.call \notin {"none", "pull", "files", "reread", "classify", "status", "output"}
          /\ (gate'.call = "activity" => ~FromFork)
      BY <2>3, <3>2
    <3>4. QED BY <1>1, <2>2, <3>1, <3>3, NextJob
  <2>4. CASE FromFork \/ HeadOf # gate.head
    BY <1>15, <2>3, <2>4 DEF ReadPullAgain
  <2>5. CASE ~(FromFork \/ HeadOf # gate.head)
    BY <1>15, <2>3, <2>5 DEF ReadPullAgain
  <2>6. QED BY <2>4, <2>5
<1>16. CASE ReadActivity
  <2>1. PICK v \in 0 .. Newest, complete \in BOOLEAN :
            gate' = [gate EXCEPT !.call = "reviews",
                       !.owner = /\ complete /\ FeedReaches(v)
                                 /\ OwnsEveryTouchedPackage(Content[gate.paths].paths,
                                                            {Author} \cup PushersUpTo(v))]
    BY <1>16 DEF ReadActivity
  <2> DEFINE owner == /\ complete /\ FeedReaches(v)
                      /\ OwnsEveryTouchedPackage(Content[gate.paths].paths, {Author} \cup PushersUpTo(v))
  <2>2. gate' = [gate EXCEPT !.call = "reviews", !.owner = owner] /\ gate.call = "activity"
    BY <1>16, <2>1 DEF ReadActivity
  <2>3. gate.paths = gate.head /\ gate.class = LaneOf[gate.head] /\ gate.state # "success" /\ ~FromFork
    BY <1>2, <2>2 DEF JobIsRight
  <2>4. owner => Owned(gate.head)
    BY <2>3, OwnerOfTheHead
  <2> HIDE DEF owner
  <2>5. gate'.head = gate.head /\ gate'.paths = gate.paths /\ gate'.class = gate.class
        /\ gate'.owner = owner /\ gate'.state = gate.state /\ gate'.call = "reviews"
    BY <1>2, <2>2 DEF GateJob
  <2>6. QED BY <1>1, <2>3, <2>4, <2>5, NextJob
<1>17. CASE ReadReviews
  <2> DEFINE state == Disposition(gate.class, gate.owner, Eligible \cap ApproversOf(gate.head) # {})
  <2>1. gate' = [gate EXCEPT !.state = state, !.labels = {}, !.owner = FALSE,
                             !.call = IF state = "success" THEN "status" ELSE "findComment"]
        /\ gate.call = "reviews"
    BY <1>17 DEF ReadReviews
  <2>2. state = "success" => Earned(gate.head)
    BY <2>1, SuccessIsEarned
  <2>3. gate.paths = gate.head /\ gate.class = LaneOf[gate.head]
    BY <1>2, <2>1 DEF JobIsRight
  <2> HIDE DEF state
  <2>4. gate'.head = gate.head /\ gate'.paths = gate.paths /\ gate'.class = gate.class
        /\ ~gate'.owner /\ gate'.state = state
        /\ gate'.call = IF state = "success" THEN "status" ELSE "findComment"
    BY <1>2, <2>1 DEF GateJob
  <2>5. QED BY <1>1, <2>2, <2>3, <2>4, NextJob
<1>18. Output => gate'.call = "none" /\ ~gate'.owner /\ gate'.state = "pending"
  BY <1>4 DEF Output
<1>19. GateFails => GateErrors
  BY DEF GateFails
<1>20. QED BY <1>3, <1>5, <1>6, <1>7, <1>8, <1>9, <1>10, <1>12, <1>13, <1>14, <1>15, <1>16, <1>17,
              <1>18, <1>19 DEF GateStep

LEMMA RightStep == Typed /\ Grounded /\ Right /\ [Next]_vars => Right'
<1> SUFFICES ASSUME Typed, Grounded, Right, [Next]_vars PROVE Right'
  OBVIOUS
<1>1. TypeOK /\ Approved
  BY DEF Typed, Right
<1>2. Approved'
  BY <1>1, ApprovedStep
<1>3. JobIsRight'
  <2>1. CASE GateStep \/ GateFails
    BY <1>1, <2>1, JobStep
  <2>2. CASE UNCHANGED gate
    BY <1>1, <2>2, NextJob DEF Right, JobIsRight
  <2>3. ArmStep \/ ArmFails => UNCHANGED gate
    BY <1>1, ArmCalls
  <2>4. People \/ ChecksPass \/ MergeArmed => UNCHANGED gate
    BY <1>1, PeopleQueue
  <2>5. UNCHANGED vars => UNCHANGED gate
    BY DEF vars
  <2>6. QED BY <2>1, <2>2, <2>3, <2>4, <2>5 DEF Next
<1>4. GreenIsEarned'
  <2>1. \A r \in greened' : r \in greened \/ (gate.state = "success" /\ r = gate.head)
    <3>1. ArmStep \/ ArmFails => UNCHANGED greened
      BY DEF ArmStep, ArmFails, StartArm, ReadNode, Enable, Squash, ReadArmed, Disable, FinishArm, notes
    <3>2. People \/ ChecksPass \/ MergeArmed => UNCHANGED greened
      BY DEF People, Push, Close, Reopen, ApproveHead, DismissReview, MergeByPerson, MergeArmed, Merge,
             ChecksPass, OnlyPeople, notes
    <3>3. GateStep \/ GateFails =>
              \A r \in greened' : r \in greened \/ (gate.state = "success" /\ r = gate.head)
      BY <1>1, GateEffects
    <3>4. QED BY <3>1, <3>2, <3>3 DEF Next, vars, notes
  <2>2. \A r \in greened' : Earned(r)
    BY <2>1 DEF Right, JobIsRight, GreenIsEarned
  <2>3. QED BY <1>1, <2>2, EarnedKept DEF GreenIsEarned
<1>5. QED BY <1>2, <1>3, <1>4 DEF Right

\* As long as no branch is pushed back to a revision it had, a revision recorded
\* green was approved itself, or is a refresh the dial releases, or a refresh
\* whose every pusher owns what it touches.
THEOREM GreenAlwaysEarned ==
    ASSUME AllowRewind = FALSE
    PROVE  Spec => []GreenIsEarned
<1>1. Right => GreenIsEarned
  BY DEF Right
<1>2. Typed /\ Grounded /\ [Next]_vars => Grounded'
  BY GroundedStep
<1>3. QED BY <1>1, <1>2, TypedInit, TypedStep, GroundedInit, RightInit, RightStep, PTL DEF Spec

-----------------------------------------------------------------------------
(* The last event.  Until its arm job is through it is in one place: at its    *)
(* gate, or waiting for, or in, its arm job, with no gate left before it.      *)
(* What its gate reads is the newest head, since a push is an event, so what   *)
(* it decides is of that head, and no job of another event speaks after it.    *)

LastRun == Len(runs)
Green(i) == runs[i].disposition = "success"
GatesDone == gate.call = "none" /\ gateQueue = {}

LastInLine ==
    \/ Gating(LastRun)
    \/ /\ GatesDone
       /\ \/ armQueue = {LastRun} /\ ~Synced(LastRun) /\ ~Arming(LastRun)
          \/ armQueue = {} /\ Arming(LastRun) /\ ~Synced(LastRun)
          \/ armQueue = {} /\ arm.call = "none" /\ Synced(LastRun)

LastRead ==
    /\ gate.call \notin {"none", "pull"} /\ gate.run = LastRun => gate.head = HeadOf
    /\ gate.call = "output" => status[gate.head] = gate.state

LastGreen == Green(LastRun) => status[HeadOf] = "success"
ArmKnows == arm.call \in {"readNode", "enable", "squash"} => Green(arm.run)

\* A last word that is not green leaves auto-merge off.
LastWithdrawn ==
    ~Green(LastRun) /\ (runs[LastRun].sync = "done" \/ (arm.call = "finish" /\ arm.run = LastRun)) =>
        ~armed

Current == LastInLine /\ LastRead /\ LastGreen /\ ArmKnows /\ LastWithdrawn

LEMMA CurrentInit == Init => Current
<1> SUFFICES ASSUME Init PROVE Current
  OBVIOUS
<1>1. /\ runs = <<NewRun(FirstHead)>> /\ gate.call = "none" /\ arm.call = "none" /\ gateQueue = {1}
      /\ ~armed
  BY IdleTypes DEF Init
<1>2. LastRun = 1 /\ runs[1] = NewRun(FirstHead)
  BY <1>1 DEF LastRun
<1>3. runs[1].disposition = Unsaid /\ Unsaid # "success"
  BY <1>2, NewRuns DEF Unsaid
<1>4. QED BY <1>1, <1>2, <1>3
          DEF Current, LastInLine, LastRead, LastGreen, ArmKnows, LastWithdrawn, Gating, Green

LEMMA TheLast ==
    ASSUME TypeOK
    PROVE  /\ LastRun \in Runs /\ LastRun \in Nat /\ \A i \in Runs : i \in Nat /\ i <= LastRun
           /\ Last = runs[LastRun]
  BY RunsAre DEF LastRun, Last

\* What the gate job tells of a head, and of itself.
LEMMA GateTells ==
    ASSUME TypeOK, GateStep \/ GateFails
    PROVE  /\ UNCHANGED <<versions, armed, arm>>
           /\ \/ \E i \in gateQueue : /\ gateQueue' = gateQueue \ {i}
                                      /\ gate'.call = "pull" /\ gate'.run = i /\ gate.call = "none"
                                      /\ UNCHANGED <<runs, armQueue, status>>
              \/ /\ gate.call # "none" /\ gate'.call # "none" /\ gate'.run = gate.run
                 /\ UNCHANGED queues
                 /\ gate'.head = IF gate.call = "pull" THEN HeadOf ELSE gate.head
                 /\ \/ gate'.call # "output" /\ UNCHANGED status
                    \/ gate'.state = gate.state /\ status' = [status EXCEPT ![gate.head] = gate.state]
                       /\ gate.call = "status"
              \/ \E d \in Said : /\ GateEnds(d) /\ gate.call # "none" /\ UNCHANGED status
                                 /\ d = "success" => gate.call = "output" /\ gate.state = d
<1>1. UNCHANGED <<versions, armed, arm>>
  BY DEF GateStep, GateFails, StartGate, ReadPull, ReadFiles, RereadHead, Classify, AddLabel,
         RemoveLabel, ReadPullAgain, ReadActivity, ReadReviews, FindComment, PostComment,
         SetCommitStatus, Output, OnlyGate, merging, people
<1>2. UNCHANGED status \/ SetCommitStatus
  BY DEF GateStep, GateFails, StartGate, ReadPull, ReadFiles, RereadHead, Classify, AddLabel,
         RemoveLabel, ReadPullAgain, ReadActivity, ReadReviews, FindComment, PostComment,
         Output, OnlyGate, notes
<1>3. SetCommitStatus => gate.call = "status" /\ gate'.call = "output"
                         /\ status' = [status EXCEPT ![gate.head] = gate.state]
  BY DEF SetCommitStatus, Goes, TypeOK, GateJob
<1>4. \A d : GateEnds(d) => gate'.call = "none"
  BY IdleTypes DEF GateEnds
<1>5. CASE gate.call = "none" /\ gate'.call = "pull"
  BY <1>1, <1>2, <1>3, <1>4, <1>5, GateGoes
<1>6. CASE gate.call = "pull" /\ gate'.call = "files" /\ gate'.head = HeadOf
  <2>1. gate'.run = gate.run /\ UNCHANGED queues
    BY <1>4, <1>6, GateGoes
  <2>2. UNCHANGED status
    BY <1>2, <1>3, <1>6
  <2>3. QED BY <1>1, <1>6, <2>1, <2>2
<1>7. CASE gate.call \notin {"none", "pull", "status"} /\ gate'.call \notin {"none", "output"}
           /\ gate'.head = gate.head
  <2>1. gate'.run = gate.run /\ UNCHANGED queues
    BY <1>4, <1>7, GateGoes
  <2>2. UNCHANGED status
    BY <1>2, <1>3, <1>7
  <2>3. QED BY <1>1, <1>7, <2>1, <2>2
<1>8. CASE gate.call = "status" /\ gate'.call = "output" /\ gate'.head = gate.head
           /\ gate'.state = gate.state
  <2>1. gate'.run = gate.run /\ UNCHANGED queues
    BY <1>4, <1>8, GateGoes
  <2>2. status' = [status EXCEPT ![gate.head] = gate.state]
    <3>1. SetCommitStatus
      BY <1>4, <1>8 DEF GateStep, GateFails, GateErrors, StartGate, ReadPull, ReadFiles, RereadHead,
                        Classify, AddLabel, RemoveLabel, ReadPullAgain, ReadActivity, ReadReviews,
                        FindComment, PostComment, Output
    <3>2. QED BY <1>3, <3>1
  <2>3. QED BY <1>1, <1>8, <2>1, <2>2
<1>9. CASE gate.call # "none" /\ GateErrors
  <2>1. GateEnds(Unsaid) /\ Unsaid \in Said /\ Unsaid # "success"
    BY <1>9 DEF GateErrors, Unsaid, Said
  <2>2. UNCHANGED status
    BY <1>2, <1>3, <1>4, <2>1
  <2>3. QED BY <1>1, <1>9, <2>1, <2>2
<1>10. CASE gate.call = "output" /\ GateEnds(gate.state)
  <2>1. gate.state \in Said
    BY <1>10 DEF TypeOK, GateJob, Said
  <2>2. UNCHANGED status
    BY <1>2, <1>3, <1>10
  <2>3. QED BY <1>1, <1>10, <2>1, <2>2
<1>11. QED BY <1>5, <1>6, <1>7, <1>8, <1>9, <1>10, GateEffects

LEMMA CurrentGate ==
    ASSUME TypeOK, InOrder, Current, GateStep \/ GateFails
    PROVE  Current'
<1>1. /\ UNCHANGED <<versions, armed, arm>> /\ HeadOf' = HeadOf
      /\ \A i : Arming(i)' <=> Arming(i)
  BY GateTells DEF HeadOf, Newest, Arming
<1>2. LastRun \in Runs /\ LastRun \in Nat /\ \A i \in Runs : i \in Nat /\ i <= LastRun
  BY TheLast
<1>3. Gating(LastRun)
  BY GateGoes DEF Current, LastInLine, GatesDone
<1>4. gate.call # "none" => ~Green(LastRun)
  <2>1. SUFFICES ASSUME gate.call # "none" PROVE ~Judged(LastRun)
    BY DEF Judged, Green, Unsaid
  <2>2. PICK g \in Runs : Gating(g)
    BY <2>1, Numbers DEF Gating
  <2>3. Judged(LastRun) => LastRun < g
    BY <1>2, <2>2 DEF InOrder, GatesInOrder
  <2>4. g \in Nat /\ g <= LastRun
    BY <1>2
  <2>5. QED BY <1>2, <2>3, <2>4
<1>5. ASSUME NEW i \in gateQueue, gateQueue' = gateQueue \ {i}, gate'.call = "pull", gate'.run = i,
             gate.call = "none", UNCHANGED <<runs, armQueue, status>>
      PROVE  Current'
  <2>1. i = LastRun
    BY <1>3, <1>5 DEF Gating, InOrder, OneWaits
  <2>2. LastRun' = LastRun /\ Gating(LastRun)'
    BY <1>5, <2>1 DEF Gating, LastRun
  <2>3. QED BY <1>1, <1>5, <2>2
            DEF Current, LastInLine, LastRead, LastGreen, ArmKnows, LastWithdrawn, Green
<1>6. ASSUME gate.call # "none", gate'.call # "none", gate'.run = gate.run, UNCHANGED queues,
             gate'.head = (IF gate.call = "pull" THEN HeadOf ELSE gate.head),
             \/ gate'.call # "output" /\ UNCHANGED status
             \/ gate'.state = gate.state /\ status' = [status EXCEPT ![gate.head] = gate.state]
                /\ gate.call = "status"
      PROVE  Current'
  <2>1. UNCHANGED runs /\ LastRun' = LastRun /\ Gating(LastRun)'
    BY <1>3, <1>6 DEF Gating, LastRun, queues
  <2>2. LastRead'
    <3>1. gate'.call = "output" => status'[gate'.head] = gate'.state
      BY <1>6 DEF TypeOK, GateJob
    <3>2. gate.run = LastRun => gate'.head = HeadOf
      BY <1>6 DEF Current, LastRead
    <3>3. QED BY <1>1, <1>6, <2>1, <3>1, <3>2 DEF LastRead
  <2>3. QED BY <1>1, <1>4, <1>6, <2>1, <2>2
            DEF Current, LastInLine, LastGreen, ArmKnows, LastWithdrawn, Green
<1>7. ASSUME NEW d \in Said, GateEnds(d), gate.call # "none", UNCHANGED status,
             d = "success" => gate.call = "output" /\ gate.state = d
      PROVE  Current'
  <2>1. PICK g \in Runs : g = gate.run /\ Gating(g)
    BY <1>7, Numbers DEF Gating
  <2>2. runs' = [runs EXCEPT ![g].disposition = d]
    BY <1>7, <2>1 DEF GateEnds
  <2>3. Len(runs') = Len(runs) /\ Runs' = Runs
    BY <2>2, Records
  <2>4. \A j \in Runs : /\ runs'[j].sync = runs[j].sync
                        /\ runs'[j].disposition = IF j = g THEN d ELSE runs[j].disposition
    BY <2>2, Records
  <2>5. LastRun' = LastRun /\ gate'.call = "none" /\ gateQueue' = gateQueue /\ armQueue' = {g}
    BY <1>7, <2>1, <2>3, GateSpeaks DEF LastRun
  <2>6. ~Synced(LastRun) /\ ~Arming(LastRun) /\ ~Arming(g)
    BY <1>2, <1>3, <2>1 DEF InOrder, GateFirst
  <2>7. LastInLine'
    <3>1. CASE g = LastRun
      <4>1. gateQueue = {}
        BY <1>2, <1>7, <2>1, <3>1, Numbers DEF InOrder, GatesInOrder
      <4>2. QED BY <1>1, <1>2, <2>4, <2>5, <2>6, <3>1, <4>1 DEF LastInLine, GatesDone, Synced
    <3>2. CASE g # LastRun
      BY <1>3, <2>1, <2>5, <3>2 DEF LastInLine, Gating
    <3>3. QED BY <3>1, <3>2
  <2>8. LastRead'
    BY <2>5 DEF LastRead
  <2>9. LastGreen'
    <3>1. CASE g = LastRun
      BY <1>1, <1>2, <1>7, <2>1, <2>4, <2>5, <3>1 DEF LastGreen, Green, Current, LastRead
    <3>2. CASE g # LastRun
      BY <1>1, <1>2, <1>4, <1>7, <2>4, <2>5, <3>2 DEF LastGreen, Green
    <3>3. QED BY <3>1, <3>2
  <2>10. ArmKnows'
    <3>1. arm.call # "none" => arm.run \in Runs /\ arm.run # g
      BY <2>6, Numbers DEF Arming
    <3>2. QED BY <1>1, <2>4, <3>1 DEF ArmKnows, Current, Green
  <2>11. LastWithdrawn'
    BY <1>1, <1>2, <2>4, <2>5, <2>6 DEF LastWithdrawn, Synced, Arming
  <2>12. QED BY <2>7, <2>8, <2>9, <2>10, <2>11 DEF Current
<1>8. QED BY <1>5, <1>6, <1>7, GateTells

LEMMA ArmTells ==
    ASSUME TypeOK, ArmStep \/ ArmFails
    PROVE  /\ UNCHANGED <<gate, gateQueue, status, versions>>
           /\ \/ \E i \in armQueue :
                    /\ armQueue' = armQueue \ {i} /\ arm'.run = i /\ UNCHANGED <<runs, armed>>
                    /\ arm.call = "none"
                    /\ arm'.call = IF Green(i) THEN "readNode" ELSE "readArmed"
              \/ /\ arm.call # "none" /\ arm'.call # "none" /\ arm'.run = arm.run
                 /\ UNCHANGED <<runs, armQueue>>
                 /\ arm'.call \in {"readNode", "enable", "squash"} =>
                        arm.call \in {"readNode", "enable", "squash"}
                 /\ arm'.call = "finish" => arm.call \in {"enable", "squash"} \/ ~armed'
                 /\ armed' # armed => arm.call \in {"enable", "squash", "disable"}
              \/ /\ arm.call # "none" /\ UNCHANGED armQueue
                 /\ \/ ArmEnds("done") /\ arm.call = "finish" /\ UNCHANGED armed
                    \/ ArmEnds("failed") /\ (armed' => armed)
<1>1. arm.call # "none" => arm \in ArmJob
  BY DEF TypeOK
<1>2. UNCHANGED <<gate, gateQueue, status, versions>>
  <2>1. StartArm \/ ArmFails \/ FinishArm \/ ReadNode \/ ReadArmed =>
            UNCHANGED <<gate, gateQueue, status, versions>>
    BY DEF ArmFails, StartArm, ReadNode, ReadArmed, FinishArm, people, notes, queues
  <2>2. Enable \/ Squash \/ Disable => UNCHANGED <<gate, gateQueue, status, versions>>
    BY DEF Enable, Squash, Disable, people, notes
  <2>3. QED BY <2>1, <2>2 DEF ArmStep
<1>3. CASE StartArm
  BY <1>2, <1>3 DEF StartArm, merging, Green
<1>4. CASE ArmFails \/ FinishArm
  BY <1>2, <1>4 DEF ArmFails, FinishArm, merging
<1>5. CASE ReadNode
  BY <1>1, <1>2, <1>5 DEF ReadNode, ArmGoes, ArmJob, queues, merging
<1>6. CASE ReadArmed
  <2>1. arm'.call = (IF armed THEN "disable" ELSE "finish") /\ arm'.run = arm.run
    BY <1>1, <1>6 DEF ReadArmed, ArmGoes, ArmJob
  <2>2. QED BY <1>2, <1>6, <2>1 DEF ReadArmed, queues, merging
<1>7. CASE Enable /\ ~ArmEnds("failed")
  <2>1. arm.call = "enable" /\ UNCHANGED <<runs, armQueue>>
        /\ \E c \in {"finish", "squash"} : arm' = [arm EXCEPT !.call = c]
    BY <1>7 DEF Enable, ArmGoes
  <2>2. arm'.call \in {"finish", "squash"} /\ arm'.run = arm.run
    BY <1>1, <2>1 DEF ArmJob
  <2>3. QED BY <1>2, <2>1, <2>2
<1>8. CASE Enable /\ ArmEnds("failed")
  <2>1. ~ \E c \in {"finish", "squash"} : ArmGoes(c)
    <3>1. arm'.call = "none"
      BY <1>8, IdleTypes DEF ArmEnds
    <3>2. QED BY <1>1, <1>8, <3>1 DEF Enable, ArmGoes, ArmJob
  <2>2. UNCHANGED armed /\ UNCHANGED armQueue /\ arm.call = "enable"
    BY <1>8, <2>1 DEF Enable, merging
  <2>3. QED BY <1>2, <1>8, <2>2
<1>9. CASE Squash /\ ~ArmEnds("failed")
  <2>1. arm.call = "squash" /\ UNCHANGED <<runs, armQueue>> /\ arm' = [arm EXCEPT !.call = "finish"]
    BY <1>9 DEF Squash, ArmGoes
  <2>2. arm'.call = "finish" /\ arm'.run = arm.run
    BY <1>1, <2>1 DEF ArmJob
  <2>3. QED BY <1>2, <2>1, <2>2
<1>10. CASE Squash /\ ArmEnds("failed")
  <2>1. (armed' => armed) /\ UNCHANGED armQueue /\ arm.call = "squash"
    <3>1. armed' = armed \/ armed' = FALSE
      BY <1>10 DEF Squash, merging
    <3>2. QED BY <1>10, <3>1 DEF Squash, merging
  <2>2. QED BY <1>2, <1>10, <2>1
<1>11. CASE Disable
  <2>1. ~armed' /\ arm.call = "disable" /\ UNCHANGED armQueue
    BY <1>11 DEF Disable
  <2>2. ArmEnds("failed") \/ (UNCHANGED runs /\ arm' = [arm EXCEPT !.call = "finish"])
    BY <1>11 DEF Disable, ArmGoes
  <2>3. QED BY <1>1, <1>2, <2>1, <2>2 DEF ArmJob
<1>12. QED BY <1>3, <1>4, <1>5, <1>6, <1>7, <1>8, <1>9, <1>10, <1>11 DEF ArmStep

LEMMA CurrentArm ==
    ASSUME TypeOK, InOrder, Current, ArmStep \/ ArmFails
    PROVE  Current'
<1>1. /\ UNCHANGED <<gate, gateQueue, status, versions>> /\ HeadOf' = HeadOf
      /\ \A i : Gating(i)' <=> Gating(i)
      /\ GatesDone' <=> GatesDone
  BY ArmTells DEF HeadOf, Newest, Gating, GatesDone
<1>2. LastRun \in Runs
  BY TheLast
<1>3. Gating(LastRun) => ~Synced(LastRun) /\ ~Arming(LastRun)
  BY <1>2 DEF InOrder, GateFirst
<1>4. LastInLine /\ ArmKnows /\ LastWithdrawn /\ LastGreen /\ LastRead
  BY DEF Current
<1>5. ASSUME NEW i \in armQueue, armQueue' = armQueue \ {i}, arm'.run = i, UNCHANGED <<runs, armed>>,
             arm.call = "none", arm'.call = IF Green(i) THEN "readNode" ELSE "readArmed"
      PROVE  Current'
  <2>1. LastRun' = LastRun /\ arm'.call # "none" /\ arm'.call # "finish"
    BY <1>5 DEF LastRun
  <2>2. LastInLine'
    <3>1. CASE Gating(LastRun)
      BY <1>1, <2>1, <3>1 DEF LastInLine
    <3>2. CASE ~Gating(LastRun)
      <4>1. GatesDone /\ armQueue = {LastRun} /\ ~Synced(LastRun) /\ i = LastRun
        BY <1>4, <1>5, <3>2 DEF LastInLine
      <4>2. QED BY <1>1, <1>5, <2>1, <4>1 DEF LastInLine, Arming, Synced
    <3>3. QED BY <3>1, <3>2
  <2>3. ArmKnows'
    BY <1>5 DEF ArmKnows, Green
  <2>4. LastRead' /\ LastGreen' /\ LastWithdrawn'
    BY <1>1, <1>4, <1>5, <2>1 DEF LastRead, LastGreen, LastWithdrawn, Green
  <2>5. QED BY <2>2, <2>3, <2>4 DEF Current
<1>6. ASSUME arm.call # "none", arm'.call # "none", arm'.run = arm.run, UNCHANGED <<runs, armQueue>>,
             arm'.call \in {"readNode", "enable", "squash"} =>
                 arm.call \in {"readNode", "enable", "squash"},
             arm'.call = "finish" => arm.call \in {"enable", "squash"} \/ ~armed',
             armed' # armed => arm.call \in {"enable", "squash", "disable"}
      PROVE  Current'
  <2>1. LastRun' = LastRun /\ \A j : Arming(j)' <=> Arming(j)
    BY <1>6 DEF LastRun, Arming
  <2>2. \A j : (Synced(j)' <=> Synced(j)) /\ (Green(j)' <=> Green(j))
    BY <1>6 DEF Synced, Green
  <2>3. LastInLine'
    BY <1>1, <1>4, <1>6, <2>1, <2>2 DEF LastInLine
  <2>4. ArmKnows'
    BY <1>4, <1>6, <2>2 DEF ArmKnows
  <2>5. LastWithdrawn'
    <3>1. SUFFICES ASSUME ~Green(LastRun),
                          runs[LastRun].sync = "done" \/ (arm'.call = "finish" /\ arm.run = LastRun)
                   PROVE  ~armed'
      BY <1>6, <2>1, <2>2 DEF LastWithdrawn
    <3>2. CASE arm'.call = "finish" /\ arm.run = LastRun
      BY <1>4, <1>6, <3>1, <3>2 DEF ArmKnows
    <3>3. ~(runs[LastRun].sync = "done")
      BY <1>3, <1>4, <1>6 DEF LastInLine, Synced
    <3>4. QED BY <3>1, <3>2, <3>3
  <2>6. LastRead' /\ LastGreen'
    BY <1>1, <1>4, <2>1, <2>2 DEF LastRead, LastGreen
  <2>7. QED BY <2>3, <2>4, <2>5, <2>6 DEF Current
<1>7. ASSUME arm.call # "none", UNCHANGED armQueue, NEW s \in {"done", "failed"}, ArmEnds(s),
             armed' => armed, s = "done" => arm.call = "finish"
      PROVE  Current'
  <2>1. PICK k \in Runs : k = arm.run /\ Arming(k)
    BY <1>7, Numbers DEF Arming
  <2>2. runs' = [runs EXCEPT ![k].sync = s] /\ s \in {"due", "done", "failed"} /\ arm'.call = "none"
    BY <1>7, <2>1, IdleTypes DEF ArmEnds
  <2>3. Len(runs') = Len(runs)
    BY <2>2, Syncs
  <2>4. \A j \in Runs : /\ runs'[j].disposition = runs[j].disposition
                        /\ runs'[j].sync = IF j = k THEN s ELSE runs[j].sync
    BY <2>2, Syncs
  <2>5. LastRun' = LastRun /\ (Green(LastRun)' <=> Green(LastRun))
    BY <1>2, <2>3, <2>4 DEF LastRun, Green
  <2>6. LastInLine'
    <3>1. CASE Gating(LastRun)
      BY <1>1, <2>5, <3>1 DEF LastInLine
    <3>2. CASE armQueue = {LastRun} /\ ~Synced(LastRun) /\ ~Arming(LastRun) /\ GatesDone
      <4>1. k # LastRun /\ ~Synced(LastRun)'
        BY <1>2, <2>1, <2>4, <2>5, <3>2 DEF Synced
      <4>2. QED BY <1>1, <1>7, <2>2, <2>5, <3>2, <4>1 DEF LastInLine, Arming
    <3>3. CASE armQueue = {} /\ Arming(LastRun) /\ ~Synced(LastRun) /\ GatesDone
      <4>1. k = LastRun /\ Synced(LastRun)'
        BY <1>2, <2>1, <2>4, <2>5, <3>3 DEF Synced, Arming
      <4>2. QED BY <1>1, <1>7, <2>2, <2>5, <3>3, <4>1 DEF LastInLine
    <3>4. QED BY <1>4, <1>7, <3>1, <3>2, <3>3 DEF LastInLine
  <2>7. LastWithdrawn'
    <3>1. SUFFICES ASSUME ~Green(LastRun), runs'[LastRun].sync = "done" PROVE ~armed
      BY <1>7, <2>2, <2>5 DEF LastWithdrawn
    <3>2. CASE k = LastRun
      BY <1>2, <1>4, <1>7, <2>1, <2>4, <3>1, <3>2 DEF LastWithdrawn
    <3>3. CASE k # LastRun
      BY <1>2, <1>4, <2>4, <3>1, <3>3 DEF LastWithdrawn
    <3>4. QED BY <3>2, <3>3
  <2>8. ArmKnows' /\ LastRead' /\ LastGreen'
    BY <1>1, <1>4, <2>2, <2>5 DEF ArmKnows, LastRead, LastGreen
  <2>9. QED BY <2>6, <2>7, <2>8 DEF Current
<1>8. QED BY <1>5, <1>6, <1>7, ArmTells

\* Nobody else enables auto-merge, and a head that moves comes with its event.
LEMMA PeopleTell ==
    ASSUME TypeOK, People \/ ChecksPass \/ MergeArmed
    PROVE  /\ UNCHANGED <<gate, arm, status>>
           /\ \/ UNCHANGED <<queues, versions>> /\ (armed' => armed)
              \/ \E r \in Revisions : Event(r)
<1>1. UNCHANGED <<gate, arm, status>>
  BY DEF People, Push, Close, Reopen, ApproveHead, DismissReview, MergeByPerson, MergeArmed, Merge,
         ChecksPass, OnlyPeople, notes
<1>2. (\E r \in Revisions, a \in Accounts : Push(r, a)) => \E r \in Revisions : Event(r)
  BY DEF Push
<1>3. Reopen => \E r \in Revisions : Event(r)
  BY HeadType DEF Reopen
<1>4. Close \/ ChecksPass \/ Merge => UNCHANGED <<queues, versions>> /\ (armed' => armed)
  BY DEF Close, ChecksPass, Merge, merging
<1>5. ASSUME NEW a, ApproveHead(a) \/ DismissReview(a)
      PROVE  UNCHANGED <<queues, versions>> /\ (armed' => armed)
  BY <1>5 DEF ApproveHead, DismissReview, merging
<1>6. QED BY <1>1, <1>2, <1>3, <1>4, <1>5 DEF People, MergeArmed, MergeByPerson

LEMMA CurrentPeople ==
    ASSUME TypeOK, InOrder, Current, People \/ ChecksPass \/ MergeArmed
    PROVE  Current'
<1>1. UNCHANGED <<gate, arm, status>>
  BY PeopleTell
<1>2. CASE UNCHANGED <<queues, versions>> /\ (armed' => armed)
  BY <1>1, <1>2 DEF queues, Current, LastInLine, LastRead, LastGreen, ArmKnows, LastWithdrawn,
                    GatesDone, LastRun, HeadOf, Newest, Gating, Synced, Arming, Green
<1>3. ASSUME NEW r \in Revisions, Event(r)
      PROVE  Current'
  <2>1. PICK n : /\ n = Len(runs') /\ n \notin Runs /\ (\A i \in Runs : runs'[i] = runs[i])
                 /\ runs'[n] = NewRun(r) /\ gateQueue' = {n}
    BY <1>3, Queues
  <2>2. LastRun' = n /\ ~Green(n)' /\ runs'[n].sync = "due"
    BY <2>1, NewRuns DEF LastRun, Green, Unsaid
  <2>3. Gating(n)' /\ (gate.call # "none" => gate.run # n) /\ ~Arming(n)
    BY <2>1, Numbers DEF Gating, Arming
  <2>4. LastInLine'
    BY <2>2, <2>3 DEF LastInLine, Gating
  <2>5. LastRead'
    BY <1>1, <2>2, <2>3 DEF LastRead, Current
  <2>6. LastGreen'
    BY <2>2 DEF LastGreen, Green
  <2>7. LastWithdrawn'
    BY <1>1, <2>2, <2>3 DEF LastWithdrawn, Arming
  <2>8. ArmKnows'
    BY <1>1, <2>1, Numbers DEF ArmKnows, Current, Green
  <2>9. QED BY <2>4, <2>5, <2>6, <2>7, <2>8 DEF Current
<1>4. QED BY <1>2, <1>3, PeopleTell

LEMMA CurrentStep == Typed /\ InOrder /\ Current /\ [Next]_vars => Current'
<1> SUFFICES ASSUME Typed, InOrder, Current, [Next]_vars PROVE Current'
  OBVIOUS
<1>1. TypeOK
  BY DEF Typed
<1>2. CASE UNCHANGED vars
  BY <1>2 DEF vars, people, notes, merging, queues, Current, LastInLine, LastRead, LastGreen, ArmKnows,
              LastWithdrawn, GatesDone, LastRun, HeadOf, Newest, Gating, Synced, Arming, Green
<1>3. QED BY <1>1, <1>2, CurrentGate, CurrentArm, CurrentPeople DEF Next

\* Once every job has run and the last arm job did not fail, auto-merge is on
\* only for a head whose own last word is green, wherever the branch was pushed,
\* back to an old revision or not.
THEOREM SettledIsCurrent == Spec => []ArmedIsCurrent
<1>1. Typed /\ Current => ArmedIsCurrent
  <2> SUFFICES ASSUME TypeOK, Current, Settled, armed, Last.sync # "failed"
               PROVE  status[HeadOf] = "success" /\ Last.disposition = "success"
    BY DEF Typed, ArmedIsCurrent
  <2>1. ~Gating(LastRun) /\ armQueue = {} /\ arm.call = "none"
    BY DEF Settled, Gating
  <2>2. Synced(LastRun)
    BY <2>1 DEF Current, LastInLine, Arming
  <2>3. LastRun \in Runs /\ Last = runs[LastRun] /\ runs[LastRun] \in Run
    BY TheLast, RunsAre
  <2>4. runs[LastRun].sync = "done"
    BY <2>2, <2>3 DEF Synced, Run
  <2>5. Green(LastRun)
    BY <2>4 DEF Current, LastWithdrawn
  <2>6. QED BY <2>3, <2>5 DEF Current, LastGreen, Green
<1>2. QED BY <1>1, TypedInit, TypedStep, OrderInit, OrderStep, CurrentInit, CurrentStep, PTL DEF Spec
=============================================================================
