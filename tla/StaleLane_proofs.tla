-------------------------- MODULE StaleLane_proofs --------------------------
(***************************************************************************)
(* Proofs about the housekeeping lane, for any pull requests, revisions,   *)
(* thresholds, touches and failures.                                       *)
(***************************************************************************)
EXTENDS StaleLane, TLAPS

-----------------------------------------------------------------------------
(* Types.                                                                  *)

LEMMA IdleType == Idle \in Job /\ [Idle EXCEPT !.call = "next"] \in Job
<1>1. /\ (CHOOSE p \in PRs : TRUE) \in PRs
      /\ (CHOOSE r \in Revisions : TRUE) \in Revisions
  BY StaleAssumption
<1>2. 0 \in -1 .. Oldest
  BY StaleAssumption DEF Oldest
<1>3. QED BY <1>1, <1>2 DEF Idle, Job, Call

LEMMA IdleFields ==
    LET next == [Idle EXCEPT !.call = "next"]
    IN  /\ Idle.call = "list" /\ Idle.labels = {}
        /\ next.call = "next" /\ next.labels = {}
<1> DEFINE p == CHOOSE q \in PRs : TRUE
           r == CHOOSE t \in Revisions : TRUE
           idle == [call |-> "list", pr |-> p, head |-> r, labels |-> {}, age |-> 0]
<1>1. Idle = idle
  BY DEF Idle
<1> HIDE DEF p, r
<1>2. /\ idle.call = "list" /\ idle.labels = {}
      /\ [idle EXCEPT !.call = "next"].call = "next"
      /\ [idle EXCEPT !.call = "next"].labels = {}
  OBVIOUS
<1>3. QED BY <1>1, <1>2

LEMMA MoveJobType ==
    ASSUME job \in Job, NEW call \in Call, Move(call)
    PROVE  job' \in Job
BY DEF Move, Job

LEMMA HandleOneType == ASSUME NEW j PROVE HandleOne(j) \in {"next", "label", "explain"}
BY DEF HandleOne

LEMMA DaysType ==
    /\ 0 \in Days
    /\ \A d \in Days : /\ d \in Int
                       /\ d = Oldest \/ d + 1 \in Days
                       /\ \A l \in {0, 1} : d - l \in -1 .. Oldest
<1>1. Oldest \in Nat
  BY StaleAssumption DEF Oldest
<1>2. \A d \in 0 .. Oldest : d \in Int /\ (d = Oldest \/ d + 1 \in 0 .. Oldest)
  BY <1>1
<1>3. \A d \in 0 .. Oldest : d - 0 \in -1 .. Oldest /\ d - 1 \in -1 .. Oldest
  BY <1>1
<1>4. QED BY <1>1, <1>2, <1>3 DEF Days

LEMMA FailuresType ==
    ASSUME TypeOK, failures < MaxFailures, failures' = failures + 1
    PROVE  failures' \in 0 .. MaxFailures
<1>1. failures \in 0 .. MaxFailures /\ MaxFailures \in Nat
  BY StaleAssumption DEF TypeOK
<1>2. QED BY <1>1

LEMMA LabellingMoveType ==
    ASSUME TypeOK, NEW r \in Revisions, NEW call \in {"none", "find", "add", "done"},
           LabellingMoves(r, call)
    PROVE  labelling' \in [Revisions -> Labelling]
<1>1. labelling[r] \in Labelling
  BY DEF TypeOK
<1>2. [labelling[r] EXCEPT !.call = call] \in Labelling
  BY <1>1 DEF Labelling
<1>3. QED BY <1>2 DEF TypeOK, LabellingMoves

LEMMA LabelStepType ==
    ASSUME TypeOK, NEW r \in Revisions, LabelStep(r) \/ LabellingFails(r)
    PROVE  TypeOK'
<1>1. CASE RunFails(r)
  <2>1. labelling' \in [Revisions -> Labelling] /\ LabellingOnly
    BY <1>1, LabellingMoveType DEF RunFails
  <2>2. QED BY <2>1 DEF TypeOK, LabellingOnly, pull, history
<1>2. CASE FindPullRequest(r)
  <2>1. ASSUME NEW p \in PRs, NEW call \in {"add", "done"},
               labelling' = [labelling EXCEPT ![r] = [call |-> call, pr |-> p]]
        PROVE  labelling' \in [Revisions -> Labelling]
    <3>1. [call |-> call, pr |-> p] \in Labelling
      BY DEF Labelling
    <3>2. QED BY <2>1, <3>1 DEF TypeOK
  <2>2. labelling' \in [Revisions -> Labelling] /\ LabellingOnly
    BY <1>2, <2>1, LabellingMoveType DEF FindPullRequest
  <2>3. QED BY <2>2 DEF TypeOK, LabellingOnly, pull, history
<1>3. CASE AddTriggerLabel(r)
  <2>1. labelling' \in [Revisions -> Labelling]
    BY <1>3, LabellingMoveType DEF AddTriggerLabel
  <2>2. labels' \in [PRs -> SUBSET Label]
    BY <1>3 DEF TypeOK, AddTriggerLabel, Label, TriggerLabel
  <2>3. age' \in [PRs -> Days]
    BY <1>3, DaysType DEF TypeOK, AddTriggerLabel
  <2>4. QED BY <1>3, <2>1, <2>2, <2>3 DEF TypeOK, AddTriggerLabel, history
<1>4. CASE LabellingFails(r)
  <2>1. labelling' \in [Revisions -> Labelling]
    BY <1>4, LabellingMoveType DEF LabellingFails
  <2>2. failures' \in 0 .. MaxFailures
    BY <1>4, FailuresType DEF LabellingFails
  <2>3. QED BY <1>4, <2>1, <2>2 DEF TypeOK, LabellingFails, pull, history
<1>5. QED BY <1>1, <1>2, <1>3, <1>4 DEF LabelStep

LEMMA SweepStepType ==
    ASSUME TypeOK, SweepStep \/ Fail \/ Killed
    PROVE  TypeOK'
<1> USE DEF OthersUnchanged, PullUnchanged, pull, history
<1>0. /\ job \in Job /\ job.pr \in PRs
      /\ [Idle EXCEPT !.call = "next"] \in Job /\ Idle \in Job
  BY IdleType DEF TypeOK, Job
<1>1. CASE StartSweep
  <2>1. job' \in Job /\ todo' \in SUBSET PRs /\ late' \in {0, 1}
    BY <1>0, <1>1, MoveJobType DEF StartSweep, Call
  <2>2. QED BY <1>1, <2>1 DEF TypeOK, StartSweep
<1>2. CASE EndSweep
  BY <1>0, <1>2 DEF TypeOK, EndSweep
<1>3. CASE ReadPullRequest
  <2>1. PICK p \in todo : job' = [call |-> "reread", pr |-> p, head |-> head[p],
                                  labels |-> labels[p], age |-> age[p] - late]
    BY <1>3 DEF ReadPullRequest
  <2>2. p \in PRs /\ head[p] \in Revisions /\ labels[p] \in SUBSET Label
    BY DEF TypeOK
  <2>3. age[p] - late \in -1 .. Oldest
    BY <2>2, DaysType DEF TypeOK
  <2>4. job' \in Job
    BY <2>1, <2>2, <2>3 DEF Job, Call
  <2>5. todo' \in SUBSET PRs
    BY <1>3 DEF TypeOK, ReadPullRequest
  <2>6. QED BY <1>3, <2>4, <2>5 DEF TypeOK, ReadPullRequest
<1>4. CASE RereadHead
  <2>1. HandleOne(job) \in Call
    BY HandleOneType DEF Call
  <2>2. job' \in Job
    BY <1>0, <1>4, <2>1, MoveJobType DEF RereadHead, NextPullRequest
  <2>3. QED BY <1>4, <2>2 DEF TypeOK, RereadHead
<1>5. CASE AddStaleLabel
  <2>1. job' \in Job
    BY <1>0, <1>5, MoveJobType DEF AddStaleLabel, Call
  <2>2. labels' \in [PRs -> SUBSET Label]
    BY <1>5 DEF TypeOK, AddStaleLabel, Label, StaleLabel
  <2>3. age' \in [PRs -> Days] /\ marked' \in [PRs -> Days]
    BY <1>5, DaysType DEF TypeOK, AddStaleLabel
  <2>4. QED BY <1>5, <2>1, <2>2, <2>3 DEF TypeOK, AddStaleLabel
<1>6. ASSUME NEW marker \in {"stale", "stale-closed"}, Comment(job.pr, marker)
      PROVE  /\ notices' \in [PRs -> SUBSET {"stale", "stale-closed"}]
             /\ age' \in [PRs -> Days]
             /\ UNCHANGED <<head, state, labels>>
  <2>1. PICK days \in IF marker \in notices[job.pr] THEN {0, age[job.pr]} ELSE {0} :
            age' = [age EXCEPT ![job.pr] = days]
    BY <1>6 DEF Comment
  <2>2. days \in Days
    BY <1>0, DaysType DEF TypeOK
  <2>3. age' \in [PRs -> Days]
    BY <2>1, <2>2 DEF TypeOK
  <2>4. notices' \in [PRs -> SUBSET {"stale", "stale-closed"}]
    BY <1>6 DEF TypeOK, Comment
  <2>5. QED BY <1>6, <2>3, <2>4 DEF Comment
<1>7. CASE Warn
  <2>1. job' \in Job
    BY <1>0, <1>7 DEF Warn, NextPullRequest
  <2>2. QED BY <1>6, <1>7, <2>1 DEF TypeOK, Warn
<1>8. CASE Explain
  <2>1. job' \in Job
    BY <1>0, <1>8, MoveJobType DEF Explain, Call
  <2>2. QED BY <1>6, <1>8, <2>1 DEF TypeOK, Explain
<1>9. CASE Close
  <2>1. job' \in Job
    BY <1>0, <1>9 DEF Close, NextPullRequest
  <2>2. state' \in [PRs -> {"open", "closed by bot", "closed by people"}]
    BY <1>9 DEF TypeOK, Close
  <2>3. QED BY <1>9, <2>1, <2>2 DEF TypeOK, Close
<1>10. CASE Fail
  <2>1. failures' \in 0 .. MaxFailures
    BY <1>10, FailuresType DEF Fail
  <2>2. QED BY <1>0, <1>10, <2>1 DEF TypeOK, Fail, NextPullRequest
<1>11. CASE Killed
  <2>1. failures' \in 0 .. MaxFailures
    BY <1>11, FailuresType DEF Killed
  <2>2. QED BY <1>0, <1>11, <2>1 DEF TypeOK, Killed
<1>12. QED
  BY <1>1, <1>2, <1>3, <1>4, <1>5, <1>7, <1>8, <1>9, <1>10, <1>11 DEF SweepStep

LEMMA PeopleType ==
    ASSUME TypeOK, NEW p \in PRs, People(p)
    PROVE  TypeOK'
<1>1. ASSUME Touch(p)
      PROVE  /\ touches' \in [PRs -> Nat] /\ \A q \in PRs : touches'[q] <= MaxTouches[q]
             /\ age' \in [PRs -> Days] /\ quiet' \in [PRs -> Days]
             /\ UNCHANGED <<notices, marked, labelling, todo, job, late, failures>>
  <2>1. touches[p] \in Nat /\ MaxTouches[p] \in Nat /\ touches[p] < MaxTouches[p]
    BY <1>1, StaleAssumption DEF TypeOK, Touch
  <2>2. touches' \in [PRs -> Nat] /\ \A q \in PRs : touches'[q] <= MaxTouches[q]
    <3>1. touches' = [touches EXCEPT ![p] = touches[p] + 1]
      BY <1>1 DEF Touch
    <3>2. touches \in [PRs -> Nat] /\ touches[p] + 1 \in Nat /\ touches[p] + 1 <= MaxTouches[p]
      <4>1. touches \in [PRs -> Nat]
        BY DEF TypeOK
      <4>2. QED BY <2>1, <4>1
    <3>3. \A q \in PRs : touches'[q] = IF q = p THEN touches[p] + 1 ELSE touches[q]
      BY <3>1, <3>2
    <3>4. \A q \in PRs : touches'[q] <= MaxTouches[q]
      BY <3>2, <3>3 DEF TypeOK
    <3>5. QED BY <3>1, <3>2, <3>4
  <2>3. age' \in [PRs -> Days] /\ quiet' \in [PRs -> Days]
    BY <1>1, DaysType DEF TypeOK, Touch
  <2>4. QED BY <1>1, <2>2, <2>3 DEF Touch
<1>2. ASSUME NEW r \in Revisions, Push(p, r) PROVE TypeOK'
  BY <1>1, <1>2 DEF TypeOK, Push
<1>3. ASSUME NEW l \in Label, Unlabel(p, l) PROVE TypeOK'
  BY <1>1, <1>3 DEF TypeOK, Unlabel
<1>4. CASE Discuss(p)
  BY <1>1, <1>4 DEF TypeOK, Discuss
<1>5. CASE ToggleState(p)
  BY <1>1, <1>5 DEF TypeOK, ToggleState
<1>6. QED BY <1>2, <1>3, <1>4, <1>5 DEF People

LEMMA NextDayType == TypeOK /\ NextDay => TypeOK'
<1> SUFFICES ASSUME TypeOK, NextDay PROVE TypeOK'
  OBVIOUS
<1>1. /\ age' \in [PRs -> Days] /\ quiet' \in [PRs -> Days] /\ marked' \in [PRs -> Days]
  BY DaysType DEF TypeOK, NextDay
<1>2. late' \in {0, 1}
  BY DEF NextDay
<1>3. QED BY <1>1, <1>2 DEF TypeOK, NextDay

LEMMA StepType == TypeOK /\ [Next]_vars => TypeOK'
<1> SUFFICES ASSUME TypeOK, [Next]_vars PROVE TypeOK'
  OBVIOUS
<1>1. CASE UNCHANGED vars
  BY <1>1 DEF TypeOK, vars, pull, history
<1>2. QED BY <1>1, LabelStepType, SweepStepType, PeopleType, NextDayType DEF Next

LEMMA InitType == Init => TypeOK
<1> SUFFICES ASSUME Init PROVE TypeOK
  OBVIOUS
<1>1. [call |-> "none", pr |-> CHOOSE p \in PRs : TRUE] \in Labelling
  BY StaleAssumption DEF Labelling
<1>2. 0 \in Days
  BY StaleAssumption DEF Days, Oldest
<1>3. /\ head \in [PRs -> Revisions]
      /\ \A p \in PRs : touches[p] <= MaxTouches[p]
      /\ failures \in 0 .. MaxFailures
  BY StaleAssumption DEF Init
<1>4. QED BY <1>1, <1>2, <1>3, IdleType DEF Init, TypeOK

\* The variables keep their types.
THEOREM StaleTypeCorrect == Spec => []TypeOK
<1>1. QED BY InitType, StepType, PTL DEF Spec

-----------------------------------------------------------------------------
(* Forks only, and explained.                                              *)

\* What a label-failed-run is about to label, what carries the label, what the
\* sweep read as carrying it, and what it acts on for it, is a fork's.
ForksOnly ==
    /\ \A r \in Revisions : labelling[r].call = "add" => labelling[r].pr \in Forks
    /\ \A p \in PRs : TriggerLabel \in labels[p] => p \in Forks
    /\ TriggerLabel \in job.labels => job.pr \in Forks
    /\ job.call \in {"label", "warn", "explain", "close"} => job.pr \in Forks

\* The explanation is there from the moment the sweep is about to close.
Explained ==
    /\ job.call = "close" => "stale-closed" \in notices[job.pr]
    /\ ClosedWasExplained

ClosingInv == TypeOK /\ ForksOnly /\ OnlyForksAreClosed /\ Explained

LEMMA ClosingInit == Init => ClosingInv
<1> SUFFICES ASSUME Init PROVE ClosingInv
  OBVIOUS
<1>1. TypeOK
  BY InitType
<1>2. ForksOnly
  BY DEF Init, Idle, ForksOnly
<1>3. OnlyForksAreClosed /\ Explained
  BY DEF Init, Idle, OnlyForksAreClosed, Explained, ClosedWasExplained
<1>4. QED BY <1>1, <1>2, <1>3 DEF ClosingInv

LEMMA LabelStepForks ==
    ASSUME TypeOK, ForksOnly, NEW r \in Revisions, LabelStep(r) \/ LabellingFails(r)
    PROVE  ForksOnly'
<1> USE DEF pull, history
<1>1. labelling \in [Revisions -> Labelling]
  BY DEF TypeOK
<1>2. CASE RunFails(r)
  BY <1>1, <1>2 DEF RunFails, LabellingMoves, LabellingOnly, ForksOnly
<1>3. CASE FindPullRequest(r)
  <2>1. ASSUME NEW p \in PRs,
               labelling' = [labelling EXCEPT ![r] =
                                [call |-> IF p \in Forks THEN "add" ELSE "done", pr |-> p]]
        PROVE  \A q \in Revisions : labelling'[q].call = "add" => labelling'[q].pr \in Forks
    BY <1>1, <2>1 DEF ForksOnly
  <2>2. ASSUME LabellingMoves(r, "done")
        PROVE  \A q \in Revisions : labelling'[q].call = "add" => labelling'[q].pr \in Forks
    BY <1>1, <2>2 DEF LabellingMoves, ForksOnly
  <2>3. \A q \in Revisions : labelling'[q].call = "add" => labelling'[q].pr \in Forks
    BY <1>3, <2>1, <2>2 DEF FindPullRequest
  <2>4. UNCHANGED <<labels, job>>
    BY <1>3 DEF FindPullRequest, LabellingOnly
  <2>5. QED BY <2>3, <2>4 DEF ForksOnly
<1>4. CASE AddTriggerLabel(r)
  <2>1. labelling[r].pr \in Forks
    BY <1>4 DEF AddTriggerLabel, ForksOnly
  <2>2. \A p \in PRs : TriggerLabel \in labels'[p] => p \in Forks
    BY <1>4, <2>1 DEF TypeOK, AddTriggerLabel, ForksOnly
  <2>3. \A q \in Revisions : labelling'[q].call = "add" => labelling'[q].pr \in Forks
    BY <1>1, <1>4 DEF AddTriggerLabel, LabellingMoves, ForksOnly
  <2>4. QED BY <1>4, <2>2, <2>3 DEF AddTriggerLabel, ForksOnly
<1>5. CASE LabellingFails(r)
  BY <1>1, <1>5 DEF LabellingFails, LabellingMoves, ForksOnly
<1>6. QED BY <1>2, <1>3, <1>4, <1>5 DEF LabelStep

LEMMA SweepStepForks ==
    ASSUME TypeOK, ForksOnly, SweepStep \/ Fail \/ Killed
    PROVE  ForksOnly'
<1> USE DEF OthersUnchanged, PullUnchanged, pull, history, ForksOnly
<1>0. job \in Job
  BY DEF TypeOK
<1>1. CASE StartSweep
  BY <1>0, <1>1 DEF StartSweep, Move, Job
<1>2. ASSUME UNCHANGED <<labelling, labels>>, job' = Idle \/ NextPullRequest
      PROVE  ForksOnly'
  <2>1. job'.labels = {} /\ job'.call \in {"list", "next"}
    BY <1>2, IdleFields DEF NextPullRequest
  <2>2. QED BY <1>2, <2>1
<1>3. CASE EndSweep
  BY <1>2, <1>3 DEF EndSweep
<1>4. CASE ReadPullRequest
  <2>1. PICK p \in todo : job' = [call |-> "reread", pr |-> p, head |-> head[p],
                                  labels |-> labels[p], age |-> age[p] - late]
    BY <1>4 DEF ReadPullRequest
  <2>2. p \in PRs
    BY DEF TypeOK
  <2>3. QED BY <1>4, <2>1, <2>2 DEF ReadPullRequest
<1>5. CASE RereadHead
  <2>1. CASE NextPullRequest
    BY <1>2, <1>5, <2>1 DEF RereadHead
  <2>2. CASE Move(HandleOne(job)) /\ HandleOne(job) # "next"
    <3>1. TriggerLabel \in job.labels
      BY <2>2 DEF HandleOne
    <3>2. job'.labels = job.labels /\ job'.pr = job.pr
      BY <1>0, <2>2 DEF Move, Job
    <3>3. QED BY <1>5, <3>1, <3>2 DEF RereadHead
  <2>3. QED BY <1>5, <2>1, <2>2 DEF RereadHead
<1>6. CASE AddStaleLabel
  <2>1. \A p \in PRs : TriggerLabel \in labels'[p] => TriggerLabel \in labels[p]
    BY <1>6 DEF TypeOK, AddStaleLabel, StaleLabel, TriggerLabel
  <2>2. QED BY <1>0, <1>6, <2>1 DEF AddStaleLabel, At, Move, Job
<1>7. CASE Warn
  BY <1>2, <1>7 DEF Warn, Comment
<1>8. CASE Explain
  BY <1>0, <1>8 DEF Explain, Comment, At, Move, Job
<1>9. CASE Close
  BY <1>2, <1>9 DEF Close
<1>10. CASE Fail
  BY <1>2, <1>10 DEF Fail
<1>11. CASE Killed
  BY <1>2, <1>11 DEF Killed
<1>12. QED
  BY <1>1, <1>3, <1>4, <1>5, <1>6, <1>7, <1>8, <1>9, <1>10, <1>11 DEF SweepStep

LEMMA PeopleForks ==
    ASSUME TypeOK, ForksOnly, NEW p \in PRs, People(p)
    PROVE  ForksOnly'
<1>1. UNCHANGED <<labelling, job>> /\ \A q \in PRs : labels'[q] \subseteq labels[q]
  <2>1. UNCHANGED <<labelling, job>>
    BY DEF People, Push, Unlabel, Discuss, ToggleState, Touch
  <2>2. ASSUME NEW l \in Label, Unlabel(p, l)
        PROVE  \A q \in PRs : labels'[q] \subseteq labels[q]
    BY <2>2 DEF TypeOK, Unlabel
  <2>3. QED BY <2>1, <2>2 DEF People, Push, Discuss, ToggleState
<1>2. QED BY <1>1 DEF ForksOnly

LEMMA ForksStep == TypeOK /\ ForksOnly /\ [Next]_vars => ForksOnly'
<1> SUFFICES ASSUME TypeOK, ForksOnly, [Next]_vars PROVE ForksOnly'
  OBVIOUS
<1>1. CASE NextDay
  BY <1>1 DEF NextDay, ForksOnly
<1>2. CASE UNCHANGED vars
  BY <1>2 DEF vars, pull, ForksOnly
<1>3. QED BY <1>1, <1>2, LabelStepForks, SweepStepForks, PeopleForks DEF Next

\* Only Close makes the bot close, and it closes what it acts on.
LEMMA ClosesOnlyJob ==
    ASSUME TypeOK, [Next]_vars, NEW p \in PRs, state'[p] = "closed by bot"
    PROVE  \/ state[p] = "closed by bot"
           \/ Close /\ p = job.pr
<1>1. CASE SweepStep \/ Fail \/ Killed
  BY <1>1 DEF TypeOK, SweepStep, StartSweep, EndSweep, ReadPullRequest, RereadHead, AddStaleLabel,
              Warn, Explain, Close, Comment, Fail, Killed, PullUnchanged, OthersUnchanged, pull
<1>2. ASSUME NEW r \in Revisions, LabelStep(r) \/ LabellingFails(r)
      PROVE  state' = state
  BY <1>2 DEF LabelStep, RunFails, FindPullRequest, AddTriggerLabel, LabellingFails,
              LabellingOnly, pull
<1>3. ASSUME NEW q \in PRs, People(q)
      PROVE  state'[p] \in {state[p], "open", "closed by people"}
  BY <1>3 DEF TypeOK, People, Push, Unlabel, Discuss, ToggleState
<1>4. CASE NextDay
  BY <1>4 DEF NextDay
<1>5. CASE UNCHANGED vars
  BY <1>5 DEF vars, pull
<1>6. QED BY <1>1, <1>2, <1>3, <1>4, <1>5 DEF Next

\* A notice, once there, stays.
LEMMA NoticesStay ==
    ASSUME TypeOK, [Next]_vars, NEW p \in PRs
    PROVE  notices[p] \subseteq notices'[p]
<1>1. CASE SweepStep \/ Fail \/ Killed
  <2>1. ASSUME NEW marker, Comment(job.pr, marker)
        PROVE  notices[p] \subseteq notices'[p]
    BY <2>1 DEF TypeOK, Comment
  <2>2. CASE Warn \/ Explain
    BY <2>1, <2>2 DEF Warn, Explain
  <2>3. CASE ~(Warn \/ Explain)
    BY <1>1, <2>3 DEF SweepStep, StartSweep, EndSweep, ReadPullRequest, RereadHead, AddStaleLabel,
                      Close, Fail, Killed, PullUnchanged, OthersUnchanged, pull
  <2>4. QED BY <2>2, <2>3
<1>2. ASSUME NEW r \in Revisions, LabelStep(r) \/ LabellingFails(r)
      PROVE  notices' = notices
  BY <1>2 DEF LabelStep, RunFails, FindPullRequest, AddTriggerLabel, LabellingFails,
              LabellingOnly, pull
<1>3. ASSUME NEW q \in PRs, People(q)
      PROVE  notices' = notices
  BY <1>3 DEF People, Push, Unlabel, Discuss, ToggleState, Touch
<1>4. CASE NextDay
  BY <1>4 DEF NextDay
<1>5. CASE UNCHANGED vars
  BY <1>5 DEF vars, pull
<1>6. QED BY <1>1, <1>2, <1>3, <1>4, <1>5 DEF Next

\* A sweep about to close either was, or has just explained itself.
LEMMA ComesToClose ==
    ASSUME TypeOK, [Next]_vars, job'.call = "close"
    PROVE  \/ job' = job
           \/ Explain /\ job'.pr = job.pr
<1>1. CASE SweepStep
  <2>1. job \in Job
    BY DEF TypeOK
  <2>2. ASSUME RereadHead PROVE FALSE
    BY <2>1, <2>2, HandleOneType DEF RereadHead, NextPullRequest, Idle, Move, Job
  <2>3. ASSUME ReadPullRequest PROVE FALSE
    BY <2>3 DEF ReadPullRequest
  <2>4. ASSUME StartSweep \/ AddStaleLabel PROVE FALSE
    BY <2>1, <2>4 DEF StartSweep, AddStaleLabel, Move, Job
  <2>5. ASSUME EndSweep \/ Warn \/ Close PROVE FALSE
    BY <2>5, IdleFields DEF EndSweep, Warn, Close, NextPullRequest
  <2>6. ASSUME Explain PROVE job'.pr = job.pr
    BY <2>1, <2>6 DEF Explain, Move, Job
  <2>7. QED
    BY <1>1, <2>2, <2>3, <2>4, <2>5, <2>6 DEF SweepStep
<1>2. CASE Fail \/ Killed
  BY <1>2 DEF Fail, Killed, NextPullRequest, Idle
<1>3. ASSUME NEW r \in Revisions, LabelStep(r) \/ LabellingFails(r)
      PROVE  job' = job
  BY <1>3 DEF LabelStep, RunFails, FindPullRequest, AddTriggerLabel, LabellingFails,
              LabellingOnly
<1>4. ASSUME NEW q \in PRs, People(q)
      PROVE  job' = job
  BY <1>4 DEF People, Push, Unlabel, Discuss, ToggleState, Touch
<1>5. CASE NextDay
  BY <1>5 DEF NextDay
<1>6. CASE UNCHANGED vars
  BY <1>6 DEF vars
<1>7. QED BY <1>1, <1>2, <1>3, <1>4, <1>5, <1>6 DEF Next

LEMMA ClosingStep == ClosingInv /\ [Next]_vars => ClosingInv'
<1> SUFFICES ASSUME ClosingInv, [Next]_vars PROVE ClosingInv'
  OBVIOUS
<1>1. TypeOK /\ job.pr \in PRs
  BY DEF ClosingInv, TypeOK, Job
<1>2. TypeOK' /\ ForksOnly'
  BY StepType, ForksStep DEF ClosingInv
<1>3. OnlyForksAreClosed'
  BY <1>1, ClosesOnlyJob DEF ClosingInv, OnlyForksAreClosed, ForksOnly, Close, At
<1>4. ClosedWasExplained'
  BY <1>1, ClosesOnlyJob, NoticesStay DEF ClosingInv, Explained, ClosedWasExplained, Close, At
<1>5. job'.call = "close" => "stale-closed" \in notices'[job'.pr]
  <2> SUFFICES ASSUME job'.call = "close" PROVE "stale-closed" \in notices'[job'.pr]
    OBVIOUS
  <2>1. CASE job' = job
    BY <1>1, <2>1, NoticesStay DEF ClosingInv, Explained
  <2>2. CASE Explain /\ job'.pr = job.pr
    BY <1>1, <2>2 DEF Explain, Comment, TypeOK
  <2>3. QED BY <1>1, <2>1, <2>2, ComesToClose
<1>6. QED BY <1>2, <1>3, <1>4, <1>5 DEF ClosingInv, Explained

\* FP-8's scope holds end to end: whatever label jobs, sweeps, pushes and
\* failures interleave, the bot closes only forks' pull requests ...
THEOREM ClosesOnlyForks == Spec => []OnlyForksAreClosed
<1>1. ClosingInv => OnlyForksAreClosed
  BY DEF ClosingInv
<1>2. QED BY <1>1, ClosingInit, ClosingStep, PTL DEF Spec

\* ... and none without the comment that says why.
THEOREM ClosesExplained == Spec => []ClosedWasExplained
<1>1. ClosingInv => ClosedWasExplained
  BY DEF ClosingInv, Explained
<1>2. QED BY <1>1, ClosingInit, ClosingStep, PTL DEF Spec

-----------------------------------------------------------------------------
(* The countdown.                                                          *)

\* Marked at least the countdown before the sweep took the time, and left alone
\* since -- unless touched while it sweeps, or no longer open.
Waited(p) ==
    /\ marked[p] - late >= DaysBeforeClose
    /\ quiet[p] - late >= DaysBeforeClose \/ quiet[p] <= late \/ ~Opened(p)

\* Marking, like a person's touch, is an update: the age never exceeds the time
\* since either, so an age past the threshold, once read, tells of both.
Countdown ==
    /\ \A p \in PRs : age[p] <= marked[p] /\ (Opened(p) => age[p] <= quiet[p])
    /\ job.call = "reread" /\ job.age >= DaysBeforeClose => Waited(job.pr)
    /\ job.call \in {"explain", "close"} => Waited(job.pr)

LEMMA AgesType ==
    ASSUME TypeOK
    PROVE  /\ late \in {0, 1} /\ job \in Job /\ job.pr \in PRs
           /\ DaysBeforeClose \in Nat /\ Oldest \in Nat /\ Oldest > DaysBeforeClose
           /\ \A p \in PRs : /\ age[p] \in 0 .. Oldest /\ age[p] \in Nat
                              /\ marked[p] \in 0 .. Oldest /\ marked[p] \in Nat
                              /\ quiet[p] \in 0 .. Oldest /\ quiet[p] \in Nat
<1>1. late \in {0, 1} /\ job \in Job
  BY DEF TypeOK
<1>2. job.pr \in PRs
  BY <1>1 DEF Job
<1>3. DaysBeforeClose \in Nat /\ Oldest \in Nat /\ Oldest > DaysBeforeClose
  BY StaleAssumption DEF Oldest
<1>4. \A p \in PRs : age[p] \in 0 .. Oldest /\ marked[p] \in 0 .. Oldest /\ quiet[p] \in 0 .. Oldest
  BY DEF TypeOK, Days
<1>5. \A d \in 0 .. Oldest : d \in Nat
  BY <1>3
<1>6. QED BY <1>1, <1>2, <1>3, <1>4, <1>5

LEMMA CountdownInit == Init => Countdown
BY IdleFields DEF Init, Countdown

LEMMA CountdownLabelling ==
    ASSUME TypeOK, Countdown, NEW r \in Revisions, LabelStep(r) \/ LabellingFails(r)
    PROVE  Countdown'
<1>1. UNCHANGED <<job, late, state, marked, quiet>>
  BY DEF LabelStep, RunFails, FindPullRequest, AddTriggerLabel, LabellingFails, LabellingOnly,
         pull, history
<1>2. \A p \in PRs : age'[p] \in {0, age[p]}
  BY DEF TypeOK, LabelStep, RunFails, FindPullRequest, AddTriggerLabel, LabellingFails,
         LabellingOnly, pull
<1>3. \A p \in PRs : age[p] \in Nat /\ marked[p] \in Nat /\ quiet[p] \in Nat
  BY AgesType
<1>4. QED BY <1>1, <1>2, <1>3 DEF Countdown, Waited, Opened

LEMMA CountdownSweep ==
    ASSUME TypeOK, Countdown, SweepStep \/ Fail \/ Killed
    PROVE  Countdown'
<1> DEFINE Ages == \A p \in PRs : age[p] <= marked[p] /\ (Opened(p) => age[p] <= quiet[p])
<1> USE DEF OthersUnchanged, PullUnchanged, pull, history
<1>0. /\ job \in Job /\ job.pr \in PRs /\ late \in {0, 1} /\ DaysBeforeClose \in Nat
      /\ \A p \in PRs : age[p] \in Nat /\ marked[p] \in Nat /\ quiet[p] \in Nat
  BY AgesType
<1>1. ASSUME job'.call \notin {"reread", "explain", "close"}, Ages'
      PROVE  Countdown'
  BY <1>1 DEF Countdown
<1>2. ASSUME PullUnchanged PROVE Ages'
  BY <1>2 DEF Countdown, Opened
<1>3. CASE StartSweep
  BY <1>0, <1>1, <1>2, <1>3 DEF StartSweep, Move, Job
<1>4. CASE EndSweep \/ Fail \/ Killed
  BY <1>1, <1>2, <1>4, IdleFields DEF EndSweep, Fail, Killed, NextPullRequest
<1>5. CASE ReadPullRequest
  <2>1. PICK p \in todo : job' = [call |-> "reread", pr |-> p, head |-> head[p],
                                  labels |-> labels[p], age |-> age[p] - late]
    BY <1>5 DEF ReadPullRequest
  <2>2. p \in PRs
    BY DEF TypeOK
  <2>3. job'.call = "reread" /\ job'.pr = p /\ job'.age = age[p] - late
    BY <2>1
  <2>4. age[p] - late >= DaysBeforeClose => Waited(p)
    BY <1>0, <2>2 DEF Countdown, Waited
  <2>5. UNCHANGED <<state, late, marked, quiet>>
    BY <1>5 DEF ReadPullRequest
  <2>6. QED BY <1>2, <1>5, <2>3, <2>4, <2>5 DEF ReadPullRequest, Countdown, Waited, Opened
<1>6. CASE RereadHead
  <2>1. CASE NextPullRequest
    BY <1>1, <1>2, <1>6, <2>1, IdleFields DEF RereadHead, NextPullRequest
  <2>2. CASE Move(HandleOne(job))
    <3>1. job'.call = HandleOne(job) /\ job'.pr = job.pr
      BY <1>0, <2>2 DEF Move, Job
    <3>2. HandleOne(job) = "explain" => job.age >= DaysBeforeClose
      BY <1>0, HandleOneType DEF HandleOne, Job
    <3>3. UNCHANGED <<state, late, marked, quiet>>
      BY <1>6 DEF RereadHead
    <3>4. job'.call = "explain" => Waited(job.pr)
      BY <1>6, <3>1, <3>2 DEF RereadHead, At, Countdown
    <3>5. QED BY <1>2, <1>6, <3>1, <3>3, <3>4, HandleOneType DEF RereadHead, Countdown, Waited, Opened
  <2>3. QED BY <1>6, <2>1, <2>2 DEF RereadHead
<1>7. CASE AddStaleLabel
  <2>1. \A p \in PRs : \/ age'[p] = 0 /\ marked'[p] = 0
                       \/ age'[p] = age[p] /\ marked'[p] = marked[p]
    BY <1>7 DEF TypeOK, AddStaleLabel
  <2>2. UNCHANGED <<state, quiet>> /\ job'.call = "warn"
    BY <1>0, <1>7 DEF AddStaleLabel, Move, Job
  <2>3. QED BY <1>0, <1>1, <2>1, <2>2 DEF Countdown, Opened
<1>8. ASSUME NEW marker, Comment(job.pr, marker), UNCHANGED <<marked, quiet>> PROVE Ages'
  <2>1. \A p \in PRs : age'[p] \in {0, age[p]}
    BY <1>8 DEF TypeOK, Comment
  <2>2. QED BY <1>0, <1>8, <2>1 DEF Comment, Countdown, Opened
<1>9. CASE Warn
  BY <1>1, <1>8, <1>9, IdleFields DEF Warn, NextPullRequest
<1>10. CASE Explain
  <2>1. job'.call = "close" /\ job'.pr = job.pr /\ Waited(job.pr)
    BY <1>0, <1>10 DEF Explain, Move, Job, At, Countdown
  <2>2. Ages' /\ UNCHANGED <<state, late, marked, quiet>>
    BY <1>8, <1>10 DEF Explain, Comment
  <2>3. QED BY <2>1, <2>2 DEF Countdown, Waited, Opened
<1>11. CASE Close
  <2>1. \A p \in PRs : state'[p] = "open" => state[p] = "open"
    BY <1>11 DEF TypeOK, Close
  <2>2. Ages'
    BY <1>11, <2>1 DEF Close, Countdown, Opened
  <2>3. QED BY <1>1, <1>11, <2>2, IdleFields DEF Close, NextPullRequest
<1>12. QED BY <1>3, <1>4, <1>5, <1>6, <1>7, <1>9, <1>10, <1>11 DEF SweepStep

LEMMA CountdownPeople ==
    ASSUME TypeOK, Countdown, NEW p \in PRs, People(p)
    PROVE  Countdown'
<1>0. /\ late \in {0, 1} /\ job \in Job /\ job.pr \in PRs
      /\ \A q \in PRs : age[q] \in Nat /\ marked[q] \in Nat /\ quiet[q] \in Nat
  BY AgesType
<1>1. Touch(p)
  BY DEF People, Push, Unlabel, Discuss, ToggleState
<1>2. /\ age'[p] = 0 /\ quiet'[p] = 0
      /\ \A q \in PRs \ {p} : age'[q] = age[q] /\ quiet'[q] = quiet[q]
      /\ UNCHANGED <<marked, job, late>>
  BY <1>1 DEF TypeOK, Touch
<1>3. \A q \in PRs \ {p} : state'[q] = state[q]
  BY DEF TypeOK, People, Push, Unlabel, Discuss, ToggleState
<1>4. \A q \in PRs : Waited(q) => Waited(q)'
  BY <1>0, <1>2, <1>3 DEF Waited, Opened
<1>5. \A q \in PRs : age'[q] <= marked'[q] /\ (Opened(q)' => age'[q] <= quiet'[q])
  BY <1>0, <1>2, <1>3 DEF Countdown, Opened
<1>6. QED BY <1>0, <1>2, <1>4, <1>5 DEF Countdown, Waited, Opened

LEMMA CountdownDay == TypeOK /\ Countdown /\ NextDay => Countdown'
<1> SUFFICES ASSUME TypeOK, Countdown, NextDay PROVE Countdown'
  OBVIOUS
<1> DEFINE Older(d) == IF d = Oldest THEN d ELSE d + 1
<1>0. /\ late \in {0, 1} /\ job \in Job /\ job.pr \in PRs
      /\ DaysBeforeClose \in Nat /\ Oldest \in Nat /\ Oldest > DaysBeforeClose
      /\ \A q \in PRs : age[q] \in 0 .. Oldest /\ marked[q] \in 0 .. Oldest
                                               /\ quiet[q] \in 0 .. Oldest
  BY AgesType
<1>1. /\ \A q \in PRs : /\ age'[q] = Older(age[q]) /\ marked'[q] = Older(marked[q])
                        /\ quiet'[q] = IF Opened(q) THEN Older(quiet[q]) ELSE quiet[q]
      /\ UNCHANGED <<state, job>>
  BY DEF TypeOK, NextDay
<1>2. \A a \in 0 .. Oldest, b \in 0 .. Oldest : a <= b => Older(a) <= Older(b)
  BY <1>0
<1>3. \A q \in PRs : age'[q] <= marked'[q] /\ (Opened(q)' => age'[q] <= quiet'[q])
  BY <1>0, <1>1, <1>2 DEF Countdown, Opened
<1>4. CASE At("list")
  BY <1>1, <1>3, <1>4 DEF At, Countdown
<1>5. CASE ~At("list")
  <2>1. late = 0 /\ late' = 1
    BY <1>5 DEF NextDay
  <2>2. \A d \in 0 .. Oldest : d >= DaysBeforeClose => Older(d) - 1 >= DaysBeforeClose
    BY <1>0
  <2>3. \A q \in PRs : Waited(q) => Waited(q)'
    BY <1>0, <1>1, <2>1, <2>2 DEF Waited, Opened
  <2>4. QED BY <1>0, <1>1, <1>3, <2>3 DEF Countdown
<1>6. QED BY <1>4, <1>5

LEMMA CountdownStep == TypeOK /\ Countdown /\ [Next]_vars => Countdown'
<1> SUFFICES ASSUME TypeOK, Countdown, [Next]_vars PROVE Countdown'
  OBVIOUS
<1>1. CASE UNCHANGED vars
  BY <1>1 DEF vars, pull, history, Countdown, Waited, Opened
<1>2. QED BY <1>1, CountdownLabelling, CountdownSweep, CountdownPeople, CountdownDay DEF Next

\* Whatever a person does in between, and however calls fail, at least the whole
\* countdown lies between the mark, or the last touch, and the sweep that closes.
THEOREM ClosesAfterCountdown == Spec => ClosedAfterCountdown
<1> DEFINE Closing ==
      \A p \in PRs :
            Opened(p) /\ state'[p] = "closed by bot" =>
                /\ marked[p] - late >= DaysBeforeClose
                /\ quiet[p] - late >= DaysBeforeClose \/ quiet[p] <= late
<1>1. TypeOK /\ Countdown /\ [Next]_vars => Closing
  BY ClosesOnlyJob DEF Close, At, Countdown, Waited, Opened
<1>2. TypeOK /\ Countdown /\ [Next]_vars => [Closing]_vars
  BY <1>1
<1>3. QED
  BY <1>2, InitType, StepType, CountdownInit, CountdownStep, PTL DEF Spec, ClosedAfterCountdown
=============================================================================
