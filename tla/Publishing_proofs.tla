-------------------------- MODULE Publishing_proofs --------------------------
(***************************************************************************)
(* Proofs about commit_files and open_or_update_pull_request, for any        *)
(* publishers, paths, failures and requests of other forks, on either forge. *)
(***************************************************************************)
EXTENDS Publishing, TLAPS

-----------------------------------------------------------------------------
(* Types.                                                                  *)

Numbers == 1 .. Len(commits)

LEMMA IdleAnnouncementType ==
    /\ IdleAnnouncement \in Announcement /\ IdleAnnouncement.base = Main
    /\ IdleAnnouncement.stage = "idle"
  BY DEF IdleAnnouncement, Announcement, Change, Main, NoBranch

\* A publisher that gives up, or goes on with another announcement.
LEMMA AnnouncementGoesOn ==
    ASSUME TypeOK, NEW p \in Publishers, NEW a \in Announcement, a.base \in Numbers,
           pub' = [pub EXCEPT ![p] = a], UNCHANGED commits
    PROVE  /\ pub' \in [Publishers -> Announcement]
           /\ \A q \in Publishers : pub'[q].base \in 1 .. Len(commits')
  BY DEF TypeOK, Numbers

LEMMA GivesUpType ==
    ASSUME TypeOK, NEW p \in Publishers, GivesUp(p), UNCHANGED commits
    PROVE  /\ pub' \in [Publishers -> Announcement]
           /\ \A q \in Publishers : pub'[q].base \in 1 .. Len(commits')
<1>1. IdleAnnouncement.base \in Numbers
  BY IdleAnnouncementType DEF TypeOK, Numbers, Main
<1>2. QED BY <1>1, AnnouncementGoesOn, IdleAnnouncementType DEF GivesUp

LEMMA AnsweredType ==
    ASSUME TypeOK, NEW p \in Publishers, NEW a \in Announcement, a.base \in Numbers,
           Answered(p, a), UNCHANGED commits
    PROVE  /\ pub' \in [Publishers -> Announcement]
           /\ \A q \in Publishers : pub'[q].base \in 1 .. Len(commits')
           /\ faults' \in Nat
<1>1. CASE pub' = [pub EXCEPT ![p] = a] /\ UNCHANGED faults
  BY <1>1, AnnouncementGoesOn DEF TypeOK
<1>2. CASE faults < MaxFaults /\ faults' = faults + 1 /\ GivesUp(p)
  BY <1>2, GivesUpType DEF TypeOK
<1>3. QED BY <1>1, <1>2 DEF Answered

\* What a publisher holds, one stage further.
LEMMA StageType ==
    ASSUME TypeOK, NEW p \in Publishers
    PROVE  /\ pub[p] \in Announcement /\ pub[p].base \in Numbers
           /\ \A s \in {"idle", "read", "made", "looked", "landed", "offer", "done", "refused"} :
                /\ [pub[p] EXCEPT !.stage = s] \in Announcement
                /\ [pub[p] EXCEPT !.stage = s].base = pub[p].base
                /\ [pub[p] EXCEPT !.stage = s].stage = s
  BY DEF TypeOK, Announcement, Numbers

LEMMA LandsType ==
    ASSUME TypeOK, NEW p \in Publishers, NEW parent \in Numbers, Lands(p, parent)
    PROVE  TypeOK'
<1> DEFINE new == Len(commits) + 1
           commit == [parent |-> parent, base |-> pub[p].base, seen |-> pub[p].seen,
                      past |-> commits[parent].past \cup {new},
                      tree |-> After(pub[p].change, commits[parent].tree)]
           done == [pub[p] EXCEPT !.stage = "landed"]
<1>1. commits \in Seq(Commit) /\ Len(commits) \in Nat \ {0} /\ parent \in Nat
  BY DEF TypeOK, Numbers
<1>2. commits[parent] \in Commit
  BY <1>1 DEF Numbers
<1>3. commit \in Commit
  <2>1. pub[p].seen \in Nat /\ pub[p].base \in Nat /\ pub[p].change \in Change
    BY <1>1, StageType DEF Announcement, Numbers
  <2>2. After(pub[p].change, commits[parent].tree) \in SUBSET Paths
    BY <1>2, <2>1 DEF After, Commit, Change
  <2>3. commits[parent].past \cup {new} \in SUBSET Nat
    BY <1>1, <1>2 DEF Commit
  <2>4. QED BY <1>1, <2>1, <2>2, <2>3 DEF Commit
<1>4. commits' = Append(commits, commit)
  BY DEF Lands
<1>5. commits' \in Seq(Commit) /\ Len(commits') = new /\ new \in Nat \ {0} /\ Len(commits) < new
  BY <1>1, <1>3, <1>4
<1>6. done \in Announcement /\ done.base = pub[p].base /\ pub[p].base \in Numbers
  BY StageType
<1>7. pub' = [pub EXCEPT ![p] = done] \/ pub' = [pub EXCEPT ![p] = IdleAnnouncement]
  BY DEF Lands, Answered, GivesUp
<1>8. pub' \in [Publishers -> Announcement]
      /\ \A q \in Publishers : pub'[q].base \in 1 .. Len(commits')
  <2>1. IdleAnnouncement.base \in Numbers
    BY <1>1, IdleAnnouncementType DEF Numbers, Main
  <2>2. pub' \in [Publishers -> Announcement] /\ \A q \in Publishers : pub'[q].base \in Numbers
    BY <1>6, <1>7, <2>1, IdleAnnouncementType DEF TypeOK, Numbers
  <2>3. QED BY <1>1, <1>5, <2>2 DEF Numbers
<1>9. faults' \in Nat
  BY DEF Lands, Answered, TypeOK
<1>10. landed' \subseteq 1 .. Len(commits') /\ tip' \in 0 .. Len(commits')
  BY <1>1, <1>5 DEF Lands, TypeOK
<1>11. forge' = forge /\ ours' = ours /\ theirs' = theirs /\ lastNumber' = lastNumber
  BY DEF Lands, requests
<1>12. QED BY <1>5, <1>8, <1>9, <1>10, <1>11 DEF TypeOK

\* A call that changes nothing but what its publisher holds.
LEMMA HoldingType ==
    ASSUME TypeOK, NEW p \in Publishers, NEW a \in Announcement, a.base \in Numbers,
           pub' = [pub EXCEPT ![p] = a], UNCHANGED <<forge, branch, requests>>, faults' \in Nat
    PROVE  TypeOK'
<1>1. /\ pub' \in [Publishers -> Announcement]
      /\ \A q \in Publishers : pub'[q].base \in 1 .. Len(commits')
  BY AnnouncementGoesOn DEF branch
<1>2. QED BY <1>1 DEF TypeOK, branch, requests

LEMMA StartsOverType ==
    ASSUME TypeOK, NEW p \in Publishers, GivesUp(p), UNCHANGED <<forge, branch, requests>>,
           faults' \in Nat
    PROVE  TypeOK'
<1>1. IdleAnnouncement.base \in Numbers
  BY IdleAnnouncementType DEF TypeOK, Numbers, Main
<1>2. QED BY <1>1, HoldingType, IdleAnnouncementType DEF GivesUp

LEMMA ReadType ==
    ASSUME TypeOK, NEW p \in Publishers, Read(p)
    PROVE  TypeOK'
<1> DEFINE base == IF tip = NoBranch THEN Main ELSE tip
<1>1. base \in Numbers /\ Numbers \subseteq Nat
  BY DEF TypeOK, NoBranch, Main, Numbers
<1>2. commits[base].tree \subseteq Paths
  <2>1. \A n \in Numbers : commits[n] \in Commit
    BY DEF TypeOK, Numbers
  <2> HIDE DEF base
  <2>2. commits[base] \in Commit
    BY <1>1, <2>1
  <2>3. QED BY <2>2 DEF Commit
<1>3. PICK puts \in SUBSET Paths, dels \in SUBSET commits[base].tree :
         pub' = [pub EXCEPT ![p] = [IdleAnnouncement EXCEPT
                    !.stage = "read", !.base = base, !.change = [puts |-> puts, dels |-> dels]]]
  BY DEF Read
<1> HIDE DEF base
<1> DEFINE a == [IdleAnnouncement EXCEPT
                    !.stage = "read", !.base = base, !.change = [puts |-> puts, dels |-> dels]]
<1>4. a \in Announcement /\ a.base = base
  <2> DEFINE change == [puts |-> puts, dels |-> dels]
  <2>1. change \in Change
    BY <1>2, <1>3 DEF Change
  <2>2. base \in Nat
    BY <1>1
  <2> HIDE DEF change
  <2>3. LET next == [IdleAnnouncement EXCEPT !.stage = "read", !.base = base, !.change = change]
        IN  next \in Announcement /\ next.base = base
    BY <2>1, <2>2, IdleAnnouncementType DEF Announcement
  <2>4. QED BY <2>3 DEF change
<1>5. UNCHANGED <<forge, branch, requests>> /\ faults' \in Nat
  BY DEF Read, TypeOK
<1> HIDE DEF a
<1>6. pub' = [pub EXCEPT ![p] = a]
  BY <1>3 DEF a
<1>7. QED BY <1>1, <1>4, <1>5, <1>6, HoldingType

LEMMA LookType ==
    ASSUME TypeOK, NEW p \in Publishers, CreateCommit(p) \/ LookBranch(p) \/ LookTip(p)
    PROVE  TypeOK'
<1>1. faults' \in Nat /\ UNCHANGED <<forge, branch, requests>>
  BY DEF CreateCommit, LookBranch, LookTip, Stale, TypeOK
<1> DEFINE looked == [pub[p] EXCEPT !.stage = "looked", !.seen = tip]
<1>2. looked \in Announcement /\ looked.base \in Numbers
  <2>1. tip \in Nat
    BY DEF TypeOK
  <2>2. QED BY <2>1, StageType DEF Announcement
<1>3. \/ pub' = [pub EXCEPT ![p] = [pub[p] EXCEPT !.stage = "made"]]
      \/ pub' = [pub EXCEPT ![p] = looked]
      \/ GivesUp(p)
  BY DEF CreateCommit, LookBranch, LookTip, Stale, TypeOK
<1> HIDE DEF looked
<1>4. QED BY <1>1, <1>2, <1>3, HoldingType, StartsOverType, StageType

LEMMA CommitType ==
    ASSUME TypeOK, NEW p \in Publishers, CreateRef(p) \/ UpdateRef(p) \/ PostCommit(p)
    PROVE  TypeOK'
<1>1. pub[p].base \in Numbers /\ (tip # NoBranch => tip \in Numbers)
  BY StageType DEF TypeOK, NoBranch, Numbers
<1>2. Stale(p) => TypeOK'
  BY StartsOverType DEF Stale, TypeOK
<1>3. \/ Stale(p)
      \/ \E parent \in Numbers : Lands(p, parent)
  BY <1>1 DEF CreateRef, UpdateRef, PostCommit
<1>4. QED BY <1>2, <1>3, LandsType

LEMMA OfferType ==
    ASSUME TypeOK, NEW p \in Publishers, Find(p) \/ UpdateRequest(p) \/ CreateRequest(p)
    PROVE  TypeOK'
<1>1. ours \subseteq Nat /\ lastNumber \in Nat /\ ours \subseteq 1 .. lastNumber
      /\ theirs \subseteq 1 .. lastNumber
  BY DEF TypeOK
<1>2. CASE Find(p)
  <2>1. PICK n \in IF OpenRequests = {} THEN {0} ELSE OpenRequests :
           pub' = [pub EXCEPT ![p].stage = "offer", ![p].found = n, ![p].closed = FALSE]
    BY <1>2 DEF Find
  <2> DEFINE a == [pub[p] EXCEPT !.stage = "offer", !.found = n, !.closed = FALSE]
  <2>2. n \in Nat
    BY <1>1, <2>1 DEF OpenRequests
  <2>3. a \in Announcement /\ a.base \in Numbers
    BY <2>2, StageType DEF Announcement
  <2>4. pub' = [pub EXCEPT ![p] = a]
    BY <2>1 DEF TypeOK
  <2>5. UNCHANGED <<forge, branch, requests>> /\ faults' \in Nat
    BY <1>2 DEF Find, TypeOK
  <2> HIDE DEF a
  <2>6. QED BY <2>3, <2>4, <2>5, HoldingType
<1>3. CASE UpdateRequest(p)
  BY <1>3, AnsweredType, StageType DEF UpdateRequest, TypeOK, branch, requests
<1>4. CASE CreateRequest(p)
  <2>1. CASE ours # {} \/ tip = NoBranch
    <3>1. pub' = [pub EXCEPT ![p] = [pub[p] EXCEPT !.stage = "refused"]]
      BY <1>4, <2>1 DEF CreateRequest, TypeOK
    <3>2. UNCHANGED <<forge, branch, requests>> /\ faults' \in Nat
      BY <1>4, <2>1 DEF CreateRequest, TypeOK
    <3>3. QED BY <3>1, <3>2, HoldingType, StageType
  <2>2. CASE ~(ours # {} \/ tip = NoBranch)
    <3>1. /\ lastNumber' = lastNumber + 1 /\ ours' = {lastNumber'}
          /\ Answered(p, [pub[p] EXCEPT !.stage = "done"])
          /\ UNCHANGED <<theirs, forge, branch>>
      BY <1>4, <2>2 DEF CreateRequest
    <3>2. /\ pub' \in [Publishers -> Announcement]
          /\ \A q \in Publishers : pub'[q].base \in 1 .. Len(commits')
          /\ faults' \in Nat
      BY <3>1, AnsweredType, StageType DEF branch
    <3>3. lastNumber' \in Nat /\ ours' \subseteq 1 .. lastNumber' /\ theirs' \subseteq 1 .. lastNumber'
      BY <1>1, <3>1
    <3>4. QED BY <3>1, <3>2, <3>3 DEF TypeOK, branch
  <2>3. QED BY <2>1, <2>2
<1>5. QED BY <1>2, <1>3, <1>4

LEMMA OthersType ==
    ASSUME TypeOK, ForeignOpens \/ ForeignCloses \/ Closes
    PROVE  TypeOK'
<1>1. CASE ForeignOpens
  BY <1>1 DEF ForeignOpens, TypeOK, branch
<1>2. CASE ForeignCloses
  BY <1>2 DEF ForeignCloses, TypeOK, branch
<1>3. CASE Closes
  <2>1. pub' \in [Publishers -> Announcement] /\ \A q \in Publishers : pub'[q].base = pub[q].base
    BY <1>3 DEF Closes, TypeOK, Announcement
  <2>2. tip' \in 0 .. Len(commits) /\ landed' \subseteq 1 .. Len(commits)
    BY <1>3 DEF Closes, TypeOK, NoBranch
  <2>3. ours' = {} /\ UNCHANGED <<forge, commits, theirs, lastNumber, faults>>
    BY <1>3 DEF Closes
  <2>4. QED BY <2>1, <2>2, <2>3 DEF TypeOK
<1>4. QED BY <1>1, <1>2, <1>3

LEMMA TypeStep == TypeOK /\ [Next]_vars => TypeOK'
<1> SUFFICES ASSUME TypeOK, [Next]_vars PROVE TypeOK'
  OBVIOUS
<1>1. ASSUME NEW p \in Publishers, Publish(p) PROVE TypeOK'
  BY <1>1, ReadType, LookType, CommitType, OfferType DEF Publish
<1>2. ASSUME NEW p \in Publishers, CallFails(p) PROVE TypeOK'
  BY <1>2, StartsOverType DEF CallFails, TypeOK
<1>3. CASE UNCHANGED vars
  BY <1>3 DEF TypeOK, vars
<1>4. QED BY <1>1, <1>2, <1>3, OthersType DEF Next

LEMMA InitType == Init => TypeOK
<1> SUFFICES ASSUME Init PROVE TypeOK
  OBVIOUS
<1> DEFINE first == [parent |-> 0, base |-> 0, seen |-> NoBranch, past |-> {Main}, tree |-> MainFiles]
<1>1. first \in Commit
  BY PublishingAssumption DEF Commit, NoBranch, Main
<1>2. commits = <<first>>
  BY DEF Init
<1>3. commits \in Seq(Commit) /\ Len(commits) = 1
  BY <1>1, <1>2
<1>4. pub \in [Publishers -> Announcement] /\ \A p \in Publishers : pub[p].base = Main
  BY IdleAnnouncementType DEF Init
<1>5. forge \in {"github", "gitlab"}
  BY PublishingAssumption DEF Init
<1>6. QED BY <1>3, <1>4, <1>5 DEF Init, TypeOK, NoBranch, Main

\* The branch, its commits, the requests and what each publisher holds keep
\* their types, whatever fails and whoever else writes.
THEOREM TypeCorrect == Spec => []TypeOK
  BY InitType, TypeStep, PTL DEF Spec

-----------------------------------------------------------------------------
(* What has landed stays, and where it sits.                               *)

\* A commit's past is closed: who has a commit has all it had.
Ancestry ==
    \A c \in Numbers :
        /\ c \in commits[c].past /\ commits[c].past \subseteq Numbers
        /\ \A d \in commits[c].past : commits[d].past \subseteq commits[c].past

\* The branch has in its past whatever landed on it, which is all a fast-forward
\* of it needs to have.
Kept == Ancestry /\ NothingLost

\* Before it writes, the adapter for GitLab saw the branch where the files were
\* derived, or not there.
Looked ==
    \A p \in Publishers :
        /\ pub[p].stage = "made" => forge = "github"
        /\ pub[p].stage = "looked" /\ forge = "gitlab" => pub[p].seen \in {NoBranch, pub[p].base}

Placed == Looked /\ RebasedOnlyInTheWindow

\* What landing adds, and that it changes nothing there was.
LEMMA LandsAdds ==
    ASSUME TypeOK, NEW p \in Publishers, NEW parent \in Numbers, Lands(p, parent)
    PROVE  /\ Numbers' = Numbers \cup {tip'} /\ tip' \notin Numbers
           /\ \A c \in Numbers : commits'[c] = commits[c]
           /\ commits'[tip'].past = commits[parent].past \cup {tip'}
           /\ commits'[tip'].parent = parent /\ commits'[tip'].base = pub[p].base
           /\ commits'[tip'].seen = pub[p].seen
           /\ landed' = landed \cup {tip'} /\ tip' # NoBranch
<1> DEFINE new == Len(commits) + 1
           commit == [parent |-> parent, base |-> pub[p].base, seen |-> pub[p].seen,
                      past |-> commits[parent].past \cup {new},
                      tree |-> After(pub[p].change, commits[parent].tree)]
<1>1. commits \in Seq(Commit) /\ Len(commits) \in Nat \ {0}
  BY DEF TypeOK
<1>2. commits' = Append(commits, commit) /\ tip' = new /\ landed' = landed \cup {new}
  BY DEF Lands
<1>3. Len(commits') = new /\ \A c \in 1 .. Len(commits) : commits'[c] = commits[c]
  BY <1>1, <1>2
<1>4. commits'[new] = commit
  BY <1>1, <1>2
<1>5. 1 .. new = (1 .. Len(commits)) \cup {new} /\ new \notin 1 .. Len(commits) /\ new # 0
  BY <1>1
<1>6. QED BY <1>2, <1>3, <1>4, <1>5 DEF Numbers, NoBranch

\* Landing on the tip, on what has the tip in its past, or where there is no branch.
LEMMA LandsKeeps ==
    ASSUME TypeOK, Kept, NEW p \in Publishers, NEW parent \in Numbers, Lands(p, parent),
           tip # NoBranch => tip \in commits[parent].past
    PROVE  Kept'
<1> DEFINE past == commits[parent].past
<1>1. landed \subseteq past
  <2>1. CASE tip = NoBranch
    BY <2>1 DEF Kept, NothingLost
  <2>2. CASE tip # NoBranch
    BY <2>2 DEF Kept, NothingLost, Ancestry
  <2>3. QED BY <2>1, <2>2
<1>2. past \subseteq Numbers
  BY DEF Kept, Ancestry
<1>3. NothingLost'
  BY <1>1, LandsAdds DEF NothingLost
<1>4. ASSUME NEW c \in Numbers
      PROVE  /\ c \in commits'[c].past /\ commits'[c].past \subseteq Numbers'
             /\ \A d \in commits'[c].past : commits'[d].past \subseteq commits'[c].past
  BY <1>4, LandsAdds DEF Kept, Ancestry
<1>5. /\ tip' \in commits'[tip'].past /\ commits'[tip'].past \subseteq Numbers'
      /\ \A d \in commits'[tip'].past : commits'[d].past \subseteq commits'[tip'].past
  BY <1>2, LandsAdds DEF Kept, Ancestry
<1>6. Ancestry'
  BY <1>4, <1>5, LandsAdds DEF Ancestry
<1>7. QED BY <1>3, <1>6 DEF Kept

\* Only a landing and a deleted branch change what is kept.
LEMMA KeptStep == TypeOK /\ Kept /\ [Next]_vars => Kept'
<1> SUFFICES ASSUME TypeOK, Kept, [Next]_vars PROVE Kept'
  OBVIOUS
<1>1. UNCHANGED branch => Kept'
  BY DEF branch, Kept, Ancestry, NothingLost, Numbers
<1>2. ASSUME NEW p \in Publishers, Publish(p) PROVE Kept'
  <2>1. pub[p].base \in Numbers /\ (tip # NoBranch => tip \in Numbers)
    BY StageType DEF TypeOK, NoBranch, Numbers
  <2>2. CASE CreateRef(p)
    BY <1>1, <2>1, <2>2, LandsKeeps DEF CreateRef, Stale
  <2>3. CASE UpdateRef(p)
    BY <1>1, <2>1, <2>3, LandsKeeps DEF UpdateRef, Stale
  <2>4. CASE PostCommit(p)
    <3>1. tip # NoBranch => tip \in commits[tip].past
      BY <2>1 DEF Kept, Ancestry
    <3>2. QED BY <1>1, <2>1, <2>4, <3>1, LandsKeeps DEF PostCommit, Stale
  <2>5. CASE Read(p) \/ CreateCommit(p) \/ LookBranch(p) \/ LookTip(p)
             \/ Find(p) \/ UpdateRequest(p) \/ CreateRequest(p)
    BY <1>1, <2>5 DEF Read, CreateCommit, LookBranch, LookTip, Stale, Find, UpdateRequest, CreateRequest
  <2>6. QED BY <1>2, <2>2, <2>3, <2>4, <2>5 DEF Publish
<1>3. CASE Closes
  BY <1>3 DEF Closes, Kept, Ancestry, NothingLost, Numbers
<1>4. CASE (\E p \in Publishers : CallFails(p)) \/ ForeignOpens \/ ForeignCloses \/ UNCHANGED vars
  BY <1>1, <1>4 DEF CallFails, ForeignOpens, ForeignCloses, vars, branch
<1>5. QED BY <1>2, <1>3, <1>4 DEF Next

\* A commit that landed is dropped from the branch by no other publisher, on
\* GitHub because the ref update refuses all but a fast-forward, on GitLab because
\* a commit sits on the tip (commit_files).
THEOREM NothingEverLost == Spec => []NothingLost
<1>1. Init => Kept
  <2> SUFFICES ASSUME Init PROVE Kept
    OBVIOUS
  <2>1. Numbers = {1} /\ commits[1].past = {1}
    BY DEF Init, Numbers, Main
  <2>2. QED BY <2>1 DEF Init, Kept, Ancestry, NothingLost
<1>2. Kept => NothingLost
  BY DEF Kept
<1>3. QED BY <1>1, <1>2, KeptStep, TypeCorrect, PTL DEF Spec

-----------------------------------------------------------------------------
LEMMA LandsPlaced ==
    ASSUME TypeOK, Placed, NEW p \in Publishers, NEW parent \in Numbers, Lands(p, parent),
           parent # pub[p].base => forge = "gitlab" /\ pub[p].seen = pub[p].base
    PROVE  Placed'
<1>1. \A q \in Publishers : q # p => pub'[q] = pub[q]
  BY DEF Lands, Answered, GivesUp, TypeOK
<1>2. pub'[p].stage \in {"landed", "idle"}
  <2>1. pub[p] \in Announcement
    BY StageType
  <2>2. [pub[p] EXCEPT !.stage = "landed"].stage = "landed"
    BY StageType
  <2>3. \/ pub' = [pub EXCEPT ![p] = [pub[p] EXCEPT !.stage = "landed"]]
        \/ pub' = [pub EXCEPT ![p] = IdleAnnouncement]
    BY DEF Lands, Answered, GivesUp
  <2>4. QED BY <2>2, <2>3, IdleAnnouncementType DEF TypeOK
<1>3. forge' = forge
  BY DEF Lands
<1>4. Looked'
  BY <1>1, <1>2, <1>3 DEF Placed, Looked
<1>5. RebasedOnlyInTheWindow'
  <2> SUFFICES ASSUME NEW c \in 2 .. Len(commits'), commits'[c].parent # commits'[c].base
               PROVE  forge = "gitlab" /\ commits'[c].seen = commits'[c].base
    BY <1>3 DEF RebasedOnlyInTheWindow
  <2>1. c \in Numbers' /\ c \in Nat /\ c >= 2
    BY LandsType DEF TypeOK, Numbers
  <2>2. CASE c = tip'
    BY <2>2, LandsAdds
  <2>3. CASE c # tip'
    <3>1. c \in Numbers /\ commits'[c] = commits[c]
      BY <2>1, <2>3, LandsAdds
    <3>2. c \in 2 .. Len(commits)
      BY <2>1, <3>1 DEF Numbers, TypeOK
    <3>3. QED BY <3>1, <3>2 DEF Placed, RebasedOnlyInTheWindow
  <2>4. QED BY <2>2, <2>3
<1>6. QED BY <1>4, <1>5 DEF Placed

LEMMA ReadHolds ==
    ASSUME TypeOK, NEW p \in Publishers, Read(p)
    PROVE  pub'[p].stage = "read" /\ \A q \in Publishers : q # p => pub'[q] = pub[q]
<1> DEFINE base == IF tip = NoBranch THEN Main ELSE tip
<1>1. PICK puts, dels :
         pub' = [pub EXCEPT ![p] = [IdleAnnouncement EXCEPT
                    !.stage = "read", !.base = base, !.change = [puts |-> puts, dels |-> dels]]]
  BY DEF Read
<1> DEFINE change == [puts |-> puts, dels |-> dels]
<1> HIDE DEF base, change
<1>2. [IdleAnnouncement EXCEPT !.stage = "read", !.base = base, !.change = change].stage = "read"
  BY DEF IdleAnnouncement
<1>3. QED BY <1>1, <1>2 DEF TypeOK, change

LEMMA PlacedStep == TypeOK /\ Placed /\ [Next]_vars => Placed'
<1> SUFFICES ASSUME TypeOK, Placed, [Next]_vars PROVE Placed'
  OBVIOUS
<1> DEFINE Kind(a) == [stage |-> a.stage, seen |-> a.seen, base |-> a.base]
\* No commit lands, and whoever is about to write was about to before.
<1>1. ASSUME UNCHANGED <<forge, commits>>,
             \A p \in Publishers : \/ Kind(pub'[p]) = Kind(pub[p])
                                   \/ pub'[p].stage \notin {"made", "looked"}
      PROVE  Placed'
  BY <1>1 DEF Placed, Looked, RebasedOnlyInTheWindow
<1>2. ASSUME NEW p \in Publishers, NEW a, pub' = [pub EXCEPT ![p] = a],
             UNCHANGED <<forge, commits>>,
             /\ a.stage = "made" => forge = "github"
             /\ a.stage = "looked" /\ forge = "gitlab" => a.seen \in {NoBranch, a.base}
      PROVE  Placed'
  BY <1>2 DEF Placed, Looked, RebasedOnlyInTheWindow, TypeOK
<1>3. ASSUME NEW p \in Publishers, GivesUp(p), UNCHANGED <<forge, commits>> PROVE Placed'
  BY <1>2, <1>3, IdleAnnouncementType DEF GivesUp
<1>4. ASSUME NEW p \in Publishers, Publish(p) PROVE Placed'
  <2> USE <1>4
  <2>1. pub[p] \in Announcement /\ pub[p].base \in Numbers /\ (tip # NoBranch => tip \in Numbers)
    BY StageType DEF TypeOK, NoBranch, Numbers
  <2>2. Stale(p) => Placed'
    BY <1>3 DEF Stale, branch
  <2>3. CASE Read(p)
    BY <1>1, <2>3, ReadHolds DEF Read, branch
  <2>4. CASE CreateCommit(p)
    <3>1. pub' = [pub EXCEPT ![p] = [pub[p] EXCEPT !.stage = "made"]] /\ UNCHANGED <<forge, commits>>
          /\ forge = "github"
      BY <2>4 DEF CreateCommit, branch, TypeOK
    <3>2. QED BY <1>2, <3>1, StageType
  <2>5. CASE LookBranch(p)
    <3> DEFINE a == [pub[p] EXCEPT !.stage = "looked", !.seen = tip]
    <3>1. pub' = [pub EXCEPT ![p] = a] /\ UNCHANGED <<forge, commits>>
      BY <2>5 DEF LookBranch, branch, TypeOK
    <3>2. forge = "github"
      BY <2>5 DEF LookBranch, Placed, Looked
    <3>3. a.stage = "looked"
      BY <2>1 DEF Announcement
    <3> HIDE DEF a
    <3>4. QED BY <1>2, <3>1, <3>2, <3>3
  <2>6. CASE LookTip(p)
    <3> DEFINE a == [pub[p] EXCEPT !.stage = "looked", !.seen = tip]
    <3>1. CASE tip \in {NoBranch, pub[p].base}
      <4>1. pub' = [pub EXCEPT ![p] = a] /\ UNCHANGED <<forge, commits>>
        BY <2>6, <3>1 DEF LookTip, branch, TypeOK
      <4>2. a.stage = "looked" /\ a.seen = tip /\ a.base = pub[p].base
        BY <2>1 DEF Announcement
      <4> HIDE DEF a
      <4>3. QED BY <1>2, <3>1, <4>1, <4>2
    <3>2. CASE tip \notin {NoBranch, pub[p].base}
      BY <2>2, <2>6, <3>2 DEF LookTip
    <3>3. QED BY <3>1, <3>2
  <2>7. CASE CreateRef(p) \/ UpdateRef(p)
    BY <2>1, <2>2, <2>7, LandsPlaced DEF CreateRef, UpdateRef
  <2>8. CASE PostCommit(p)
    <3>1. CASE Stale(p)
      BY <2>2, <3>1
    <3>2. CASE ~Stale(p)
      <4> DEFINE parent == IF tip = NoBranch THEN pub[p].base ELSE tip
      <4>1. Lands(p, parent) /\ (pub[p].seen = NoBranch) = (tip = NoBranch)
        BY <2>8, <3>2 DEF PostCommit
      <4>2. pub[p].stage = "looked" /\ forge = "gitlab"
        BY <2>8 DEF PostCommit
      <4>3. pub[p].seen \in {NoBranch, pub[p].base}
        BY <4>2 DEF Placed, Looked
      <4>4. parent \in Numbers
        BY <2>1
      <4>5. parent # pub[p].base => forge = "gitlab" /\ pub[p].seen = pub[p].base
        BY <4>1, <4>2, <4>3
      <4> HIDE DEF parent
      <4>6. QED BY <4>1, <4>4, <4>5, LandsPlaced
    <3>3. QED BY <3>1, <3>2
  <2>9. CASE Find(p)
    <3>1. PICK n : pub' = [pub EXCEPT ![p].stage = "offer", ![p].found = n, ![p].closed = FALSE]
      BY <2>9 DEF Find
    <3>2. \A q \in Publishers : q # p => pub'[q] = pub[q]
      BY <3>1 DEF TypeOK
    <3>3. pub'[p].stage = "offer"
      BY <2>1, <3>1 DEF TypeOK, Announcement
    <3>4. QED BY <1>1, <2>9, <3>2, <3>3 DEF Find, branch
  <2>10. CASE UpdateRequest(p) \/ CreateRequest(p)
    <3>1. UNCHANGED <<forge, commits>>
      BY <2>10 DEF UpdateRequest, CreateRequest, branch
    <3>2. \/ pub' = [pub EXCEPT ![p] = [pub[p] EXCEPT !.stage = "done"]]
          \/ pub' = [pub EXCEPT ![p] = [pub[p] EXCEPT !.stage = "refused"]]
          \/ GivesUp(p)
      BY <2>10 DEF UpdateRequest, CreateRequest, Answered, TypeOK
    <3>3. QED BY <1>2, <1>3, <3>1, <3>2, StageType
  <2>11. QED BY <1>4, <2>3, <2>4, <2>5, <2>6, <2>7, <2>8, <2>9, <2>10 DEF Publish
<1>5. CASE Closes
  <2>1. \A p \in Publishers : Kind(pub'[p]) = Kind(pub[p])
    BY <1>5 DEF Closes, TypeOK, Announcement
  <2>2. QED BY <1>1, <1>5, <2>1 DEF Closes
<1>6. ASSUME NEW p \in Publishers, CallFails(p) PROVE Placed'
  BY <1>3, <1>6 DEF CallFails, branch
<1>7. CASE ForeignOpens \/ ForeignCloses \/ UNCHANGED vars
  BY <1>1, <1>7 DEF ForeignOpens, ForeignCloses, vars, branch
<1>8. QED BY <1>4, <1>5, <1>6, <1>7 DEF Next

\* A commit is on something else than its files were derived from only on GitLab,
\* where the branch moved after the adapter had looked (commit_files).
THEOREM RebasedOnlySo == Spec => []RebasedOnlyInTheWindow
<1>1. Init => Placed
  BY IdleAnnouncementType DEF Init, Placed, Looked, RebasedOnlyInTheWindow
<1>2. Placed => RebasedOnlyInTheWindow
  BY DEF Placed
<1>3. QED BY <1>1, <1>2, PlacedStep, TypeCorrect, PTL DEF Spec

-----------------------------------------------------------------------------
(* Requests.                                                               *)

\* A request that was found is open, or was closed since.
Offered ==
    \A p \in Publishers :
        pub[p].stage = "done" \/ (pub[p].stage = "offer" /\ pub[p].found # 0) =>
            ours # {} \/ pub[p].closed

LEMMA OfferedStep == TypeOK /\ Offered /\ [Next]_vars => Offered'
<1> SUFFICES ASSUME TypeOK, Offered, [Next]_vars PROVE Offered'
  OBVIOUS
<1>1. ASSUME NEW p \in Publishers, ours # {} => ours' # {},
             \A q \in Publishers : q # p => pub'[q] = pub[q],
             \/ pub'[p].stage \notin {"offer", "done"}
             \/ pub'[p].stage = "offer" /\ pub'[p].found = 0
             \/ ours' # {}
             \/ pub'[p].closed
      PROVE  Offered'
  BY <1>1 DEF Offered
<1>2. ASSUME NEW p \in Publishers, GivesUp(p), ours' = ours PROVE Offered'
  BY <1>1, <1>2, IdleAnnouncementType DEF GivesUp, TypeOK
<1>3. ASSUME NEW p \in Publishers, Publish(p) PROVE Offered'
  <2> USE <1>3
  <2>1. pub[p] \in Announcement
    BY DEF TypeOK
  <2>2. Stale(p) => Offered'
    BY <1>2 DEF Stale, requests
  <2>3. CASE Read(p) \/ CreateCommit(p) \/ LookBranch(p) \/ LookTip(p)
    <3>1. CASE Stale(p)
      BY <2>2, <3>1
    <3>2. CASE ~Stale(p)
      <4>1. \A q \in Publishers : q # p => pub'[q] = pub[q]
        BY <2>3, <3>2 DEF Read, CreateCommit, LookBranch, LookTip, TypeOK
      <4>2. ours' = ours
        BY <2>3, <3>2 DEF Read, CreateCommit, LookBranch, LookTip, requests
      <4>3. pub'[p].stage \in {"read", "made", "looked"}
        <5>1. CASE Read(p)
          BY <5>1, ReadHolds
        <5>2. CASE CreateCommit(p) \/ LookBranch(p) \/ LookTip(p)
          <6>1. \/ pub' = [pub EXCEPT ![p].stage = "made"]
                \/ pub' = [pub EXCEPT ![p].stage = "looked", ![p].seen = tip]
            BY <3>2, <5>2 DEF CreateCommit, LookBranch, LookTip
          <6>2. QED BY <2>1, <6>1 DEF TypeOK, Announcement
        <5>3. QED BY <2>3, <5>1, <5>2
      <4>4. QED BY <1>1, <4>1, <4>2, <4>3
    <3>3. QED BY <3>1, <3>2
  <2>4. CASE CreateRef(p) \/ UpdateRef(p) \/ PostCommit(p)
    <3>1. ASSUME NEW parent, Lands(p, parent) PROVE Offered'
      <4>1. ours' = ours /\ \A q \in Publishers : q # p => pub'[q] = pub[q]
        BY <3>1 DEF Lands, requests, Answered, GivesUp, TypeOK
      <4>2. \/ pub' = [pub EXCEPT ![p] = [pub[p] EXCEPT !.stage = "landed"]]
            \/ pub' = [pub EXCEPT ![p] = IdleAnnouncement]
        BY <3>1 DEF Lands, Answered, GivesUp
      <4>3. pub'[p].stage \in {"landed", "idle"}
        <5>1. [pub[p] EXCEPT !.stage = "landed"].stage = "landed"
          BY StageType
        <5>2. QED BY <4>2, <5>1, IdleAnnouncementType DEF TypeOK
      <4>4. QED BY <1>1, <4>1, <4>3
    <3>2. QED BY <2>2, <2>4, <3>1 DEF CreateRef, UpdateRef, PostCommit
  <2>5. CASE Find(p)
    <3>1. PICK n \in IF OpenRequests = {} THEN {0} ELSE OpenRequests :
             pub' = [pub EXCEPT ![p].stage = "offer", ![p].found = n, ![p].closed = FALSE]
      BY <2>5 DEF Find
    <3>2. \A q \in Publishers : q # p => pub'[q] = pub[q]
      BY <3>1 DEF TypeOK
    <3>3. pub'[p].stage = "offer" /\ pub'[p].found = n
      BY <2>1, <3>1 DEF TypeOK, Announcement
    <3>4. ours' = ours
      BY <2>5 DEF Find, requests
    <3>5. n = 0 \/ ours # {}
      BY <3>1 DEF OpenRequests
    <3>6. QED BY <1>1, <3>2, <3>3, <3>4, <3>5
  <2>6. CASE UpdateRequest(p)
    <3>1. CASE GivesUp(p)
      BY <1>2, <2>6, <3>1 DEF UpdateRequest, requests
    <3>2. CASE pub' = [pub EXCEPT ![p] = [pub[p] EXCEPT !.stage = "done"]]
      <4>1. pub'[p].closed = pub[p].closed /\ \A q \in Publishers : q # p => pub'[q] = pub[q]
        BY <2>1, <3>2 DEF TypeOK, Announcement
      <4>2. (ours # {} \/ pub[p].closed) /\ ours' = ours
        BY <2>6 DEF UpdateRequest, Offered, requests
      <4>3. QED BY <1>1, <4>1, <4>2
    <3>3. QED BY <2>6, <3>1, <3>2 DEF UpdateRequest, Answered
  <2>7. CASE CreateRequest(p)
    <3>1. CASE ours # {} \/ tip = NoBranch
      <4>1. pub' = [pub EXCEPT ![p] = [pub[p] EXCEPT !.stage = "refused"]] /\ ours' = ours
        BY <2>7, <3>1 DEF CreateRequest, requests, TypeOK
      <4>2. QED BY <1>1, <4>1, StageType DEF TypeOK
    <3>2. CASE ~(ours # {} \/ tip = NoBranch)
      <4>1. ours' # {} /\ \A q \in Publishers : q # p => pub'[q] = pub[q]
        BY <2>7, <3>2 DEF CreateRequest, Answered, GivesUp, TypeOK
      <4>2. QED BY <1>1, <4>1
    <3>3. QED BY <3>1, <3>2
  <2>8. QED BY <1>3, <2>3, <2>4, <2>5, <2>6, <2>7 DEF Publish
<1>4. CASE Closes
  <2>1. \A p \in Publishers : pub'[p].closed
    BY <1>4 DEF Closes, TypeOK, Announcement
  <2>2. QED BY <2>1 DEF Offered
<1>5. ASSUME NEW p \in Publishers, CallFails(p) PROVE Offered'
  BY <1>2, <1>5 DEF CallFails, requests
<1>6. CASE ForeignOpens \/ ForeignCloses \/ UNCHANGED vars
  BY <1>6 DEF ForeignOpens, ForeignCloses, vars, Offered
<1>7. QED BY <1>3, <1>4, <1>5, <1>6 DEF Next

\* Who is done has its own request open, or it was closed after it was found: no
\* other fork's counts (open_or_update_pull_request).
THEOREM DoneAlwaysOffered == Spec => []DoneIsOffered
<1>1. Init => Offered
  BY IdleAnnouncementType DEF Init, Offered
<1>2. Offered => DoneIsOffered
  BY DEF Offered, DoneIsOffered
<1>3. QED BY <1>1, <1>2, OfferedStep, TypeCorrect, PTL DEF Spec
=============================================================================
