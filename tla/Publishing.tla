------------------------------ MODULE Publishing ------------------------------
(***************************************************************************)
(* commit_files and open_or_update_pull_request, with which a publisher       *)
(* announces on a branch: both read and then write, with other publishers      *)
(* writing in between.                                                      *)
(*                                                                         *)
(* GitHub builds objects nobody sees and lets the ref update refuse; GitLab   *)
(* commits on top of whatever the tip is, so the adapter looks first.          *)
(*                                                                         *)
(* External, from how the adapters use them: the forges' answers, the          *)
(* publishers that call commit_files (ports.py: read the ref, derive the       *)
(* files, commit, offer; start over on a TransientError), and the people who   *)
(* open, merge and close things.  One branch is modelled, the one publishers    *)
(* meet on.                                                                 *)
(***************************************************************************)
EXTENDS Integers, Sequences

CONSTANTS
    Publishers,
    Paths,
    MainFiles,      \* what main's tip holds
    Forges,         \* bound: subset of {"github", "gitlab"}
    MaxForeign,     \* bound: requests other forks open
    MaxFaults       \* bound: API calls that fail, or whose answer is lost

ASSUME PublishingAssumption ==
    /\ MainFiles \subseteq Paths
    /\ Forges \subseteq {"github", "gitlab"}
    /\ MaxForeign \in Nat /\ MaxFaults \in Nat

VARIABLES
    forge,          \* the one this deployment is on
    commits,        \* every commit that landed, main's tip first
    tip,            \* the branch, NoBranch before it is cut and once it is deleted
    ours, theirs,   \* the open requests for it, and for other forks' branches of its name
    lastNumber,     \* of a request
    pub,            \* each publisher's announcement
    faults,
    landed          \* history: commits that landed on the present branch

vars == <<forge, commits, tip, ours, theirs, lastNumber, pub, faults, landed>>

NoBranch == 0
Main == 1

Change == [puts : SUBSET Paths, dels : SUBSET Paths]

Commit == [parent : Nat,
           base : Nat,              \* what its files were derived from
           seen : Nat,              \* the tip commit_files saw before it wrote
           past : SUBSET Nat,       \* its ancestors and itself
           tree : SUBSET Paths]

Announcement ==
    [stage : {"idle", "read", "made", "looked", "landed", "offer", "done", "refused"},
     base : Nat, change : Change,
     seen : Nat,
     found : Nat,                   \* the open request, 0 for none
     closed : BOOLEAN]              \* history: the request was closed since it looked

TypeOK ==
    /\ forge \in {"github", "gitlab"}
    /\ commits \in Seq(Commit) /\ Len(commits) \in Nat \ {0}
    /\ tip \in 0 .. Len(commits)
    /\ lastNumber \in Nat
    /\ ours \subseteq 1 .. lastNumber /\ theirs \subseteq 1 .. lastNumber
    /\ pub \in [Publishers -> Announcement]
    /\ \A p \in Publishers : pub[p].base \in 1 .. Len(commits)
    /\ faults \in Nat
    /\ landed \subseteq 1 .. Len(commits)

-----------------------------------------------------------------------------
IdleAnnouncement ==
    [stage |-> "idle", base |-> Main, change |-> [puts |-> {}, dels |-> {}], seen |-> NoBranch,
     found |-> 0, closed |-> FALSE]

Init ==
    /\ forge \in Forges
    /\ commits = <<[parent |-> 0, base |-> 0, seen |-> NoBranch, past |-> {Main},
                    tree |-> MainFiles]>>
    /\ tip = NoBranch
    /\ ours = {} /\ theirs = {} /\ lastNumber = 0
    /\ pub = [p \in Publishers |-> IdleAnnouncement]
    /\ faults = 0
    /\ landed = {}

branch == <<commits, tip, landed>>
requests == <<ours, theirs, lastNumber>>

\* A failed call raises TransientError, and the publisher's next run starts over.
GivesUp(p) == pub' = [pub EXCEPT ![p] = IdleAnnouncement]

\* The answer to a write that took effect can still be lost.
Answered(p, done) ==
    \/ pub' = [pub EXCEPT ![p] = done] /\ UNCHANGED faults
    \/ faults < MaxFaults /\ faults' = faults + 1 /\ GivesUp(p)

\* check_transient, or the transport underneath: any call at all.
CallFails(p) ==
    /\ pub[p].stage \in {"read", "made", "looked", "landed", "offer"}
    /\ faults < MaxFaults /\ faults' = faults + 1
    /\ GivesUp(p)
    /\ UNCHANGED <<forge, branch, requests>>

-----------------------------------------------------------------------------
(* commit_files.                                                           *)

\* The caller: get_ref_sha, then the files, derived from what is there.
Read(p) ==
    /\ pub[p].stage = "idle"
    /\ LET base == IF tip = NoBranch THEN Main ELSE tip
       IN \E puts \in SUBSET Paths, dels \in SUBSET commits[base].tree :
            /\ puts \cap dels = {} /\ puts \cup dels # {}
            /\ pub' = [pub EXCEPT ![p] = [IdleAnnouncement EXCEPT
                                !.stage = "read", !.base = base,
                                !.change = [puts |-> puts, dels |-> dels]]]
    /\ UNCHANGED <<forge, branch, requests, faults>>

After(change, tree) == (tree \ change.dels) \cup change.puts

\* The commit of p lands on parent and the branch moves to it.
Lands(p, parent) ==
    LET new == Len(commits) + 1 IN
    /\ commits' = Append(commits,
            [parent |-> parent, base |-> pub[p].base, seen |-> pub[p].seen,
             past |-> commits[parent].past \cup {new},
             tree |-> After(pub[p].change, commits[parent].tree)])
    /\ tip' = new
    /\ landed' = landed \cup {new}
    /\ Answered(p, [pub[p] EXCEPT !.stage = "landed"])
    /\ UNCHANGED <<forge, requests>>

Stale(p) == GivesUp(p) /\ UNCHANGED <<forge, branch, requests, faults>>

\* GitHub: blobs, a tree on top of base_sha's, a commit whose parent is base_sha,
\* none of it on any branch; then _update_branch asks whether there is one.
CreateCommit(p) ==
    /\ forge = "github"
    /\ pub[p].stage = "read"
    /\ pub' = [pub EXCEPT ![p].stage = "made"]
    /\ UNCHANGED <<forge, branch, requests, faults>>

LookBranch(p) ==
    /\ pub[p].stage = "made"
    /\ pub' = [pub EXCEPT ![p].stage = "looked", ![p].seen = tip]
    /\ UNCHANGED <<forge, branch, requests, faults>>

\* POST a ref where there was none: 422 when there is one by now.
CreateRef(p) ==
    /\ forge = "github"
    /\ pub[p].stage = "looked" /\ pub[p].seen = NoBranch
    /\ IF tip = NoBranch THEN Lands(p, pub[p].base) ELSE Stale(p)

\* Mutant: the ref is moved with force.
UpdateRefForced(p) ==
    /\ forge = "github"
    /\ pub[p].stage = "looked" /\ pub[p].seen # NoBranch
    /\ IF tip # NoBranch THEN Lands(p, pub[p].base) ELSE Stale(p)

\* PATCH with force=False: 409 or 422 unless it is a fast-forward.
UpdateRef(p) ==
    /\ forge = "github"
    /\ pub[p].stage = "looked" /\ pub[p].seen # NoBranch
    /\ IF tip # NoBranch /\ tip \in commits[pub[p].base].past
       THEN Lands(p, pub[p].base)
       ELSE Stale(p)

\* Mutant: nobody looks whether the branch moved.
LookTipUnchecked(p) ==
    /\ forge = "gitlab"
    /\ pub[p].stage = "read"
    /\ pub' = [pub EXCEPT ![p].stage = "looked", ![p].seen = tip]
    /\ UNCHANGED <<forge, branch, requests, faults>>

\* Mutant: a branch that is not there counts as one that moved.
LookTipNeedsBranch(p) ==
    /\ forge = "gitlab"
    /\ pub[p].stage = "read"
    /\ IF tip = pub[p].base
       THEN /\ pub' = [pub EXCEPT ![p].stage = "looked", ![p].seen = tip]
            /\ UNCHANGED <<forge, branch, requests, faults>>
       ELSE Stale(p)

\* GitLab: the adapter reads the tip and refuses itself.  Which paths exist is
\* probed at base_sha, which never changes.
LookTip(p) ==
    /\ forge = "gitlab"
    /\ pub[p].stage = "read"
    /\ IF tip \in {NoBranch, pub[p].base}
       THEN /\ pub' = [pub EXCEPT ![p].stage = "looked", ![p].seen = tip]
            /\ UNCHANGED <<forge, branch, requests, faults>>
       ELSE Stale(p)

\* The actions build_action chose: create fails on a path that exists, update and
\* delete on one that does not.
Applies(change, base, onto) ==
    /\ (change.puts \ base) \cap onto = {}
    /\ (change.puts \cap base) \cup change.dels \subseteq onto

\* A start point is only legal for a branch that is not there, and a branch that is
\* not there needs one: the rest is a 400.
PostCommit(p) ==
    LET parent == IF tip = NoBranch THEN pub[p].base ELSE tip IN
    /\ forge = "gitlab"
    /\ pub[p].stage = "looked"
    /\ IF /\ (pub[p].seen = NoBranch) = (tip = NoBranch)
          /\ Applies(pub[p].change, commits[pub[p].base].tree, commits[parent].tree)
       THEN Lands(p, parent)
       ELSE Stale(p)

-----------------------------------------------------------------------------
(* open_or_update_pull_request.                                            *)

\* Mutant: another fork's request from a branch of that name will do.
OpenRequestsOfAnyFork == ours \cup theirs

\* GitHub asks for owner:branch, GitLab narrows to the source project itself.
OpenRequests == ours

Find(p) ==
    /\ pub[p].stage = "landed"
    /\ \E n \in IF OpenRequests = {} THEN {0} ELSE OpenRequests :
            pub' = [pub EXCEPT ![p].stage = "offer", ![p].found = n, ![p].closed = FALSE]
    /\ UNCHANGED <<forge, branch, requests, faults>>

\* An edit of title and body: also of one that was closed meanwhile.
UpdateRequest(p) ==
    /\ pub[p].stage = "offer" /\ pub[p].found # 0
    /\ Answered(p, [pub[p] EXCEPT !.stage = "done"])
    /\ UNCHANGED <<forge, branch, requests>>

\* The forges allow one open request per branch, and need the branch: otherwise
\* a ForgeError, which nobody retries.
CreateRequest(p) ==
    /\ pub[p].stage = "offer" /\ pub[p].found = 0
    /\ IF ours # {} \/ tip = NoBranch
       THEN /\ pub' = [pub EXCEPT ![p].stage = "refused"]
            /\ UNCHANGED <<requests, faults>>
       ELSE /\ lastNumber' = lastNumber + 1
            /\ ours' = {lastNumber'}
            /\ Answered(p, [pub[p] EXCEPT !.stage = "done"])
            /\ UNCHANGED theirs
    /\ UNCHANGED <<forge, branch>>

-----------------------------------------------------------------------------
(* Everyone else.                                                          *)

ForeignOpens ==
    /\ lastNumber < MaxForeign
    /\ lastNumber' = lastNumber + 1
    /\ theirs' = theirs \cup {lastNumber'}
    /\ UNCHANGED <<forge, branch, ours, pub, faults>>

ForeignCloses ==
    /\ \E n \in theirs : theirs' = theirs \ {n}
    /\ UNCHANGED <<forge, branch, ours, lastNumber, pub, faults>>

\* Our request is closed, or merged, which may delete its branch.
Closes ==
    /\ ours # {}
    /\ ours' = {}
    /\ pub' = [p \in Publishers |-> [pub[p] EXCEPT !.closed = TRUE]]
    /\ \E deleted \in BOOLEAN :
        /\ tip' = IF deleted THEN NoBranch ELSE tip
        /\ landed' = IF deleted THEN {} ELSE landed
    /\ UNCHANGED <<forge, commits, theirs, lastNumber, faults>>

-----------------------------------------------------------------------------
Publish(p) ==
    \/ Read(p) \/ CreateCommit(p) \/ LookBranch(p) \/ CreateRef(p) \/ UpdateRef(p)
    \/ LookTip(p) \/ PostCommit(p) \/ Find(p) \/ UpdateRequest(p) \/ CreateRequest(p)

Next ==
    \/ \E p \in Publishers : Publish(p) \/ CallFails(p)
    \/ ForeignOpens \/ ForeignCloses \/ Closes

Spec == Init /\ [][Next]_vars

\* A publisher told to run again does.
FairSpec == Spec /\ \A p \in Publishers : WF_vars(Publish(p))

-----------------------------------------------------------------------------
(* Properties.                                                             *)

\* Two publishers on one branch: a commit that landed is never dropped from it by
\* another one.
NothingLost == \A c \in landed : tip # NoBranch /\ c \in commits[tip].past

\* "Never silently rebased": a commit sits on something else than it was derived
\* from only on GitLab, and only when the branch moved after the adapter looked.
RebasedOnlyInTheWindow ==
    \A c \in 2 .. Len(commits) :
        commits[c].parent # commits[c].base =>
            forge = "gitlab" /\ commits[c].seen = commits[c].base

\* A publisher is done only with its own request open, or closed since it looked:
\* not with another fork's.
DoneIsOffered == \A p \in Publishers : pub[p].stage = "done" => ours # {} \/ pub[p].closed

\* Told to run again on every lost race, every announcement ends.
AnnouncementsEnd == \A p \in Publishers : <>(pub[p].stage \in {"done", "refused"})
=============================================================================
