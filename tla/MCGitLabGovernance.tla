------------------------- MODULE MCGitLabGovernance -------------------------
(***************************************************************************)
(* Small instances of the GitLab governance lane.                          *)
(*                                                                         *)
(* One package, owned by "ann".  The revisions a branch can be at:         *)
(*   tags   moves a tag of the package: a refresh                          *)
(*   own    edits a governance field of it: a person's to judge            *)
(*   ci     a refresh that also edits the CI configuration                 *)
(*   bad    a root that does not parse                                     *)
(*   worse  one, beside an edit of the CI configuration                    *)
(***************************************************************************)
EXTENDS GitLabGovernance, TLC

CONSTANTS tags, own, ci, bad, worse, ann, mia, pkg

Row(content) == [content |-> content, yanked |-> FALSE, ephemeral |-> FALSE]
Root(governed, content) ==
    [governed |-> governed, owners |-> {ann}, tags |-> [t \in {"latest"} |-> Row(content)]]

MCBaseRoot == pkg :> Root("g", "d0")

RootPath == [kind |-> "root", pkg |-> pkg]
ObjectPath == [kind |-> "object", pkg |-> pkg]
CIPath == [kind |-> "repo", pkg |-> "none"]

Revision(paths, root, malformed) ==
    [paths |-> paths, root |-> pkg :> root, malformed |-> malformed]

MCContent ==
       tags  :> Revision({RootPath, ObjectPath}, Root("g", "d1"), {})
    @@ own   :> Revision({RootPath}, Root("h", "d0"), {})
    @@ ci    :> Revision({RootPath, CIPath}, Root("g", "d1"), {})
    @@ bad   :> Revision({RootPath}, Root("g", "d0"), {pkg})
    @@ worse :> Revision({RootPath, CIPath}, Root("g", "d0"), {pkg})

\* One merge request that starts as a refresh.
MCFirstHead == 1 :> tags
MCAuthor == 1 :> ann
MCMaxPushes == 1 :> 1
MCOneReviewer == 1 :> {mia}

\* No sweep, and no property, tells two sweeps apart.
SweepSymmetry == Permutations(Sweeps)

\* Three, and no further push: one whose root does not parse, swept first; an
\* owner's refresh; a fork's governance edit, which mia may approve.
MCFirstHeads == 1 :> bad @@ 2 :> tags @@ 3 :> own
MCAuthors == [m \in 1 .. 3 |-> ann]
MCNoPushes == [m \in 1 .. 3 |-> 0]
MCReviewersOfThird == [m \in 1 .. 3 |-> IF m = 3 THEN {mia} ELSE {}]
=============================================================================
