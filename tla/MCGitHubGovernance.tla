------------------------- MODULE MCGitHubGovernance -------------------------
(***************************************************************************)
(* A small instance of the GitHub governance lane: one package, owned by    *)
(* "ann", and the revisions its branch can be at:                           *)
(*   tags   moves a tag of the package: a refresh                           *)
(*   again  moves it elsewhere, another refresh                             *)
(*   own    edits a governance field of it: a person's to judge             *)
(*   worse  a root that does not parse, beside an edit of the CI            *)
(*          configuration                                                   *)
(***************************************************************************)
EXTENDS GitHubGovernance, TLC

CONSTANTS tags, again, own, worse, ann, mia, pkg

Row(content) == [content |-> content, yanked |-> FALSE, ephemeral |-> FALSE]
Root(governed, content) ==
    [governed |-> governed, owners |-> {ann}, tags |-> [t \in {"latest"} |-> Row(content)]]

MCBaseRoot == pkg :> Root("g", "d0")

RootPath == [kind |-> "root", pkg |-> pkg]
CIPath == [kind |-> "repo", pkg |-> "none"]

Revision(paths, root, malformed) ==
    [paths |-> paths, root |-> pkg :> root, malformed |-> malformed]

MCContent ==
       tags  :> Revision({RootPath}, Root("g", "d1"), {})
    @@ again :> Revision({RootPath}, Root("g", "d2"), {})
    @@ own   :> Revision({RootPath}, Root("h", "d0"), {})
    @@ worse :> Revision({RootPath, CIPath}, Root("g", "d0"), {pkg})
=============================================================================
