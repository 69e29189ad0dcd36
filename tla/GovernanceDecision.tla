------------------------- MODULE GovernanceDecision -------------------------
(***************************************************************************)
(* What the governance gate decides about one revision of a change         *)
(* request, as pure operators: the lane classify_pull_request puts it in   *)
(* (cli/classify_pr.py, core/diff.py) and the disposition of that lane     *)
(* (cli/governance_check.py).                                              *)
(*                                                                         *)
(* A package root is a record                                              *)
(*   governed  the fields only a person may edit (repository, status,      *)
(*             created, upstream, ...), as one opaque value                *)
(*   owners    the accounts in owners[]                                    *)
(*   tags      a function from the tags present to rows                    *)
(*             [content, yanked, ephemeral]                                *)
(* or NoRoot when the file does not exist on that side.                    *)
(*                                                                         *)
(* A revision's content is a record                                        *)
(*   paths     the changed paths, each [kind, pkg]: a package "root", a    *)
(*             CAS "object" of that package, any other file under p/       *)
(*             ("tree") or a file outside it ("repo")                      *)
(*   root      [Packages -> root or NoRoot], the roots at the revision     *)
(*   malformed the packages whose root parse_package_root refuses          *)
(***************************************************************************)
EXTENDS Integers, FiniteSets

CONSTANTS
    Packages,       \* package identifiers
    NoRoot,         \* a root file that does not exist
    BaseRoot,       \* [Packages -> root or NoRoot] at the merge base
    AutoMerge       \* the policy's governance.auto_merge dial

ASSUME AutoMergeAssumption == AutoMerge \in {"owners", "always", "never"}

ChangeClass == {"refresh", "new-package", "human-review-required"}

Severity(class) ==
    IF class = "refresh" THEN 0 ELSE IF class = "new-package" THEN 1 ELSE 2

-----------------------------------------------------------------------------
(* One package root.                                                       *)

\* A row both sides have must keep its markers; its content may move.
MarkersKept(before, after) ==
    \A t \in DOMAIN before.tags \cap DOMAIN after.tags :
        /\ before.tags[t].yanked = after.tags[t].yanked
        /\ before.tags[t].ephemeral = after.tags[t].ephemeral

ClassifyChange(before, after) ==
    IF before = NoRoot THEN "new-package"
    ELSE IF /\ before.governed = after.governed
            /\ before.owners = after.owners
            /\ MarkersKept(before, after)
         THEN "refresh"
         ELSE "human-review-required"

\* A removed row is machine-lane only if it was ephemeral at the BASE and the
\* registry confirms the tag is gone. gone is empty when there is no registry.
RemovalClass(before, after, gone) ==
    IF \A t \in DOMAIN before.tags \ DOMAIN after.tags :
            before.tags[t].ephemeral /\ t \in gone
    THEN "refresh"
    ELSE "human-review-required"

ClassifyOneRoot(before, after, gone) ==
    IF after = NoRoot THEN "human-review-required"
    ELSE IF before # NoRoot /\ ClassifyChange(before, after) = "refresh"
         THEN RemovalClass(before, after, gone)
         ELSE ClassifyChange(before, after)

-----------------------------------------------------------------------------
(* One revision.                                                           *)

RootsTouched(paths) == {p.pkg : p \in {q \in paths : q.kind = "root"}}

\* Nothing beyond the touched roots and their own CAS objects.
EveryPathInRefreshScope(paths) ==
    \A p \in paths : p.kind \in {"root", "object"} /\ p.pkg \in RootsTouched(paths)

\* The worst class of any touched root; no root, or a path out of scope, is a
\* person's to judge. paths and root are two arguments because the forge serves
\* them from two reads.
ClassifyPullRequest(paths, root, gone) ==
    LET classes == {ClassifyOneRoot(BaseRoot[p], root[p], gone) : p \in RootsTouched(paths)}
    IN  IF classes = {} \/ ~EveryPathInRefreshScope(paths)
        THEN "human-review-required"
        ELSE CHOOSE c \in classes : \A d \in classes : Severity(d) <= Severity(c)

\* Only the roots of a change in scope are parsed to classify it ...
ClassifyRaises(paths, malformed) ==
    EveryPathInRefreshScope(paths) /\ RootsTouched(paths) \cap malformed # {}

\* ... but the review comment summarises the tag changes of every one that is
\* on both sides.
SummaryRaises(paths, malformed) ==
    \E p \in RootsTouched(paths) \cap malformed : BaseRoot[p] # NoRoot

\* Every account that put bytes on the branch owns every touched root, as the
\* base ref records it (G-19).
OwnsEveryTouchedPackage(paths, accounts) ==
    \A p \in RootsTouched(paths) :
        BaseRoot[p] # NoRoot /\ accounts \subseteq BaseRoot[p].owners

ConfinedToPackageTree(paths) ==
    paths # {} /\ \A p \in paths : p.kind # "repo"

\* A maintainer's approval outranks the dial; nothing else turns a human-lane
\* change green.
Disposition(class, authorIsOwner, approved) ==
    IF \/ approved
       \/ class = "refresh" /\ AutoMerge = "always"
       \/ class = "refresh" /\ AutoMerge = "owners" /\ authorIsOwner
    THEN "success"
    ELSE "pending"
=============================================================================
