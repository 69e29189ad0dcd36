------------------------------ MODULE IndexTree ------------------------------
(***************************************************************************)
(* The committed index and the registries it speaks of, as data: package   *)
(* roots, the content-addressed objects beside them, and the checks on     *)
(* them that read no network (core/validate_entry.py), or one answer of it *)
(* (core/observe.py, core/verify_claims.py).                               *)
(*                                                                         *)
(* A digest stands for the bytes that hash to it, so whether an object is  *)
(* an image index, and which platform manifests it lists, are functions of *)
(* its digest.  A root is what its rows, its description and its           *)
(* repository say; everything else in it that people govern moves as       *)
(* repository does.                                                        *)
(***************************************************************************)
EXTENDS Naturals, FiniteSets

CONSTANTS
    Package, Repo, Tag, Digest, Manifest,
    Pinned,             \* tags is_build_pinned_version holds of
    ImageIndex,         \* digests of OCI image indexes within the size ceiling
    Manifests,          \* [ImageIndex -> SUBSET Manifest]: what each lists
    Foreign,            \* <<repository, package>> whose ownership probe says "mismatch"
    Allowed,            \* repositories on the policy's registry hosts
    Private,            \* those whose registry needs a credential
    Reserved,           \* packages under one of the operator's reserved segments
    None

ASSUME TreeAssumption ==
    /\ Package # {}
    /\ Pinned \subseteq Tag
    /\ ImageIndex \subseteq Digest
    /\ Manifests \in [ImageIndex -> SUBSET Manifest]
    /\ Foreign \subseteq Repo \X Package
    /\ Allowed \subseteq Repo /\ Private \subseteq Repo
    /\ Reserved \subseteq Package
    /\ None \notin Digest
    /\ "absent" \notin Repo /\ "malformed" \notin Repo

\* TagEntry.
Row == [content : Digest, yanked : BOOLEAN, ephemeral : BOOLEAN]
NoRow == [content |-> None, yanked |-> FALSE, ephemeral |-> FALSE]

\* PackageRoot; desc is the digests of the readme and the logo.
Root == [repository : Repo, tags : [Tag -> Row \cup {NoRow}], desc : SUBSET Digest]
NoRoot == [repository |-> "absent", tags |-> [t \in Tag |-> NoRow], desc |-> {}]
Malformed == [repository |-> "malformed", tags |-> [t \in Tag |-> NoRow], desc |-> {}]

\* An object file is absent, or its bytes do or do not hash to its name.
Entry == [root    : Root \cup {NoRoot, Malformed},
          objects : [Digest -> {"absent", "sound", "damaged"}]]
Tree == [Package -> Entry]

IsRoot(root) == root \notin {NoRoot, Malformed}
Rows(root) == {t \in Tag : root.tags[t] # NoRow}
Graced(root) == {t \in Rows(root) : root.tags[t].yanked \/ root.tags[t].ephemeral}
Contents(root) == {root.tags[t].content : t \in Rows(root)}

References(root) == Contents(root) \cup root.desc
DanglingReferences(entry) ==
    {d \in References(entry.root) : entry.objects[d] = "absent"}

\* Mutant: yanked rows are no longer walked.
ReachableUnyanked(root) ==
    {root.tags[t].content : t \in {u \in Rows(root) : ~root.tags[u].yanked}} \cup root.desc

ReachableDigests(root) == References(root)

\* What the repository answers for a tag: an observation's content digest,
\* "missing" for a 404, "refused" for what the index does not record.
Observe(answer) ==
    IF answer = None THEN "missing" ELSE IF answer \in ImageIndex THEN "observed" ELSE "refused"

\* observe over what a repository answers for each tag: one tag it refuses stops
\* the sweep, one that is gone meanwhile is passed over.
Observable(answers) == \A t \in Tag : Observe(answers[t]) # "refused"
ObservedTags(answers) == {t \in Tag : Observe(answers[t]) = "observed"}

\* A row keeps its markers whatever its tag points at now, a new one has none,
\* one that was not observed is dropped.
Regenerate(current, answers, desc) ==
    [current EXCEPT
        !.tags = [t \in Tag |-> IF t \in ObservedTags(answers)
                                 THEN [@[t] EXCEPT !.content = answers[t]] ELSE NoRow],
        !.desc = desc]

\* Writing an object replaces what was there under its name.
WithObjects(entry, digests) ==
    [entry EXCEPT !.objects = [d \in Digest |-> IF d \in digests THEN "sound" ELSE @[d]]]

\* Mutant: the objects of the description are left out.
SeedImportUndescribed(entry, repository, answers, desc) ==
    LET root == [repository |-> repository,
                 tags |-> [t \in Tag |-> IF t \in ObservedTags(answers)
                                          THEN [NoRow EXCEPT !.content = answers[t]] ELSE NoRow],
                 desc |-> desc]
    IN  [WithObjects(entry, Contents(root)) EXCEPT !.root = root]

\* What seed-import writes where there was no root: one durable row for each tag
\* observed, the description of its local files, and the objects of both.
SeedImport(entry, repository, answers, desc) ==
    LET root == [repository |-> repository,
                 tags |-> [t \in Tag |-> IF t \in ObservedTags(answers)
                                          THEN [NoRow EXCEPT !.content = answers[t]] ELSE NoRow],
                 desc |-> desc]
    IN  [WithObjects(entry, References(root)) EXCEPT !.root = root]

\* classify_change says "refresh" of a root that was there.
AnnounceShaped(before, after) ==
    /\ IsRoot(before)
    /\ before.repository = after.repository
    /\ \A t \in Rows(before) \cap Rows(after) :
          /\ before.tags[t].yanked = after.tags[t].yanked
          /\ before.tags[t].ephemeral = after.tags[t].ephemeral

\* _validate_one up to its first registry call.
StructurallySound(p, entry, base, fork) ==
    /\ IsRoot(entry.root)
    /\ p \in Reserved /\ fork => AnnounceShaped(base, entry.root)
    /\ entry.root.repository \in Allowed
    /\ DanglingReferences(entry) = {}
    /\ \A d \in Digest : entry.objects[d] # "damaged"
    /\ Contents(entry.root) \subseteq ImageIndex

\* The rows verify_claims takes from the base ref without asking the registry.
CarriedOver(base, root) ==
    IF IsRoot(base) /\ base.repository = root.repository
    THEN {t \in Rows(base) \cap Rows(root) : base.tags[t].content = root.tags[t].content}
    ELSE {}

\* What _verify_blob_claim finds wrong with the bytes behind a claimed digest.
BlobFault(entry, d) ==
    CASE entry.objects[d] = "absent"  -> "missing"
      [] entry.objects[d] = "damaged" -> "hash-mismatch"
      [] entry.objects[d] = "sound"   -> "none"

\* The promise of the tree: all a root refers to is there, as it was hashed.
Closed(entry) == IsRoot(entry.root) => DanglingReferences(entry) = {}
Sound(entry) == \A d \in Digest : entry.objects[d] # "damaged"
=============================================================================
