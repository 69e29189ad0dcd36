--------------------------- MODULE IndexGate_proofs ---------------------------
(***************************************************************************)
(* Proofs about the index and its gate, for any packages, registries,      *)
(* requests and first tree.                                                *)
(***************************************************************************)
EXTENDS IndexGate, TLAPS

-----------------------------------------------------------------------------
(* Types: of the trees.                                                    *)

Roots == Root \cup {NoRoot, Malformed}

LEMMA RowType ==
    /\ NoRow \notin Row
    /\ \A row \in Row \cup {NoRow}, d \in Digest : [row EXCEPT !.content = d] \in Row
    /\ \A row \in Row : /\ [row EXCEPT !.yanked = ~@] \in Row
                        /\ [row EXCEPT !.ephemeral = ~@] \in Row
<1>1. NoRow \notin Row
  <2>1. NoRow.content = None
    BY DEF NoRow
  <2>2. \A row \in Row : row.content \in Digest
    BY DEF Row
  <2>3. QED BY <2>1, <2>2, TreeAssumption
<1>2. ASSUME NEW row \in Row \cup {NoRow}, NEW d \in Digest PROVE [row EXCEPT !.content = d] \in Row
  <2> DEFINE any == [content : Digest \cup {None}, yanked : BOOLEAN, ephemeral : BOOLEAN]
  <2>1. Row \subseteq any
    BY DEF Row
  <2>2. NoRow \in any
    BY DEF NoRow
  <2>3. row \in any
    BY <2>1, <2>2
  <2>4. QED BY <2>3 DEF Row
<1>3. ASSUME NEW row \in Row
      PROVE  [row EXCEPT !.yanked = ~@] \in Row /\ [row EXCEPT !.ephemeral = ~@] \in Row
  <2>1. (~row.yanked) \in BOOLEAN /\ (~row.ephemeral) \in BOOLEAN
    BY DEF Row
  <2> DEFINE yanked == ~row.yanked
             ephemeral == ~row.ephemeral
  <2>2. yanked \in BOOLEAN /\ ephemeral \in BOOLEAN
    BY <2>1
  <2> HIDE DEF yanked, ephemeral
  <2>3. [row EXCEPT !.yanked = yanked] \in Row /\ [row EXCEPT !.ephemeral = ephemeral] \in Row
    BY <2>2 DEF Row
  <2>4. QED BY <2>3 DEF yanked, ephemeral
<1>4. QED BY <1>1, <1>2, <1>3

LEMMA RootsApart ==
    /\ NoRoot \notin Root /\ Malformed \notin Root
    /\ \A root \in Roots : IsRoot(root) <=> root \in Root
<1>1. NoRoot.repository = "absent" /\ Malformed.repository = "malformed"
  BY DEF NoRoot, Malformed
<1>2. \A root \in Root : root.repository \in Repo
  BY DEF Root
<1>3. QED BY <1>1, <1>2, TreeAssumption DEF IsRoot, Roots

LEMMA EntryFields ==
    ASSUME NEW entry \in Entry
    PROVE  /\ entry.root \in Roots
           /\ entry.objects \in [Digest -> {"absent", "sound", "damaged"}]
  BY DEF Entry, Roots

LEMMA RootFields ==
    ASSUME NEW root \in Roots
    PROVE  /\ root.tags \in [Tag -> Row \cup {NoRow}] /\ root.desc \in SUBSET Digest
           /\ IsRoot(root) => root.repository \in Repo
<1>1. CASE root \in Root
  BY <1>1 DEF Root
<1>2. CASE root = NoRoot
  BY <1>2, RootsApart DEF NoRoot, Roots
<1>3. CASE root = Malformed
  BY <1>3, RootsApart DEF Malformed, Roots
<1>4. QED BY <1>1, <1>2, <1>3 DEF Roots

LEMMA NewEntry ==
    ASSUME NEW entry \in Entry
    PROVE  /\ \A root \in Roots : /\ [entry EXCEPT !.root = root] \in Entry
                                  /\ [entry EXCEPT !.root = root].root = root
                                  /\ [entry EXCEPT !.root = root].objects = entry.objects
           /\ \A objects \in [Digest -> {"absent", "sound", "damaged"}] :
                 /\ [entry EXCEPT !.objects = objects] \in Entry
                 /\ [entry EXCEPT !.objects = objects].root = entry.root
                 /\ [entry EXCEPT !.objects = objects].objects = objects
  BY DEF Entry, Roots

LEMMA NewRoot ==
    ASSUME NEW root \in Root
    PROVE  /\ \A tags \in [Tag -> Row \cup {NoRow}] : [root EXCEPT !.tags = tags] \in Root
           /\ \A desc \in SUBSET Digest : [root EXCEPT !.desc = desc] \in Root
           /\ \A repository \in Repo : [root EXCEPT !.repository = repository] \in Root
           /\ \A tags \in [Tag -> Row \cup {NoRow}], desc \in SUBSET Digest :
                [root EXCEPT !.tags = tags, !.desc = desc] \in Root
  BY DEF Root

LEMMA UnservedType ==
    /\ Unserved \in Entry /\ Unserved.root = NoRoot
    /\ Unserved.objects = [d \in Digest |-> "absent"]
    /\ NoTree \in Tree
<1>1. Unserved \in Entry
  BY DEF Unserved, Entry
<1>2. QED BY <1>1 DEF Unserved, NoTree, Tree

LEMMA IdleGateType == Idle \in Job /\ Idle.phase = "idle" /\ Idle.calls = {}
<1>1. (CHOOSE n \in Request : TRUE) \in Request /\ (CHOOSE p \in Package : TRUE) \in Package
  BY GateAssumption, TreeAssumption
<1> DEFINE n == CHOOSE m \in Request : TRUE
           p == CHOOSE q \in Package : TRUE
           idle == [phase |-> "idle", request |-> n, base |-> NoTree, todo |-> {}, package |-> p,
                    calls |-> {}, failed |-> FALSE]
<1>2. Idle = idle /\ n \in Request /\ p \in Package
  BY <1>1 DEF Idle
<1> HIDE DEF n, p
<1>3. idle \in Job /\ idle.phase = "idle" /\ idle.calls = {}
  BY <1>2, UnservedType DEF Job
<1>4. QED BY <1>2, <1>3

-----------------------------------------------------------------------------
(* Types: of what people and tools propose.                                *)

LEMMA WithObjectType ==
    ASSUME NEW entry \in Entry, NEW d \in Digest
    PROVE  WithObject(entry, d) \in Entry /\ WithObject(entry, d).root = entry.root
<1> DEFINE o == IF entry.objects[d] = "absent" THEN "sound" ELSE entry.objects[d]
           objects == [entry.objects EXCEPT ![d] = o]
<1>1. WithObject(entry, d) = [entry EXCEPT !.objects = objects]
  BY DEF WithObject
<1>2. o \in {"absent", "sound", "damaged"}
  BY EntryFields
<1> HIDE DEF o
<1>3. objects \in [Digest -> {"absent", "sound", "damaged"}]
  BY <1>2, EntryFields
<1> HIDE DEF objects
<1>4. QED BY <1>1, <1>3, NewEntry

LEMMA WithObjectsType ==
    ASSUME NEW entry \in Entry, NEW digests
    PROVE  WithObjects(entry, digests) \in Entry /\ WithObjects(entry, digests).root = entry.root
<1> DEFINE objects == [d \in Digest |-> IF d \in digests THEN "sound" ELSE entry.objects[d]]
<1>1. WithObjects(entry, digests) = [entry EXCEPT !.objects = objects]
  BY DEF WithObjects
<1>2. objects \in [Digest -> {"absent", "sound", "damaged"}]
  BY EntryFields
<1> HIDE DEF objects
<1>3. QED BY <1>1, <1>2, NewEntry

LEMMA WithRowType ==
    ASSUME NEW entry \in Entry, entry.root \in Root, NEW t \in Tag, NEW row \in Row \cup {NoRow}
    PROVE  WithRow(entry, t, row) \in Entry
<1> DEFINE tags == [entry.root.tags EXCEPT ![t] = row]
           root == [entry.root EXCEPT !.tags = tags]
<1>1. WithRow(entry, t, row) = [entry EXCEPT !.root = root]
  BY DEF WithRow
<1>2. tags \in [Tag -> Row \cup {NoRow}]
  BY DEF Root
<1> HIDE DEF tags
<1>3. root \in Roots
  BY <1>2, NewRoot DEF Roots
<1> HIDE DEF root
<1>4. QED BY <1>1, <1>3, NewEntry

LEMMA RowEditsType ==
    ASSUME NEW entry \in Entry, entry.root \in Root
    PROVE  /\ \A t \in Tag, d \in Digest : Announce(entry, t, d) \in Entry
           /\ \A t \in Rows(entry.root) : /\ WithRow(entry, t, NoRow) \in Entry
                                          /\ ToggleYanked(entry, t) \in Entry
                                          /\ ToggleEphemeral(entry, t) \in Entry
<1>1. \A t \in Tag : entry.root.tags[t] \in Row \cup {NoRow}
  BY DEF Root
<1>2. \A t \in Rows(entry.root) : t \in Tag /\ entry.root.tags[t] \in Row
  BY <1>1 DEF Rows
<1>3. ASSUME NEW t \in Tag, NEW d \in Digest PROVE Announce(entry, t, d) \in Entry
  <2>1. [entry.root.tags[t] EXCEPT !.content = d] \in Row
    BY <1>1, RowType
  <2>2. QED BY <2>1, WithObjectType, WithRowType DEF Announce
<1>4. ASSUME NEW t \in Rows(entry.root)
      PROVE  /\ WithRow(entry, t, NoRow) \in Entry
             /\ ToggleYanked(entry, t) \in Entry /\ ToggleEphemeral(entry, t) \in Entry
  <2>1. /\ [entry.root.tags[t] EXCEPT !.yanked = ~@] \in Row
        /\ [entry.root.tags[t] EXCEPT !.ephemeral = ~@] \in Row
    BY <1>2, RowType
  <2>2. QED BY <1>2, <2>1, WithRowType DEF ToggleYanked, ToggleEphemeral
<1>5. QED BY <1>3, <1>4

LEMMA EditsType ==
    ASSUME NEW entry \in Entry, IsRoot(entry.root)
    PROVE  Edits(entry) \subseteq Entry
<1>1. entry.root \in Root
  BY EntryFields, RootsApart
<1>2. ASSUME NEW d \in Digest PROVE Redescribe(entry, d) \in Entry
  <2>1. [entry.root EXCEPT !.desc = {d}] \in Roots
    BY <1>1, NewRoot DEF Roots
  <2>2. QED BY <2>1, WithObjectType, NewEntry DEF Redescribe
<1>3. ASSUME NEW r \in Repo PROVE Repoint(entry, r) \in Entry
  <2>1. [entry.root EXCEPT !.repository = r] \in Roots
    BY <1>1, NewRoot DEF Roots
  <2>2. QED BY <2>1, NewEntry DEF Repoint
<1>4. {[entry EXCEPT !.root = NoRoot], [entry EXCEPT !.root = Malformed], Unserved} \subseteq Entry
  BY NewEntry, UnservedType DEF Roots
<1>5. RootEdits(entry) \subseteq Entry
  BY <1>2, <1>3, <1>4 DEF RootEdits
<1>6. RowEdits(entry) \subseteq Entry
  BY <1>1, RowEditsType DEF RowEdits
<1>7. Announcements(entry) \subseteq Entry
  BY <1>1, RowEditsType DEF Announcements
<1>8. QED BY <1>5, <1>6, <1>7 DEF Edits

LEMMA WithObjectAsType ==
    ASSUME NEW entry \in Entry, NEW d \in Digest, NEW o \in {"absent", "sound", "damaged"}
    PROVE  WithObjectAs(entry, d, o) \in Entry /\ WithObjectAs(entry, d, o).root = entry.root
<1> DEFINE objects == [entry.objects EXCEPT ![d] = o]
<1>1. WithObjectAs(entry, d, o) = [entry EXCEPT !.objects = objects]
  BY DEF WithObjectAs
<1>2. objects \in [Digest -> {"absent", "sound", "damaged"}]
  BY EntryFields
<1> HIDE DEF objects
<1>3. QED BY <1>1, <1>2, NewEntry

LEMMA ObjectEditsType == ASSUME NEW entry \in Entry PROVE ObjectEdits(entry) \subseteq Entry
BY WithObjectAsType DEF ObjectEdits

LEMMA ClaimType == ASSUME NEW r \in Repo PROVE Claim(r) \in Entry
<1> DEFINE tags == [t \in Tag |-> NoRow]
           root == [repository |-> r, tags |-> tags, desc |-> {}]
<1>1. tags \in [Tag -> Row \cup {NoRow}]
  OBVIOUS
<1>2. [NoRoot EXCEPT !.repository = r] = root
  BY DEF NoRoot
<1> HIDE DEF tags
<1>3. root \in Roots
  BY <1>1 DEF Root, Roots
<1> HIDE DEF root
<1>4. QED BY <1>2, <1>3, UnservedType, NewEntry DEF Claim

LEMMA PackageEditsType == ASSUME NEW entry \in Entry PROVE PackageEdits(entry) \subseteq Entry
BY ObjectEditsType, EditsType, ClaimType DEF PackageEdits

LEMMA ProposalsType == ASSUME NEW tree \in Tree PROVE Proposals(tree) \subseteq Tree
<1>1. ASSUME NEW p \in Package, NEW e \in PackageEdits(tree[p]) PROVE [tree EXCEPT ![p] = e] \in Tree
  <2>1. e \in Entry
    BY PackageEditsType DEF Tree
  <2>2. QED BY <2>1 DEF Tree
<1>3. ASSUME NEW p \in Package, NEW q \in Package, NEW d \in Digest
      PROVE  Renamed(tree, p, q, d) \in Tree
  <2> DEFINE o == tree[p].objects[d]
             first == [tree EXCEPT ![q] = WithObjectAs(tree[q], d, o)]
  <2>1. /\ tree[p] \in Entry /\ tree[q] \in Entry
        /\ o \in {"absent", "sound", "damaged"}
    BY EntryFields DEF Tree
  <2>2. Renamed(tree, p, q, d) = [first EXCEPT ![p] = WithObjectAs(first[p], d, "absent")]
    BY DEF Renamed
  <2> HIDE DEF o
  <2>3. WithObjectAs(tree[q], d, o) \in Entry
    BY <2>1, WithObjectAsType
  <2>4. first \in Tree
    BY <2>3 DEF Tree
  <2> HIDE DEF first
  <2>5. first[p] \in Entry
    BY <2>4 DEF Tree
  <2>6. WithObjectAs(first[p], d, "absent") \in Entry
    BY <2>5, WithObjectAsType
  <2>7. QED BY <2>2, <2>4, <2>6 DEF Tree
<1>4. Rewritten(tree) \subseteq Tree
  BY <1>1 DEF Rewritten
<1>5. Renames(tree) \subseteq Tree
  BY <1>3 DEF Renames
<1>6. QED BY <1>4, <1>5 DEF Proposals

LEMMA RegenerateType ==
    ASSUME NEW current \in Root, NEW answers \in [Tag -> Digest \cup {None}],
           NEW desc \in SUBSET Digest
    PROVE  Regenerate(current, answers, desc) \in Root
<1> DEFINE tags == [t \in Tag |-> IF t \in ObservedTags(answers)
                                   THEN [current.tags[t] EXCEPT !.content = answers[t]] ELSE NoRow]
<1>1. Regenerate(current, answers, desc) = [current EXCEPT !.tags = tags, !.desc = desc]
  BY DEF Regenerate
<1>2. ASSUME NEW t \in ObservedTags(answers)
      PROVE  t \in Tag /\ answers[t] \in Digest
  BY TreeAssumption DEF ObservedTags, Observe
<1>3. \A t \in ObservedTags(answers) : [current.tags[t] EXCEPT !.content = answers[t]] \in Row
  <2>1. \A t \in Tag : current.tags[t] \in Row \cup {NoRow}
    BY DEF Root
  <2>2. QED BY <1>2, <2>1, RowType
<1>4. tags \in [Tag -> Row \cup {NoRow}]
  BY <1>3
<1> HIDE DEF tags
<1>5. [current EXCEPT !.tags = tags, !.desc = desc] \in Root
  BY <1>4 DEF Root
<1>6. QED BY <1>1, <1>5

LEMMA SeedImportType ==
    ASSUME NEW entry \in Entry, NEW r \in Repo, NEW answers \in [Tag -> Digest \cup {None}],
           NEW desc \in SUBSET Digest
    PROVE  SeedImport(entry, r, answers, desc) \in Entry
<1> DEFINE tags == [t \in Tag |-> IF t \in ObservedTags(answers)
                                   THEN [NoRow EXCEPT !.content = answers[t]] ELSE NoRow]
           root == [repository |-> r, tags |-> tags, desc |-> desc]
<1>1. SeedImport(entry, r, answers, desc) = [WithObjects(entry, References(root)) EXCEPT !.root = root]
  BY DEF SeedImport
<1>2. \A t \in ObservedTags(answers) : answers[t] \in Digest
  BY TreeAssumption DEF ObservedTags, Observe
<1>3. \A t \in ObservedTags(answers) : [NoRow EXCEPT !.content = answers[t]] \in Row
  BY <1>2, RowType
<1>4. tags \in [Tag -> Row \cup {NoRow}]
  BY <1>3
<1> HIDE DEF tags
<1>5. root \in Roots
  BY <1>4 DEF Root, Roots
<1> HIDE DEF root
<1>6. QED BY <1>1, <1>5, WithObjectsType, NewEntry

LEMMA AnnouncedType ==
    ASSUME NEW entry \in Entry, IsRoot(entry.root), NEW answers \in [Tag -> Digest \cup {None}],
           NEW desc \in SUBSET Digest
    PROVE  Announced(entry, answers, desc) \in Entry
<1> DEFINE root == Regenerate(entry.root, answers, desc)
           digests == Contents(root) \cup (desc \ entry.root.desc)
<1>1. root \in Roots
  BY EntryFields, RootsApart, RegenerateType DEF Roots
<1>2. Announced(entry, answers, desc) = [WithObjects(entry, digests) EXCEPT !.root = root]
  BY DEF Announced
<1> HIDE DEF root, digests
<1>3. QED BY <1>1, <1>2, WithObjectsType, NewEntry

LEMMA WrittenType ==
    ASSUME NEW tree \in Tree, serves \in [Repo -> [Tag -> Digest \cup {None}]]
    PROVE  Written(tree) \subseteq Tree
<1>1. Descriptions \subseteq SUBSET Digest
  BY DEF Descriptions
<1>2. \A r \in Repo : serves[r] \in [Tag -> Digest \cup {None}]
  OBVIOUS
<1>3. ASSUME NEW p \in Package PROVE SeedImportsOf(tree[p]) \subseteq Entry
  <2>1. tree[p] \in Entry
    BY DEF Tree
  <2>2. \A r \in Repo : \A desc \in Descriptions : SeedImport(tree[p], r, serves[r], desc) \in Entry
    BY <1>1, <1>2, <2>1, SeedImportType
  <2>3. QED BY <2>2 DEF SeedImportsOf
<1>4. ASSUME NEW p \in Package, IsRoot(tree[p].root) PROVE AnnouncesOf(tree[p]) \subseteq Entry
  <2>1. tree[p] \in Entry
    BY DEF Tree
  <2>2. tree[p].root.desc \in SUBSET Digest /\ tree[p].root.repository \in Repo
    BY <1>4, <2>1, EntryFields, RootFields
  <2>3. \A desc \in {tree[p].root.desc} \cup Descriptions :
           Announced(tree[p], serves[tree[p].root.repository], desc) \in Entry
    BY <1>1, <1>2, <1>4, <2>1, <2>2, AnnouncedType
  <2>4. QED BY <2>3 DEF AnnouncesOf
<1>5. \A p \in Package : \A e \in Entry : [tree EXCEPT ![p] = e] \in Tree
  BY DEF Tree
<1>6. SeedImports(tree) \subseteq Tree
  BY <1>3, <1>5 DEF SeedImports
<1>7. Announces(tree) \subseteq Tree
  BY <1>4, <1>5 DEF Announces
<1>8. QED BY <1>6, <1>7 DEF Written

-----------------------------------------------------------------------------
(* Types: of what a merge and a render leave.                              *)

LEMMA MergedEntryType ==
    ASSUME NEW base \in Entry, NEW ours \in Entry, NEW theirs \in Entry,
           EntriesAgree(base, ours, theirs)
    PROVE  /\ MergedEntry(base, ours, theirs) \in Entry
           /\ MergedEntry(base, ours, theirs).root = MergedRoot(base.root, ours.root, theirs.root)
<1>1. MergedRoot(base.root, ours.root, theirs.root) \in Roots
  <2>1. base.root \in Roots /\ ours.root \in Roots /\ theirs.root \in Roots
    BY EntryFields
  <2>2. CASE Agreed(base.root, ours.root, theirs.root)
    BY <2>1, <2>2 DEF MergedRoot, Merged
  <2>3. CASE ~Agreed(base.root, ours.root, theirs.root)
    <3>1. base.root \in Root /\ ours.root \in Root /\ theirs.root \in Root
      BY <2>1, <2>3, RootsApart DEF EntriesAgree, RootsAgree
    <3> DEFINE tags == [t \in Tag |-> Merged(base.root.tags[t], ours.root.tags[t], theirs.root.tags[t])]
               repository == Merged(base.root.repository, ours.root.repository, theirs.root.repository)
               desc == Merged(base.root.desc, ours.root.desc, theirs.root.desc)
    <3>2. MergedRoot(base.root, ours.root, theirs.root)
            = [repository |-> repository, tags |-> tags, desc |-> desc]
      BY <2>3 DEF MergedRoot
    <3>3. tags \in [Tag -> Row \cup {NoRow}]
      BY <3>1 DEF Root, Merged
    <3>4. repository \in Repo /\ desc \in SUBSET Digest
      BY <3>1 DEF Root, Merged
    <3> HIDE DEF tags, repository, desc
    <3>5. [repository |-> repository, tags |-> tags, desc |-> desc] \in Root
      BY <3>3, <3>4 DEF Root
    <3>6. QED BY <3>2, <3>5 DEF Roots
  <2>4. QED BY <2>2, <2>3
<1> DEFINE root == MergedRoot(base.root, ours.root, theirs.root)
           objects == [d \in Digest |-> Merged(base.objects[d], ours.objects[d], theirs.objects[d])]
<1>2. objects \in [Digest -> {"absent", "sound", "damaged"}]
  BY EntryFields DEF Merged
<1>3. MergedEntry(base, ours, theirs) = [root |-> root, objects |-> objects]
  BY DEF MergedEntry
<1>4. root \in Roots
  BY <1>1
<1> HIDE DEF root, objects
<1>5. [root |-> root, objects |-> objects] \in Entry /\ [root |-> root, objects |-> objects].root = root
  BY <1>2, <1>4 DEF Entry, Roots
<1>6. QED BY <1>3, <1>5 DEF root

LEMMA RenderedEntryType ==
    ASSUME NEW entry \in Entry
    PROVE  /\ RenderedEntry(entry) \in Entry /\ RenderedEntry(entry).root = entry.root
           /\ \A d \in Digest : RenderedEntry(entry).objects[d] =
                 IF d \in ReachableDigests(entry.root) THEN entry.objects[d] ELSE "absent"
<1> DEFINE objects == [d \in Digest |-> IF d \in ReachableDigests(entry.root)
                                         THEN entry.objects[d] ELSE "absent"]
<1>1. RenderedEntry(entry) = [entry EXCEPT !.objects = objects]
  BY DEF RenderedEntry
<1>2. objects \in [Digest -> {"absent", "sound", "damaged"}]
  BY EntryFields
<1>3. \A d \in Digest : objects[d] = IF d \in ReachableDigests(entry.root)
                                       THEN entry.objects[d] ELSE "absent"
  OBVIOUS
<1> HIDE DEF objects
<1>4. QED BY <1>1, <1>2, <1>3, NewEntry

-----------------------------------------------------------------------------
(* Types: of the job and of the whole state.                               *)

IsJob(job) == job \in Job /\ (job.phase \in {"scope", "owner", "claim"} <=> job.calls # {})

LEMMA JobFields ==
    ASSUME NEW job \in Job
    PROVE  /\ job.request \in Request /\ job.base \in Tree /\ job.todo \in SUBSET Package
           /\ job.package \in Package /\ job.calls \in SUBSET Calls /\ job.failed \in BOOLEAN
BY DEF Job

LEMMA ProceedType ==
    ASSUME NEW job \in Job, NEW scope \in SUBSET Calls, NEW owner \in SUBSET Calls,
           NEW claims \in SUBSET Calls
    PROVE  /\ IsJob(Proceed(job, scope, owner, claims))
           /\ Proceed(job, scope, owner, claims).phase # "idle"
           /\ Proceed(job, scope, owner, claims).request = job.request
           /\ Proceed(job, scope, owner, claims).base = job.base
           /\ Proceed(job, scope, owner, claims).todo = job.todo
           /\ Proceed(job, scope, owner, claims).package = job.package
           /\ Proceed(job, scope, owner, claims).failed = job.failed
<1>1. CASE scope # {}
  BY <1>1 DEF Proceed, IsJob, Job
<1>2. CASE scope = {} /\ owner # {}
  BY <1>2 DEF Proceed, IsJob, Job
<1>3. CASE scope = {} /\ owner = {} /\ claims # {}
  BY <1>3 DEF Proceed, IsJob, Job
<1>4. CASE scope = {} /\ owner = {} /\ claims = {}
  BY <1>4 DEF Proceed, IsJob, Job
<1>5. QED BY <1>1, <1>2, <1>3, <1>4

LEMMA RejectType ==
    ASSUME NEW job \in Job
    PROVE  /\ IsJob(Reject(job)) /\ Reject(job).failed /\ Reject(job).phase # "idle"
           /\ Reject(job).request = job.request /\ Reject(job).base = job.base
           /\ Reject(job).todo = job.todo /\ Reject(job).package = job.package
BY DEF Reject, IsJob, Job

LEMMA CallsType ==
    /\ {OwnerCall} \in SUBSET Calls
    /\ \A root \in Roots : Contents(root) \subseteq ImageIndex => ScopeCalls(root) \in SUBSET Calls
    /\ \A base, root : ClaimCalls(base, root) \in SUBSET Calls
<1>1. {OwnerCall} \in SUBSET Calls
  BY DEF Calls
<1>2. ASSUME NEW root \in Roots, Contents(root) \subseteq ImageIndex
      PROVE  ScopeCalls(root) \in SUBSET Calls
  <2>1. ASSUME NEW t \in Rows(root), NEW m \in Manifests[root.tags[t].content]
        PROVE  ScopeCall(t, m) \in Calls
    <3>1. root.tags[t].content \in ImageIndex
      BY <1>2 DEF Contents
    <3>2. t \in Tag /\ m \in Manifest
      BY <3>1, TreeAssumption DEF Rows
    <3>3. ScopeCall(t, m) \in ScopeCallSet
      BY <3>2 DEF ScopeCallSet
    <3>4. QED BY <3>3 DEF Calls
  <2>2. QED BY <2>1 DEF ScopeCalls
<1>3. ASSUME NEW base, NEW root PROVE ClaimCalls(base, root) \in SUBSET Calls
  <2>1. \A t \in Rows(root) : ClaimCall(t) \in ClaimCallSet
    BY DEF Rows, ClaimCallSet
  <2>2. ClaimCallSet \subseteq Calls
    BY DEF Calls
  <2>3. QED BY <2>1, <2>2 DEF ClaimCalls
<1>4. QED BY <1>1, <1>2, <1>3

Registries ==
    /\ serves \in [Repo -> [Tag -> Digest \cup {None}]]
    /\ holds \in [Repo -> SUBSET Manifest]
    /\ moves \in 0 .. MaxMoves
    /\ shown \subseteq Repo \X Tag \X Digest

LEMMA TypeParts ==
    TypeOK <=> /\ main \in Tree /\ served \in Tree
               /\ request \in [Request -> RequestState]
               /\ IsJob(gate) /\ Registries
               /\ crossed \subseteq Package /\ repointed \subseteq Package
BY DEF TypeOK, IsJob, Registries

LEMMA RequestFields ==
    ASSUME NEW r \in RequestState
    PROVE  r.base \in Tree /\ r.head \in Tree
BY DEF RequestState

LEMMA InitType == Init => TypeOK
<1> SUFFICES ASSUME Init PROVE TypeOK
  OBVIOUS
<1>1. main \in Tree /\ served \in Tree
  BY GateAssumption, UnservedType DEF Init
<1>2. request \in [Request -> RequestState]
  <2> DEFINE r == [status |-> "none", base |-> NoTree, head |-> NoTree, written |-> FALSE,
                   opened |-> 0, check |-> "none"]
  <2>1. r \in RequestState
    <3>1. 0 \in 0 .. MaxMoves
      BY GateAssumption
    <3>2. QED BY <3>1, UnservedType DEF RequestState
  <2>2. request = [n \in Request |-> r]
    BY DEF Init
  <2> HIDE DEF r
  <2>3. QED BY <2>1, <2>2
<1>3. IsJob(gate)
  BY IdleGateType DEF Init, IsJob
<1>4. Registries
  <2>1. moves \in 0 .. MaxMoves
    BY GateAssumption DEF Init
  <2>2. shown \subseteq Repo \X Tag \X Digest
    BY DEF Init, Shows
  <2>3. serves \in [Repo -> [Tag -> Digest \cup {None}]] /\ holds \in [Repo -> SUBSET Manifest]
    BY GateAssumption DEF Init
  <2>4. QED BY <2>1, <2>2, <2>3 DEF Registries
<1>5. crossed \subseteq Package /\ repointed \subseteq Package
  BY DEF Init
<1>6. QED BY <1>1, <1>2, <1>3, <1>4, <1>5, TypeParts

LEMMA NextTypeParts ==
    ASSUME main' \in Tree, served' \in Tree, request' \in [Request -> RequestState],
           IsJob(gate'), Registries', crossed' \subseteq Package, repointed' \subseteq Package
    PROVE  TypeOK'
<1>1. gate' \in Job /\ (gate'.phase \in {"scope", "owner", "claim"} <=> gate'.calls # {})
  BY DEF IsJob
<1>2. /\ serves' \in [Repo -> [Tag -> Digest \cup {None}]] /\ holds' \in [Repo -> SUBSET Manifest]
      /\ moves' \in 0 .. MaxMoves /\ shown' \subseteq Repo \X Tag \X Digest
  BY DEF Registries
<1>3. QED BY <1>1, <1>2 DEF TypeOK

LEMMA OpenType == ASSUME TypeOK, NEW n \in Request, Open(n) PROVE TypeOK'
<1>1. PICK written \in BOOLEAN : \E head \in IF written THEN Written(main) ELSE Proposals(main) :
          request' = [request EXCEPT ![n] = [status |-> "open", base |-> main, head |-> head,
                                             written |-> written, opened |-> moves, check |-> "none"]]
  BY DEF Open
<1>2. PICK head \in IF written THEN Written(main) ELSE Proposals(main) :
          request' = [request EXCEPT ![n] = [status |-> "open", base |-> main, head |-> head,
                                             written |-> written, opened |-> moves, check |-> "none"]]
  BY <1>1
<1>3. head \in Tree
  BY WrittenType, ProposalsType DEF TypeOK
<1> DEFINE r == [status |-> "open", base |-> main, head |-> head, written |-> written,
                 opened |-> moves, check |-> "none"]
<1>4. r \in RequestState
  BY <1>3 DEF RequestState, TypeOK
<1>5. request' = [request EXCEPT ![n] = r]
  BY <1>2
<1> HIDE DEF r
<1>6. request' \in [Request -> RequestState]
  BY <1>4, <1>5 DEF TypeOK
<1>7. IsJob(gate') /\ Registries'
  BY TypeParts DEF Open, registries, Registries
<1>8. main' \in Tree /\ served' \in Tree /\ crossed' \subseteq Package /\ repointed' \subseteq Package
  BY DEF Open, registries, history, TypeOK
<1>9. QED BY <1>6, <1>7, <1>8, NextTypeParts

LEMMA GateOnlyType == ASSUME TypeOK, GateOnly, IsJob(gate') PROVE TypeOK'
<1>1. Registries'
  BY TypeParts DEF GateOnly, registries, Registries
<1>2. /\ main' \in Tree /\ served' \in Tree /\ request' \in [Request -> RequestState]
      /\ crossed' \subseteq Package /\ repointed' \subseteq Package
  BY DEF GateOnly, history, TypeOK
<1>3. QED BY <1>1, <1>2, NextTypeParts

LEMMA StartGateType == ASSUME TypeOK, NEW n \in Request, StartGate(n) PROVE TypeOK' /\ GateOnly
<1>1. PICK ref \in BaseRefs :
          gate' = [phase |-> "package", request |-> n, base |-> BaseTree(n, ref),
                   todo |-> PackagesToValidate(request[n].base, request[n].head),
                   package |-> gate.package, calls |-> {}, failed |-> FALSE]
  BY DEF StartGate
<1> DEFINE base == BaseTree(n, ref)
           todo == PackagesToValidate(request[n].base, request[n].head)
<1>2. base \in Tree
  BY RequestFields DEF BaseTree, TypeOK
<1>3. todo \in SUBSET Package
  BY DEF PackagesToValidate, ChangedRoots, ObjectOwners
<1>4. gate.package \in Package
  BY JobFields DEF TypeOK
<1>5. gate' = [phase |-> "package", request |-> n, base |-> base, todo |-> todo,
               package |-> gate.package, calls |-> {}, failed |-> FALSE]
  BY <1>1
<1> HIDE DEF base, todo
<1>6. IsJob(gate')
  BY <1>2, <1>3, <1>4, <1>5 DEF IsJob, Job
<1>7. GateOnly
  BY DEF StartGate, GateOnly
<1>8. QED BY <1>6, <1>7, GateOnlyType

\* What each step of a job leaves of it, and of what it went on.
GateStep ==
    \/ \E p \in Package : ValidateOne(p)
    \/ \E call \in gate.calls : CheckDigestInScope(call) \/ VerifyTagClaim(call)
    \/ CheckOwnership

LEMMA ValidateOneType ==
    ASSUME TypeOK, NEW p \in Package, ValidateOne(p)
    PROVE  /\ IsJob(gate') /\ gate'.phase # "idle" /\ gate'.request = gate.request
           /\ gate'.base = gate.base /\ gate'.todo = gate.todo \ {p} /\ gate'.package = p
           /\ gate.failed => gate'.failed
           /\ gate'.failed \/ StructurallySound(p, Head(p), gate.base[p].root, FromFork(gate.request))
<1> DEFINE entry == Head(p)
           job == [gate EXCEPT !.todo = @ \ {p}, !.package = p]
           sound == StructurallySound(p, entry, gate.base[p].root, FromFork(gate.request))
<1>1. gate' = IF ~sound THEN Reject(job)
              ELSE IF entry.root.repository \in Private THEN job
              ELSE Proceed(job, ScopeCalls(entry.root), {OwnerCall}, {})
  BY DEF ValidateOne
<1>2. /\ gate \in Job /\ gate.phase = "package" /\ gate.calls = {}
  BY DEF ValidateOne, TypeOK
<1>3. /\ job \in Job /\ job.phase = "package" /\ job.calls = {} /\ job.request = gate.request
      /\ job.base = gate.base /\ job.todo = gate.todo \ {p} /\ job.package = p
      /\ job.failed = gate.failed
  BY <1>2 DEF Job
<1>4. entry \in Entry
  BY <1>2, JobFields, RequestFields DEF Head, Tree, TypeOK
<1>5. sound => Contents(entry.root) \subseteq ImageIndex
  BY DEF StructurallySound
<1> HIDE DEF entry, job, sound
<1>6. CASE ~sound
  BY <1>1, <1>3, <1>6, RejectType
<1>7. CASE sound /\ entry.root.repository \in Private
  BY <1>1, <1>3, <1>7 DEF IsJob, entry, sound
<1>8. CASE sound /\ entry.root.repository \notin Private
  <2>1. ScopeCalls(entry.root) \in SUBSET Calls /\ {OwnerCall} \in SUBSET Calls
    BY <1>4, <1>5, <1>8, CallsType, EntryFields
  <2>2. gate' = Proceed(job, ScopeCalls(entry.root), {OwnerCall}, {})
    BY <1>1, <1>8
  <2>3. sound
    BY <1>8
  <2>4. QED BY <1>3, <2>1, <2>2, <2>3, ProceedType DEF entry, sound
<1>9. QED BY <1>6, <1>7, <1>8

LEMMA CallType ==
    ASSUME TypeOK, CheckOwnership \/ \E call \in gate.calls : CheckDigestInScope(call) \/ VerifyTagClaim(call)
    PROVE  /\ IsJob(gate') /\ gate'.phase # "idle" /\ gate'.request = gate.request
           /\ gate'.base = gate.base /\ gate'.todo = gate.todo /\ gate'.package = gate.package
           /\ gate.failed => gate'.failed
<1>1. gate \in Job /\ gate.calls \in SUBSET Calls
  BY JobFields DEF TypeOK
<1>2. CASE CheckOwnership
  <2>1. \/ gate' = Reject(gate)
        \/ gate' = Proceed(gate, {}, {}, ClaimCalls(gate.base[gate.package].root,
                                                   Head(gate.package).root))
    BY <1>2 DEF CheckOwnership
  <2>2. QED BY <1>1, <2>1, RejectType, ProceedType, CallsType
<1>3. ASSUME NEW call \in gate.calls, CheckDigestInScope(call) 
      PROVE  gate' = Reject(gate) \/ gate' = Proceed(gate, gate.calls \ {call}, {OwnerCall}, {})
  BY <1>3 DEF CheckDigestInScope
<1>4. CASE \E call \in gate.calls : CheckDigestInScope(call)
  <2>1. PICK call \in gate.calls :
           gate' = Reject(gate) \/ gate' = Proceed(gate, gate.calls \ {call}, {OwnerCall}, {})
    BY <1>3, <1>4
  <2>2. gate.calls \ {call} \in SUBSET Calls /\ {OwnerCall} \in SUBSET Calls /\ {} \in SUBSET Calls
    BY <1>1, CallsType
  <2>3. CASE gate' = Reject(gate)
    BY <1>1, <2>3, RejectType
  <2>4. CASE gate' = Proceed(gate, gate.calls \ {call}, {OwnerCall}, {})
    BY <1>1, <2>2, <2>4, ProceedType
  <2>5. QED BY <2>1, <2>3, <2>4
<1>5. ASSUME NEW call \in gate.calls, VerifyTagClaim(call)
      PROVE  \E failed \in BOOLEAN :
                /\ gate' = [Proceed(gate, {}, {}, gate.calls \ {call}) EXCEPT !.failed = failed]
                /\ gate.failed => failed
  <2> DEFINE root == Head(gate.package).root
             answer == serves[root.repository][call[2]]
             failed == \/ Proceed(gate, {}, {}, gate.calls \ {call}).failed
                       \/ Observe(answer) # "observed" \/ answer # root.tags[call[2]].content
  <2>1. gate' = [Proceed(gate, {}, {}, gate.calls \ {call}) EXCEPT !.failed = failed]
    BY <1>5 DEF VerifyTagClaim
  <2>2. Proceed(gate, {}, {}, gate.calls \ {call}).failed = gate.failed /\ gate.failed \in BOOLEAN
    BY <1>1, ProceedType, JobFields
  <2>3. failed \in BOOLEAN /\ (gate.failed => failed)
    BY <2>2
  <2>4. QED BY <2>1, <2>3
<1>6. CASE \E call \in gate.calls : VerifyTagClaim(call)
  <2>1. PICK call \in gate.calls : VerifyTagClaim(call)
    BY <1>6
  <2>2. PICK failed \in BOOLEAN :
            /\ gate' = [Proceed(gate, {}, {}, gate.calls \ {call}) EXCEPT !.failed = failed]
            /\ gate.failed => failed
    BY <1>5, <2>1
  <2> DEFINE job == Proceed(gate, {}, {}, gate.calls \ {call})
  <2>3. /\ IsJob(job) /\ job.phase # "idle" /\ job.request = gate.request /\ job.base = gate.base
        /\ job.todo = gate.todo /\ job.package = gate.package
    BY <1>1, ProceedType
  <2> HIDE DEF job
  <2>4. gate' = [job EXCEPT !.failed = failed]
    BY <2>2 DEF job
  <2>5. QED BY <2>2, <2>3, <2>4 DEF IsJob, Job
<1>7. QED BY <1>2, <1>4, <1>6

LEMMA GateStepType == ASSUME TypeOK, GateStep PROVE TypeOK' /\ GateOnly
<1>1. GateOnly
  BY DEF GateStep, ValidateOne, CheckDigestInScope, VerifyTagClaim, CheckOwnership
<1>2. CASE \E p \in Package : ValidateOne(p)
  BY <1>1, <1>2, ValidateOneType, GateOnlyType
<1>3. CASE CheckOwnership \/ \E call \in gate.calls : CheckDigestInScope(call) \/ VerifyTagClaim(call)
  BY <1>1, <1>3, CallType, GateOnlyType
<1>4. QED BY <1>2, <1>3 DEF GateStep

LEMMA GateEndsType ==
    ASSUME TypeOK, NEW check \in {"green", "red", "unavailable"}, GateEnds(check)
    PROVE  TypeOK'
<1>1. IsJob(gate')
  BY IdleGateType DEF GateEnds, IsJob
<1>2. request' \in [Request -> RequestState]
  <2>1. request' = [request EXCEPT ![gate.request].check = check]
    BY DEF GateEnds
  <2>2. gate.request \in Request /\ request \in [Request -> RequestState]
    BY JobFields DEF TypeOK
  <2>3. [request[gate.request] EXCEPT !.check = check] \in RequestState
    BY <2>2 DEF RequestState
  <2>4. QED BY <2>1, <2>2, <2>3
<1>3. Registries'
  BY TypeParts DEF GateEnds, registries, Registries
<1>4. QED BY <1>1, <1>2, <1>3, NextTypeParts DEF GateEnds, history, TypeOK

LEMMA MergeType ==
    ASSUME TypeOK, NEW n \in Request, Merge(n)
    PROVE  /\ TypeOK'
           /\ \A p \in Package : /\ request[n].base[p] \in Entry /\ request[n].head[p] \in Entry
                                 /\ main[p] \in Entry
                                  /\ EntriesAgree(request[n].base[p], main[p], request[n].head[p])
           /\ \A p \in Package : main'[p] = MergedEntry(request[n].base[p], main[p], request[n].head[p])
<1> DEFINE base == request[n].base
           head == request[n].head
<1>1. base \in Tree /\ head \in Tree /\ main \in Tree
  BY RequestFields DEF TypeOK
<1>2. main' = [p \in Package |-> MergedEntry(base[p], main[p], head[p])]
  BY DEF Merge
<1>3. \A p \in Package : EntriesAgree(base[p], main[p], head[p])
  BY DEF Merge
<1> HIDE DEF base, head
<1>4. \A p \in Package : base[p] \in Entry /\ head[p] \in Entry /\ main[p] \in Entry
  BY <1>1 DEF Tree
<1>5. main' \in Tree
  BY <1>2, <1>3, <1>4, MergedEntryType DEF Tree
<1>6. request' \in [Request -> RequestState]
  <2>1. request' = [request EXCEPT ![n].status = "merged"]
    BY DEF Merge
  <2>2. [request[n] EXCEPT !.status = "merged"] \in RequestState
    BY DEF RequestState, TypeOK
  <2>3. QED BY <2>1, <2>2 DEF TypeOK
<1>7. Registries' /\ IsJob(gate') /\ served' \in Tree
  BY TypeParts DEF Merge, registries, Registries
<1>8. crossed' \subseteq Package /\ repointed' \subseteq Package
  BY DEF Merge, TypeOK
<1>9. TypeOK'
  BY <1>5, <1>6, <1>7, <1>8, NextTypeParts
<1>10. \A p \in Package : main'[p] = MergedEntry(base[p], main[p], head[p])
  BY <1>2
<1>11. QED BY <1>3, <1>4, <1>9, <1>10 DEF base, head

LEMMA RenderType == ASSUME TypeOK, Render PROVE TypeOK'
<1>1. \A p \in Package : RenderedEntry(main[p]) \in Entry
  BY RenderedEntryType DEF TypeOK, Tree
<1>2. \A p \in Package : served'[p] \in Entry
  BY <1>1, UnservedType DEF Render
<1>3. served' \in Tree
  BY <1>2 DEF Render, Tree
<1>4. Registries' /\ IsJob(gate')
  BY TypeParts DEF Render, registries, Registries
<1>5. main' \in Tree /\ request' \in [Request -> RequestState] /\ crossed' \subseteq Package
      /\ repointed' \subseteq Package
  BY DEF Render, history, TypeOK
<1>6. QED BY <1>3, <1>4, <1>5, NextTypeParts

LEMMA RegistryType ==
    ASSUME TypeOK, NEW r \in Repo, ManifestPruned(r) \/ \E t \in Tag : TagMoves(r, t)
    PROVE  TypeOK' /\ UNCHANGED <<main, request, gate, served, history>>
<1>0. Registries
  BY TypeParts
<1>1. UNCHANGED <<main, request, gate, served, history>>
  BY DEF ManifestPruned, TagMoves
<1>2. moves' \in 0 .. MaxMoves
  BY <1>0, GateAssumption DEF ManifestPruned, TagMoves, Registries
<1>3. holds' \in [Repo -> SUBSET Manifest]
  <2>1. CASE ManifestPruned(r)
    BY <1>0, <2>1 DEF ManifestPruned, Registries
  <2>2. ASSUME NEW t \in Tag, TagMoves(r, t) PROVE holds' \in [Repo -> SUBSET Manifest]
    <3>1. PICK d \in (Digest \cup {None}) \ {serves[r][t]} :
             holds' = [holds EXCEPT ![r] = @ \cup IF d \in ImageIndex THEN Manifests[d] ELSE {}]
      BY <2>2 DEF TagMoves
    <3> DEFINE manifests == IF d \in ImageIndex THEN Manifests[d] ELSE {}
    <3>2. manifests \in SUBSET Manifest
      BY TreeAssumption
    <3>3. holds' = [holds EXCEPT ![r] = @ \cup manifests]
      BY <3>1
    <3> HIDE DEF manifests
    <3>4. QED BY <1>0, <3>2, <3>3 DEF Registries
  <2>3. QED BY <2>1, <2>2
<1>4. serves' \in [Repo -> [Tag -> Digest \cup {None}]]
  <2>1. CASE ManifestPruned(r)
    BY <1>0, <2>1 DEF ManifestPruned, Registries
  <2>2. ASSUME NEW t \in Tag, TagMoves(r, t) PROVE serves' \in [Repo -> [Tag -> Digest \cup {None}]]
    <3>1. PICK d \in (Digest \cup {None}) \ {serves[r][t]} : serves' = [serves EXCEPT ![r][t] = d]
      BY <2>2 DEF TagMoves
    <3>2. QED BY <1>0, <3>1 DEF Registries
  <2>3. QED BY <2>1, <2>2
<1>5. shown' \subseteq Repo \X Tag \X Digest
  BY <1>0 DEF ManifestPruned, TagMoves, Shows, Registries
<1>6. Registries'
  BY <1>2, <1>3, <1>4, <1>5 DEF Registries
<1>7. QED BY <1>1, <1>6, NextTypeParts DEF TypeOK, history, IsJob

LEMMA Steps ==
    Next <=> \/ \E n \in Request : Open(n) \/ Merge(n) \/ StartGate(n)
             \/ GateStep \/ EndGate \/ RegistryUnavailable
             \/ Render
             \/ \E r \in Repo : ManifestPruned(r) \/ \E t \in Tag : TagMoves(r, t)
BY DEF Next, GateNext, GateStep

LEMMA StutterType == ASSUME TypeOK, UNCHANGED vars PROVE TypeOK'
<1>1. Registries' /\ IsJob(gate')
  BY TypeParts DEF vars, registries, Registries
<1>2. QED BY <1>1, NextTypeParts DEF vars, history, TypeOK

LEMMA TypeInductive == TypeOK /\ [Next]_vars => TypeOK'
<1> SUFFICES ASSUME TypeOK, [Next]_vars PROVE TypeOK'
  OBVIOUS
<1>1. CASE \E n \in Request : Open(n) \/ Merge(n) \/ StartGate(n)
  BY <1>1, OpenType, MergeType, StartGateType
<1>2. CASE GateStep
  BY <1>2, GateStepType
<1>3. CASE EndGate \/ RegistryUnavailable
  BY <1>3, GateEndsType DEF EndGate, RegistryUnavailable
<1>4. CASE Render
  BY <1>4, RenderType
<1>5. CASE \E r \in Repo : ManifestPruned(r) \/ \E t \in Tag : TagMoves(r, t)
  BY <1>5, RegistryType
<1>6. CASE UNCHANGED vars
  BY <1>6, StutterType
<1>7. QED BY <1>1, <1>2, <1>3, <1>4, <1>5, <1>6, Steps

\* Every tree, request and job stays one.
THEOREM TypeCorrect == Spec => []TypeOK
<1>1. QED BY InitType, TypeInductive, PTL DEF Spec

-----------------------------------------------------------------------------
(* What is served (render's quarantine).                                   *)

\* Whatever the default branch holds, what render serves of it is closed and
\* sound (core/render.py).
THEOREM ServedAlwaysClosed == Spec => []ServedIsClosed
<1>1. Init => ServedIsClosed
  BY UnservedType, RootsApart, TreeAssumption
     DEF Init, ServedIsClosed, NoTree, Closed, Sound, IsRoot, Roots
<1>2. ASSUME TypeOK, Render PROVE ServedIsClosed'
  <2>1. ASSUME NEW p \in Package PROVE Closed(served'[p]) /\ Sound(served'[p])
    <3>1. CASE served'[p] = Unserved
      BY <3>1, UnservedType DEF Closed, Sound, IsRoot
    <3>2. CASE served'[p] # Unserved
      <4>1. /\ served'[p] = RenderedEntry(main[p])
            /\ main[p].root # NoRoot /\ ~Quarantined(main[p])
            /\ main[p].root # Malformed => Sound(main[p])
        BY <1>2, <3>2 DEF Render
      <4>2. main[p] \in Entry
        BY <1>2 DEF TypeOK, Tree
      <4>3. main[p].root # Malformed /\ DanglingReferences(main[p]) = {} /\ Sound(main[p])
        BY <4>1 DEF Quarantined
      <4> DEFINE entry == main[p]
                 kept == RenderedEntry(entry)
      <4>4. /\ kept.root = entry.root
            /\ \A d \in Digest : kept.objects[d] = IF d \in ReachableDigests(entry.root)
                                                    THEN entry.objects[d] ELSE "absent"
        BY <4>2, RenderedEntryType
      <4>5. References(entry.root) \subseteq Digest
        <5>1. entry.root \in Roots
          BY <4>2, EntryFields
        <5>2. entry.root.desc \in SUBSET Digest /\ entry.root.tags \in [Tag -> Row \cup {NoRow}]
          BY <5>1, RootFields
        <5>3. Contents(entry.root) \subseteq Digest
          BY <5>2 DEF Contents, Rows, Row
        <5>4. QED BY <5>2, <5>3 DEF References
      <4> HIDE DEF entry, kept
      <4>6. DanglingReferences(entry) = {} /\ Sound(entry)
        BY <4>3 DEF entry
      <4>7. DanglingReferences(kept) = {}
        BY <4>4, <4>5, <4>6 DEF DanglingReferences, ReachableDigests
      <4>8. Sound(kept)
        BY <4>4, <4>6 DEF Sound
      <4>9. QED BY <4>1, <4>7, <4>8 DEF Closed, kept, entry
    <3>3. QED BY <3>1, <3>2
  <2>2. QED BY <2>1 DEF ServedIsClosed
<1>3. ASSUME ServedIsClosed, UNCHANGED served PROVE ServedIsClosed'
  BY <1>3 DEF ServedIsClosed
<1>4. TypeOK /\ ServedIsClosed /\ [Next]_vars => ServedIsClosed'
  BY <1>2, <1>3, Steps, GateStepType, StartGateType, RegistryType
     DEF Open, Merge, EndGate, RegistryUnavailable, GateEnds, GateOnly, vars
<1>5. QED BY <1>1, <1>4, TypeCorrect, PTL DEF Spec

-----------------------------------------------------------------------------
(* What the gate finds (_packages_to_validate, _validate_one).             *)

Valid(entry) == IsRoot(entry.root) /\ DanglingReferences(entry) = {} /\ Sound(entry)

Selected(r) == PackagesToValidate(r.base, r.head)

\* A green request was found valid package by package, and what the job that
\* runs is done with it found valid, or has failed.
Judged ==
    /\ \A n \in Request : request[n].check = "green" =>
          request[n].status # "none" /\ \A p \in Selected(request[n]) : Valid(request[n].head[p])
    /\ gate.phase # "idle" =>
          /\ request[gate.request].status # "none"
          /\ \A p \in Selected(request[gate.request]) :
                p \in gate.todo \/ gate.failed \/ Valid(request[gate.request].head[p])

LEMMA JudgedInit == Init => Judged
<1>1. Init => \A n \in Request : request[n].check = "none"
  BY DEF Init
<1>2. Init => gate.phase = "idle"
  BY IdleGateType DEF Init
<1>3. QED BY <1>1, <1>2 DEF Judged

LEMMA StepIsValid ==
    ASSUME NEW p, NEW entry, NEW base, NEW fork, StructurallySound(p, entry, base, fork)
    PROVE  Valid(entry)
BY DEF StructurallySound, Valid, Sound

LEMMA JudgedOpen == ASSUME TypeOK, Judged, NEW n \in Request, Open(n) PROVE Judged'
<1>1. request[n].status = "none" /\ UNCHANGED gate
  BY DEF Open
<1>2. \A m \in Request \ {n} : request'[m] = request[m]
  BY DEF Open, TypeOK
<1>3. request'[n].check # "green"
  <2>1. PICK written \in BOOLEAN : \E head \in IF written THEN Written(main) ELSE Proposals(main) :
            request' = [request EXCEPT ![n] = [status |-> "open", base |-> main, head |-> head,
                                               written |-> written, opened |-> moves, check |-> "none"]]
    BY DEF Open
  <2>2. PICK head :
            request' = [request EXCEPT ![n] = [status |-> "open", base |-> main, head |-> head,
                                               written |-> written, opened |-> moves, check |-> "none"]]
    BY <2>1
  <2>3. QED BY <2>2 DEF TypeOK
<1>4. gate.phase # "idle" => gate.request \in Request \ {n}
  BY <1>1, JobFields DEF Judged, TypeOK
<1>5. QED BY <1>1, <1>2, <1>3, <1>4 DEF Judged

LEMMA JudgedStart == ASSUME TypeOK, Judged, NEW n \in Request, StartGate(n) PROVE Judged'
<1>1. /\ gate'.request = n
      /\ gate'.todo = PackagesToValidate(request[n].base, request[n].head)
  BY DEF StartGate
<1>2. UNCHANGED request /\ request[n].status # "none"
  BY DEF StartGate
<1>3. QED BY <1>1, <1>2 DEF Judged, Selected

LEMMA JudgedStep == ASSUME TypeOK, Judged, GateStep PROVE Judged'
<1>1. UNCHANGED request
  BY GateStepType DEF GateOnly
<1>2. CASE \E p \in Package : ValidateOne(p)
  <2>1. PICK p \in Package : ValidateOne(p)
    BY <1>2
  <2>2. gate.phase # "idle"
    BY <2>1 DEF ValidateOne
  <2>3. /\ gate'.request = gate.request /\ gate'.todo = gate.todo \ {p}
        /\ gate.failed => gate'.failed
        /\ gate'.failed \/ StructurallySound(p, Head(p), gate.base[p].root, FromFork(gate.request))
    BY <2>1, ValidateOneType
  <2>4. gate'.failed \/ Valid(request[gate.request].head[p])
    BY <2>3, StepIsValid DEF Head
  <2> DEFINE r == request[gate.request]
  <2>5. r.status # "none" /\ \A q \in Selected(r) : q \in gate.todo \/ gate.failed \/ Valid(r.head[q])
    BY <2>2 DEF Judged
  <2>6. \A q \in Selected(r) : q \in gate'.todo \/ gate'.failed \/ Valid(r.head[q])
    BY <2>3, <2>4, <2>5
  <2>7. request'[gate'.request] = r
    BY <1>1, <2>3
  <2>8. \A m \in Request : request[m].check = "green" =>
            request[m].status # "none" /\ \A q \in Selected(request[m]) : Valid(request[m].head[q])
    BY DEF Judged
  <2> HIDE DEF r
  <2>9. QED BY <1>1, <2>5, <2>6, <2>7, <2>8 DEF Judged
<1>3. CASE CheckOwnership \/ \E call \in gate.calls : CheckDigestInScope(call) \/ VerifyTagClaim(call)
  <2>1. gate.phase # "idle"
    BY <1>3 DEF CheckOwnership, CheckDigestInScope, VerifyTagClaim
  <2>2. gate'.request = gate.request /\ gate'.todo = gate.todo /\ (gate.failed => gate'.failed)
    BY <1>3, CallType
  <2>3. QED BY <1>1, <2>1, <2>2 DEF Judged
<1>4. QED BY <1>2, <1>3 DEF GateStep

LEMMA JudgedEnd == ASSUME TypeOK, Judged, EndGate \/ RegistryUnavailable PROVE Judged'
<1>1. PICK check \in {"green", "red", "unavailable"} :
         GateEnds(check) /\ (check = "green" => EndGate /\ ~gate.failed)
  BY DEF EndGate, RegistryUnavailable
<1>2. gate.phase # "idle" /\ gate.request \in Request
  BY JobFields DEF EndGate, RegistryUnavailable, TypeOK
<1>3. \A m \in Request : /\ request'[m].base = request[m].base /\ request'[m].head = request[m].head
                         /\ request'[m].status = request[m].status
                         /\ request'[m].check = IF m = gate.request THEN check ELSE request[m].check
  <2>1. request' = [request EXCEPT ![gate.request].check = check]
    BY <1>1 DEF GateEnds
  <2>2. \A m \in Request : request[m] \in RequestState
    BY DEF TypeOK
  <2>3. QED BY <1>2, <2>1, <2>2 DEF TypeOK, RequestState
<1>4. check = "green" => \A p \in Selected(request[gate.request]) : Valid(request[gate.request].head[p])
  BY <1>1, <1>2 DEF EndGate, Judged
<1>5. gate'.phase = "idle"
  BY <1>1, IdleGateType DEF GateEnds
<1>6. QED BY <1>2, <1>3, <1>4, <1>5 DEF Judged, Selected

LEMMA JudgedMerge == ASSUME TypeOK, Judged, NEW n \in Request, Merge(n) PROVE Judged'
<1>1. \A m \in Request : /\ request'[m].base = request[m].base /\ request'[m].head = request[m].head
                         /\ request'[m].check = request[m].check
                         /\ request[m].status # "none" => request'[m].status # "none"
  <2>1. request' = [request EXCEPT ![n].status = "merged"]
    BY DEF Merge
  <2>2. \A m \in Request : request[m] \in RequestState
    BY DEF TypeOK
  <2>3. QED BY <2>1, <2>2 DEF TypeOK, RequestState
<1>2. UNCHANGED gate /\ gate.request \in Request
  BY JobFields DEF Merge, TypeOK
<1>3. QED BY <1>1, <1>2 DEF Judged, Selected

LEMMA JudgedInductive == TypeOK /\ Judged /\ [Next]_vars => Judged'
<1> SUFFICES ASSUME TypeOK, Judged, [Next]_vars PROVE Judged'
  OBVIOUS
<1>1. CASE \E n \in Request : Open(n) \/ Merge(n) \/ StartGate(n)
  BY <1>1, JudgedOpen, JudgedMerge, JudgedStart
<1>2. CASE GateStep
  BY <1>2, JudgedStep
<1>3. CASE EndGate \/ RegistryUnavailable
  BY <1>3, JudgedEnd
<1>4. CASE UNCHANGED <<request, gate>>
  BY <1>4 DEF Judged
<1>5. Render \/ UNCHANGED vars => UNCHANGED <<request, gate>>
  BY DEF Render, vars
<1>6. (\E r \in Repo : ManifestPruned(r) \/ \E t \in Tag : TagMoves(r, t)) => UNCHANGED <<request, gate>>
  BY RegistryType
<1>7. QED BY <1>1, <1>2, <1>3, <1>4, <1>5, <1>6, Steps

THEOREM AlwaysJudged == Spec => []Judged
<1>1. QED BY JudgedInit, JudgedInductive, TypeCorrect, PTL DEF Spec

LEMMA JudgedIsHonest == Judged => GreenBreaksNothing
<1> SUFFICES ASSUME Judged, NEW n \in Request, request[n].check = "green", NEW p \in Package
             PROVE  /\ Closed(request[n].base[p]) => Closed(request[n].head[p])
                    /\ Sound(request[n].base[p]) =>
                          Sound(request[n].head[p]) \/ request[n].head[p].root = NoRoot
  BY DEF GreenBreaksNothing
<1> DEFINE base == request[n].base
           head == request[n].head
<1>1. CASE p \in Selected(request[n])
  BY <1>1 DEF Judged, Valid, Closed
<1>2. CASE p \notin Selected(request[n]) /\ head[p].root = NoRoot
  BY <1>2 DEF Closed, IsRoot
<1>3. CASE p \notin Selected(request[n]) /\ head[p].root # NoRoot
  <2>1. base[p].root = head[p].root /\ base[p].objects = head[p].objects
    BY <1>3 DEF Selected, PackagesToValidate, ChangedRoots, ObjectOwners
  <2>2. QED BY <2>1 DEF Closed, Sound, DanglingReferences
<1>4. QED BY <1>1, <1>2, <1>3

\* A green check is never of a head that broke a package, whatever the request
\* deletes, renames, tampers with or repoints (cli/validate_pr.py).
THEOREM GreenNeverBreaks == Spec => []GreenBreaksNothing
<1>1. QED BY AlwaysJudged, JudgedIsHonest, PTL

-----------------------------------------------------------------------------
(* What a merge leaves (the forge's three-way merge).                      *)

LEMMA NothingToMerge ==
    ASSUME NEW base \in Entry, NEW ours \in Entry, NEW theirs \in Entry,
           EntriesAgree(base, ours, theirs), base = theirs \/ base = ours
    PROVE  MergedEntry(base, ours, theirs) = IF base = theirs THEN ours ELSE theirs
<1> DEFINE entry == IF base = theirs THEN ours ELSE theirs
           objects == [d \in Digest |-> Merged(base.objects[d], ours.objects[d], theirs.objects[d])]
<1>1. MergedRoot(base.root, ours.root, theirs.root) = entry.root
  BY DEF MergedRoot, Agreed, Merged
<1>2. entry.objects \in [Digest -> {"absent", "sound", "damaged"}]
  BY EntryFields
<1>3. \A d \in Digest : objects[d] = entry.objects[d]
  BY DEF Merged
<1>4. objects = entry.objects
  BY <1>2, <1>3
<1>5. MergedEntry(base, ours, theirs) = [root |-> entry.root, objects |-> objects]
  BY <1>1 DEF MergedEntry
<1>6. entry \in Entry
  OBVIOUS
<1> HIDE DEF entry, objects
<1>7. [root |-> entry.root, objects |-> entry.objects] = entry
  BY <1>6 DEF Entry
<1>8. QED BY <1>4, <1>5, <1>7 DEF entry

LEMMA ClosedMerge ==
    ASSUME TypeOK, Judged, ClosedUnlessCrossed, NEW n \in Request, Merge(n)
    PROVE  ClosedUnlessCrossed'
<1> DEFINE base == request[n].base
           head == request[n].head
           Fine(entry) == Closed(entry) /\ (IsRoot(entry.root) => Sound(entry))
<1>1. \A p \in Package : /\ base[p] \in Entry /\ head[p] \in Entry /\ main[p] \in Entry
                         /\ EntriesAgree(base[p], main[p], head[p])
                         /\ main'[p] = MergedEntry(base[p], main[p], head[p])
  BY MergeType
<1>2. crossed' = crossed \cup {p \in Package : base[p] # head[p] /\ base[p] # main[p]}
  BY DEF Merge
<1>3. \A p \in Selected(request[n]) : Valid(head[p])
  BY DEF Merge, Judged
<1>4. ASSUME NEW p \in Package \ crossed' PROVE Fine(main'[p])
  <2>1. Fine(main[p]) /\ (base[p] = head[p] \/ base[p] = main[p])
    BY <1>2 DEF ClosedUnlessCrossed
  <2>2. main'[p] = IF base[p] = head[p] THEN main[p] ELSE head[p]
    BY <1>1, <2>1, NothingToMerge
  <2>3. CASE base[p] = head[p]
    BY <2>1, <2>2, <2>3
  <2>4. CASE base[p] # head[p] /\ base[p] = main[p] /\ p \in Selected(request[n])
    <3>1. main'[p] = head[p] /\ Valid(head[p])
      BY <1>3, <2>2, <2>4
    <3>2. QED BY <3>1 DEF Valid, Closed
  <2>5. CASE base[p] # head[p] /\ base[p] = main[p] /\ p \notin Selected(request[n])
    <3>1. head[p].root = NoRoot
      <4>1. CASE head[p].root # NoRoot
        <5>1. base[p].root = head[p].root /\ base[p].objects = head[p].objects
          BY <2>5, <4>1 DEF Selected, PackagesToValidate, ChangedRoots, ObjectOwners
        <5>2. base[p] = head[p]
          BY <1>1, <5>1 DEF Entry
        <5>3. QED BY <2>5, <5>2
      <4>2. QED BY <4>1
    <3>2. main'[p] = head[p]
      BY <2>2, <2>5
    <3>3. QED BY <3>1, <3>2 DEF Closed, IsRoot
  <2>6. QED BY <2>1, <2>3, <2>4, <2>5
<1>5. QED BY <1>4 DEF ClosedUnlessCrossed

\* On the default branch only a merge of two changes of one package leaves a
\* root whose objects are missing or damaged (the check judges a request at its
\* own head, cli/validate_pr.py).
THEOREM AlwaysClosedUnlessCrossed == Spec => []ClosedUnlessCrossed
<1>1. Init => ClosedUnlessCrossed
  BY GateAssumption DEF Init, ClosedUnlessCrossed
<1>2. TypeOK /\ Judged /\ ClosedUnlessCrossed /\ [Next]_vars => ClosedUnlessCrossed'
  <2> SUFFICES ASSUME TypeOK, Judged, ClosedUnlessCrossed, [Next]_vars PROVE ClosedUnlessCrossed'
    OBVIOUS
  <2>1. CASE \E n \in Request : Merge(n)
    BY <2>1, ClosedMerge
  <2>2. CASE UNCHANGED <<main, crossed>>
    BY <2>2 DEF ClosedUnlessCrossed
  <2>3. \/ \E n \in Request : Merge(n)
        \/ UNCHANGED <<main, crossed>>
    BY Steps, GateStepType, StartGateType, RegistryType
       DEF Open, EndGate, RegistryUnavailable, GateEnds, GateOnly, Render, history, vars
  <2>4. QED BY <2>1, <2>2, <2>3
<1>3. QED BY <1>1, <1>2, TypeCorrect, AlwaysJudged, PTL DEF Spec

-----------------------------------------------------------------------------
(* What the rows say (verify_claims and the merge).                        *)

\* A root's rows were all served, or its repository is one the gate cannot ask.
OnRecord(root, record) ==
    root.repository \notin Private =>
        \A t \in Rows(root) : <<root.repository, t, root.tags[t].content>> \in record

Trusted == Package \ (crossed \cap repointed)

\* Whether the claim of a row is still to be asked, by the phase of the job.
Pending(job, base, root, t) ==
    \/ job.phase \in {"scope", "owner"} /\ t \notin CarriedOver(base, root)
    \/ job.phase = "claim" /\ ClaimCall(t) \in job.calls

\* What the job has found of the rows of package p at the head.
RowsFound(job, root, record, p) ==
    root.repository \notin Private =>
        \A t \in Rows(root) : \/ <<root.repository, t, root.tags[t].content>> \in record
                              \/ p = job.package /\ Pending(job, job.base[p].root, root, t)

BasesShown ==
    /\ \A n \in Request : \A p \in Trusted :
          IsRoot(request[n].base[p].root) => OnRecord(request[n].base[p].root, shown)
    /\ gate.phase # "idle" => \A p \in Trusted :
          IsRoot(gate.base[p].root) => OnRecord(gate.base[p].root, shown)

MainShown == \A p \in Trusted : IsRoot(main[p].root) => OnRecord(main[p].root, shown)

GreenShown ==
    \A n \in Request : request[n].check = "green" => \A p \in Trusted \cap Selected(request[n]) :
        IsRoot(request[n].head[p].root) => OnRecord(request[n].head[p].root, shown)

JobShown ==
    gate.phase # "idle" => \A p \in Trusted \cap Selected(request[gate.request]) :
        \/ p \in gate.todo \/ gate.failed
        \/ RowsFound(gate, request[gate.request].head[p].root, shown, p)

\* Where no merge repointed a package, a request's base names the repository
\* that the branch still does.
Unmoved ==
    \A n \in Request : \A p \in Package \ repointed :
        request[n].status # "none" /\ IsRoot(request[n].base[p].root) =>
            main[p].root.repository = request[n].base[p].root.repository

Claimed ==
    MainShown /\ BasesShown /\ GreenShown /\ JobShown /\ Unmoved /\ Shows(serves) \subseteq shown

LEMMA ClaimedIsServed == Claimed => ClaimsWereServed
BY DEF Claimed, MainShown, OnRecord, ClaimsWereServed, Trusted

LEMMA RecordGrows ==
    ASSUME NEW root, NEW record, NEW more, record \subseteq more
    PROVE  /\ OnRecord(root, record) => OnRecord(root, more)
           /\ \A job, p : RowsFound(job, root, record, p) => RowsFound(job, root, more, p)
BY DEF OnRecord, RowsFound

LEMMA ClaimedInit == Init => Claimed
<1> SUFFICES ASSUME Init PROVE Claimed
  OBVIOUS
<1>1. main = FirstTree /\ shown = Shows(FirstServes) /\ serves = FirstServes
  BY DEF Init
<1>2. MainShown
  <2> SUFFICES ASSUME NEW p \in Package, IsRoot(FirstTree[p].root),
                      FirstTree[p].root.repository \notin Private, NEW t \in Rows(FirstTree[p].root)
               PROVE  <<FirstTree[p].root.repository, t, FirstTree[p].root.tags[t].content>> \in Shows(FirstServes)
    BY <1>1 DEF MainShown, Trusted, OnRecord
  <2> DEFINE root == FirstTree[p].root
  <2>1. root \in Root
    BY GateAssumption, EntryFields, RootsApart DEF Tree
  <2>2. root.repository \in Repo /\ t \in Tag /\ root.tags[t].content \in Digest
    BY <2>1 DEF Root, Rows, Row
  <2>3. root.tags[t].content = FirstServes[root.repository][t]
    BY GateAssumption
  <2> HIDE DEF root
  <2>4. <<root.repository, t, root.tags[t].content>> \in Shows(FirstServes)
    BY <2>2, <2>3 DEF Shows
  <2>5. QED BY <2>4 DEF root
<1>3. \A n \in Request : /\ request[n].check = "none" /\ request[n].status = "none"
                         /\ request[n].base = NoTree
  BY DEF Init
<1>4. gate.phase = "idle"
  BY IdleGateType DEF Init
<1>5. \A p \in Package : ~IsRoot(NoTree[p].root)
  BY UnservedType DEF NoTree, IsRoot
<1>6. BasesShown
  BY <1>3, <1>4, <1>5 DEF BasesShown, Trusted
<1>7. GreenShown /\ JobShown /\ Unmoved
  BY <1>3, <1>4 DEF GreenShown, JobShown, Unmoved
<1>8. QED BY <1>1, <1>2, <1>6, <1>7 DEF Claimed

LEMMA ClaimedOpen == ASSUME TypeOK, Judged, Claimed, NEW n \in Request, Open(n) PROVE Claimed'
<1>1. PICK written \in BOOLEAN : \E head \in IF written THEN Written(main) ELSE Proposals(main) :
          request' = [request EXCEPT ![n] = [status |-> "open", base |-> main, head |-> head,
                                             written |-> written, opened |-> moves, check |-> "none"]]
  BY DEF Open
<1>2. PICK head :
          request' = [request EXCEPT ![n] = [status |-> "open", base |-> main, head |-> head,
                                             written |-> written, opened |-> moves, check |-> "none"]]
  BY <1>1
<1>3. \A m \in Request \ {n} : request'[m] = request[m]
  BY <1>2 DEF TypeOK
<1>4. request'[n].base = main /\ request'[n].check = "none"
  BY <1>2 DEF TypeOK
<1>5. UNCHANGED <<main, gate, serves, shown, crossed, repointed>>
  BY DEF Open, registries, history
<1>6. gate.phase # "idle" => gate.request \in Request \ {n}
  BY JobFields DEF Judged, TypeOK, Open
<1>7. MainShown' /\ (Shows(serves) \subseteq shown)'
  BY <1>5 DEF Claimed, MainShown, Trusted, Shows
<1>8. BasesShown'
  <2>1. \A m \in Request : \A p \in Trusted :
          IsRoot(request'[m].base[p].root) => OnRecord(request'[m].base[p].root, shown)
    BY <1>3, <1>4 DEF Claimed, MainShown, BasesShown
  <2>2. QED BY <1>5, <2>1 DEF Claimed, BasesShown, Trusted
<1>9. GreenShown'
  BY <1>3, <1>4, <1>5 DEF Claimed, GreenShown, Trusted
<1>10. JobShown'
  BY <1>3, <1>5, <1>6 DEF Claimed, JobShown, Trusted
<1>11. Unmoved'
  BY <1>3, <1>4, <1>5 DEF Claimed, Unmoved
<1>12. QED BY <1>7, <1>8, <1>9, <1>10, <1>11 DEF Claimed

LEMMA ClaimedStart == ASSUME TypeOK, Claimed, NEW n \in Request, StartGate(n) PROVE Claimed'
<1>1. PICK ref \in BaseRefs :
          gate' = [phase |-> "package", request |-> n, base |-> BaseTree(n, ref),
                   todo |-> PackagesToValidate(request[n].base, request[n].head),
                   package |-> gate.package, calls |-> {}, failed |-> FALSE]
  BY DEF StartGate
<1>2. /\ gate'.request = n /\ gate'.base \in {main, request[n].base}
      /\ gate'.todo = Selected(request[n])
  BY <1>1 DEF BaseTree, Selected
<1>3. UNCHANGED <<main, request, serves, shown, crossed, repointed>>
  BY DEF StartGate, registries, history
<1>4. MainShown' /\ GreenShown' /\ Unmoved' /\ (Shows(serves) \subseteq shown)'
  BY <1>3 DEF Claimed, MainShown, GreenShown, Unmoved, Trusted, Shows
<1>5. BasesShown'
  BY <1>2, <1>3 DEF Claimed, MainShown, BasesShown, Trusted
<1>6. JobShown'
  BY <1>2, <1>3 DEF JobShown, Trusted
<1>7. QED BY <1>4, <1>5, <1>6 DEF Claimed

\* The claims a step of the job leaves to be asked, or has found.
LEMMA ClaimedStep == ASSUME TypeOK, Judged, Claimed, GateStep PROVE Claimed'
<1> DEFINE r == request[gate.request]
<1>1. UNCHANGED <<main, request, serves, shown, crossed, repointed>>
  BY GateStepType DEF GateOnly, registries, history
<1>2. MainShown' /\ GreenShown' /\ Unmoved' /\ (Shows(serves) \subseteq shown)'
  BY <1>1 DEF Claimed, MainShown, GreenShown, Unmoved, Trusted, Shows
<1>3. gate.phase # "idle" /\ gate'.request = gate.request /\ gate'.base = gate.base
  <2>1. gate.phase # "idle"
    BY DEF GateStep, ValidateOne, CheckOwnership, CheckDigestInScope, VerifyTagClaim
  <2>2. gate'.request = gate.request /\ gate'.base = gate.base
    BY ValidateOneType, CallType DEF GateStep
  <2>3. QED BY <2>1, <2>2
<1>4. BasesShown'
  BY <1>1, <1>3 DEF Claimed, BasesShown, Trusted
<1>5. SUFFICES ASSUME NEW q \in Trusted \cap Selected(r)
               PROVE  q \in gate'.todo \/ gate'.failed \/ RowsFound(gate', r.head[q].root, shown, q)
  <2>1. ASSUME \A q \in Trusted \cap Selected(r) :
                  q \in gate'.todo \/ gate'.failed \/ RowsFound(gate', r.head[q].root, shown, q)
        PROVE  JobShown'
    BY <1>1, <1>3, <2>1 DEF JobShown, Trusted
  <2>2. QED BY <1>2, <1>4, <2>1 DEF Claimed
<1> DEFINE root == r.head[q].root
           base == gate.base[q].root
<1>6. q \in gate.todo \/ gate.failed \/ RowsFound(gate, root, shown, q)
  BY <1>3 DEF Claimed, JobShown
<1>7. q \in Package /\ gate \in Job /\ gate.calls \in SUBSET Calls
  BY JobFields DEF Trusted, TypeOK
<1>8. \A t \in CarriedOver(base, root) : root.repository \notin Private =>
          <<root.repository, t, root.tags[t].content>> \in shown
  <2>1. IsRoot(base) => OnRecord(base, shown)
    BY <1>3 DEF Claimed, BasesShown
  <2>2. QED BY <2>1 DEF OnRecord, CarriedOver
<1> HIDE DEF r, root, base
<1>9. CASE \E p \in Package : ValidateOne(p)
  <2>1. PICK p \in Package : ValidateOne(p)
    BY <1>9
  <2>2. /\ gate'.todo = gate.todo \ {p} /\ gate'.package = p
        /\ gate.failed => gate'.failed
    BY <2>1, ValidateOneType
  <2>3. gate.phase = "package"
    BY <2>1 DEF ValidateOne
  <2>4. CASE q # p
    <3>1. RowsFound(gate, root, shown, q) => RowsFound(gate', root, shown, q)
      BY <2>3 DEF RowsFound, Pending
    <3>2. QED BY <1>6, <2>2, <2>4, <3>1 DEF root
  <2>5. CASE q = p
    <3> DEFINE job == [gate EXCEPT !.todo = @ \ {p}, !.package = p]
               sound == StructurallySound(p, Head(p), gate.base[p].root, FromFork(gate.request))
    <3>1. Head(p).root = root
      BY <2>5 DEF Head, root, r
    <3>2. gate' = IF ~sound THEN Reject(job)
                  ELSE IF root.repository \in Private THEN job
                  ELSE Proceed(job, ScopeCalls(root), {OwnerCall}, {})
      BY <2>1, <3>1 DEF ValidateOne
    <3>3. job \in Job
      BY <1>7 DEF Job
    <3> HIDE DEF job, sound
    <3>4. CASE ~sound
      BY <3>2, <3>3, <3>4, RejectType
    <3>5. CASE root.repository \in Private
      BY <3>5 DEF RowsFound, root
    <3>6. CASE sound /\ root.repository \notin Private
      <4>1. gate' = Proceed(job, ScopeCalls(root), {OwnerCall}, {})
        BY <3>2, <3>6
      <4>2. gate'.phase \in {"scope", "owner"}
        BY <3>3, <4>1 DEF Proceed, Job
      <4>3. gate'.base[q].root = base
        BY <1>3 DEF base
      <4>4. q = gate'.package
        BY <2>2, <2>5
      <4>5. ASSUME NEW t \in Rows(root)
            PROVE  \/ <<root.repository, t, root.tags[t].content>> \in shown
                   \/ Pending(gate', base, root, t)
        <5>1. CASE t \in CarriedOver(base, root)
          BY <1>8, <3>6, <5>1
        <5>2. CASE t \notin CarriedOver(base, root)
          BY <4>2, <5>2 DEF Pending
        <5>3. QED BY <5>1, <5>2
      <4>6. RowsFound(gate', root, shown, q)
        BY <4>3, <4>4, <4>5 DEF RowsFound
      <4>7. QED BY <4>6 DEF root
    <3>7. QED BY <3>4, <3>5, <3>6
  <2>6. QED BY <2>4, <2>5
<1>10. CASE CheckOwnership \/ \E call \in gate.calls : CheckDigestInScope(call) \/ VerifyTagClaim(call)
  <2>1. /\ gate'.todo = gate.todo /\ gate'.package = gate.package
        /\ gate.failed => gate'.failed
    BY <1>10, CallType
  <2>2. gate'.base[q].root = base /\ gate.base[q].root = base
    BY <1>3 DEF base
  <2>3. SUFFICES ASSUME ~gate'.failed, root.repository \notin Private, NEW t \in Rows(root),
                        q = gate.package, Pending(gate, base, root, t)
                 PROVE  \/ <<root.repository, t, root.tags[t].content>> \in shown
                        \/ Pending(gate', base, root, t)
    <3>1. ASSUME ~gate'.failed,
                 \A t \in Rows(root) :
                    root.repository \notin Private /\ q = gate.package /\ Pending(gate, base, root, t) =>
                        \/ <<root.repository, t, root.tags[t].content>> \in shown
                        \/ Pending(gate', base, root, t),
                 RowsFound(gate, root, shown, q)
          PROVE  RowsFound(gate', root, shown, q)
      BY <2>1, <2>2, <3>1 DEF RowsFound
    <3>2. QED BY <1>6, <2>1, <3>1 DEF root
  <2>4. Head(gate.package).root = root
    BY <2>3 DEF Head, root, r
  <2>5. CASE CheckOwnership
    <3>1. gate' = Proceed(gate, {}, {}, ClaimCalls(base, root))
      BY <1>7, <2>2, <2>3, <2>4, <2>5, RejectType DEF CheckOwnership
    <3>2. gate.phase = "owner"
      BY <2>5 DEF CheckOwnership
    <3>3. ClaimCall(t) \in ClaimCalls(base, root)
      BY <2>3, <3>2 DEF ClaimCalls, Pending
    <3>4. gate'.phase = "claim" /\ gate'.calls = ClaimCalls(base, root)
      BY <1>7, <3>1, <3>3 DEF Proceed, Job
    <3>5. QED BY <3>3, <3>4 DEF Pending
  <2>6. ASSUME NEW call \in gate.calls, CheckDigestInScope(call)
        PROVE  Pending(gate', base, root, t)
    <3>1. gate' = Proceed(gate, gate.calls \ {call}, {OwnerCall}, {})
      BY <1>7, <2>3, <2>6, RejectType DEF CheckDigestInScope
    <3>2. gate.phase = "scope"
      BY <2>6 DEF CheckDigestInScope
    <3>3. gate'.phase \in {"scope", "owner"}
      BY <1>7, <3>1 DEF Proceed, Job
    <3>4. QED BY <2>3, <3>2, <3>3 DEF Pending
  <2>7. ASSUME NEW call \in gate.calls, VerifyTagClaim(call)
        PROVE  \/ <<root.repository, t, root.tags[t].content>> \in shown
               \/ Pending(gate', base, root, t)
    <3> DEFINE answer == serves[root.repository][call[2]]
               job == Proceed(gate, {}, {}, gate.calls \ {call})
    <3>1. gate' = [job EXCEPT !.failed = @ \/ Observe(answer) # "observed"
                                           \/ answer # root.tags[call[2]].content]
      BY <2>4, <2>7 DEF VerifyTagClaim
    <3>2. job \in Job /\ gate.phase = "claim" /\ ClaimCall(t) \in gate.calls
      BY <1>7, <2>3, <2>7, ProceedType DEF IsJob, Pending, VerifyTagClaim
    <3>3. CASE call # ClaimCall(t)
      <4>1. ClaimCall(t) \in gate.calls \ {call}
        BY <3>2, <3>3
      <4>2. job.phase = "claim" /\ job.calls = gate.calls \ {call}
        BY <1>7, <4>1 DEF Proceed, Job
      <4> HIDE DEF job, answer
      <4>3. gate'.phase = job.phase /\ gate'.calls = job.calls
        BY <3>1, <3>2 DEF Job
      <4>4. QED BY <4>1, <4>2, <4>3 DEF Pending
    <3>4. CASE call = ClaimCall(t)
      <4>1. call[2] = t
        BY <3>4 DEF ClaimCall
      <4>2. Observe(answer) = "observed" /\ answer = root.tags[t].content
        <5> HIDE DEF job, answer
        <5>1. gate'.failed = (job.failed \/ Observe(answer) # "observed"
                                         \/ answer # root.tags[call[2]].content)
          BY <3>1, <3>2 DEF Job
        <5>2. QED BY <2>3, <4>1, <5>1
      <4>3. root \in Roots
        <5>1. r.head \in Tree
          BY <1>7, JobFields, RequestFields DEF r, TypeOK
        <5>2. QED BY <1>7, <5>1, EntryFields DEF root, Tree
      <4>4. IsRoot(root)
        BY <2>3 DEF Rows, IsRoot, NoRoot, Malformed
      <4>5. root.repository \in Repo /\ t \in Tag /\ answer \in Digest
        BY <4>2, <4>3, <4>4, RootFields, TreeAssumption DEF Observe, Rows
      <4>6. answer = serves[root.repository][t]
        BY <4>1
      <4> HIDE DEF answer
      <4>7. <<root.repository, t, answer>> \in Shows(serves)
        BY <4>5, <4>6 DEF Shows
      <4>8. QED BY <4>2, <4>7 DEF Claimed
    <3>5. QED BY <3>3, <3>4
  <2>8. QED BY <1>10, <2>5, <2>6, <2>7
<1>11. QED BY <1>9, <1>10 DEF GateStep, root

LEMMA ClaimedEnd == ASSUME TypeOK, Claimed, EndGate \/ RegistryUnavailable PROVE Claimed'
<1>1. PICK check \in {"green", "red", "unavailable"} :
         GateEnds(check) /\ (check = "green" => EndGate /\ ~gate.failed)
  BY DEF EndGate, RegistryUnavailable
<1>2. gate.phase # "idle" /\ gate.request \in Request
  BY JobFields DEF EndGate, RegistryUnavailable, TypeOK
<1>3. \A m \in Request : /\ request'[m].base = request[m].base /\ request'[m].head = request[m].head
                         /\ request'[m].status = request[m].status
                         /\ request'[m].check = IF m = gate.request THEN check ELSE request[m].check
  <2>1. request' = [request EXCEPT ![gate.request].check = check]
    BY <1>1 DEF GateEnds
  <2>2. \A m \in Request : request[m] \in RequestState
    BY DEF TypeOK
  <2>3. QED BY <1>2, <2>1, <2>2 DEF TypeOK, RequestState
<1>4. check = "green" => \A p \in Trusted \cap Selected(request[gate.request]) :
          OnRecord(request[gate.request].head[p].root, shown)
  <2>1. SUFFICES ASSUME check = "green", NEW p \in Trusted \cap Selected(request[gate.request])
                 PROVE  OnRecord(request[gate.request].head[p].root, shown)
    OBVIOUS
  <2>2. gate.phase = "package" /\ gate.todo = {} /\ ~gate.failed
    BY <1>1, <2>1 DEF EndGate
  <2>3. RowsFound(gate, request[gate.request].head[p].root, shown, p)
    BY <1>2, <2>2 DEF Claimed, JobShown
  <2>4. QED BY <2>2, <2>3 DEF RowsFound, Pending, OnRecord
<1>5. gate'.phase = "idle"
  BY <1>1, IdleGateType DEF GateEnds
<1>6. UNCHANGED <<main, serves, shown, crossed, repointed>>
  BY <1>1 DEF GateEnds, registries, history
<1>7. MainShown' /\ Unmoved' /\ (Shows(serves) \subseteq shown)'
  BY <1>3, <1>6 DEF Claimed, MainShown, Unmoved, Trusted, Shows
<1>8. BasesShown' /\ JobShown'
  BY <1>3, <1>5, <1>6 DEF Claimed, BasesShown, JobShown, Trusted
<1>9. GreenShown'
  BY <1>2, <1>3, <1>4, <1>6 DEF Claimed, GreenShown, Trusted, Selected
<1>10. QED BY <1>7, <1>8, <1>9 DEF Claimed

\* What a merge makes of three roots says nothing that ours or theirs did not,
\* of the same repository.
LEMMA MergedOnRecord ==
    ASSUME NEW base \in Roots, NEW ours \in Roots, NEW theirs \in Roots, NEW record,
           RootsAgree(base, ours, theirs),
           IsRoot(ours) => OnRecord(ours, record),
           IsRoot(theirs) /\ base # theirs => OnRecord(theirs, record),
           IsRoot(MergedRoot(base, ours, theirs)),
           \/ base = ours \/ base = theirs
           \/ /\ IsRoot(ours) => MergedRoot(base, ours, theirs).repository = ours.repository
              /\ IsRoot(base) => ours.repository = base.repository
    PROVE  OnRecord(MergedRoot(base, ours, theirs), record)
<1> DEFINE root == MergedRoot(base, ours, theirs)
<1>1. CASE Agreed(base, ours, theirs)
  BY <1>1 DEF MergedRoot, Merged
<1>2. CASE ~Agreed(base, ours, theirs)
  <2>1. /\ IsRoot(base) /\ IsRoot(ours) /\ IsRoot(theirs)
        /\ root.repository = ours.repository /\ ours.repository = base.repository
    BY <1>2 DEF RootsAgree, Agreed
  <2>2. /\ root.repository = Merged(base.repository, ours.repository, theirs.repository)
        /\ root.tags = [t \in Tag |-> Merged(base.tags[t], ours.tags[t], theirs.tags[t])]
    BY <1>2 DEF MergedRoot
  <2>3. theirs.repository = ours.repository
    BY <2>1, <2>2 DEF Merged
  <2>4. OnRecord(ours, record) /\ OnRecord(theirs, record)
    BY <1>2, <2>1 DEF Agreed
  <2>5. ASSUME NEW t \in Rows(root), root.repository \notin Private
        PROVE  <<root.repository, t, root.tags[t].content>> \in record
    <3>1. t \in Tag /\ root.tags[t] # NoRow
      BY DEF Rows
    <3>2. root.tags[t] = ours.tags[t] \/ root.tags[t] = theirs.tags[t]
      BY <2>2, <3>1 DEF Merged
    <3>3. CASE root.tags[t] = ours.tags[t]
      BY <2>1, <2>4, <2>5, <3>1, <3>3 DEF OnRecord, Rows
    <3>4. CASE root.tags[t] = theirs.tags[t]
      BY <2>1, <2>3, <2>4, <2>5, <3>1, <3>4 DEF OnRecord, Rows
    <3>5. QED BY <3>2, <3>3, <3>4
  <2>6. QED BY <2>5 DEF OnRecord
<1>3. QED BY <1>1, <1>2

LEMMA ClaimedMerge == ASSUME TypeOK, Judged, Claimed, NEW n \in Request, Merge(n) PROVE Claimed'
<1> DEFINE base == request[n].base
           head == request[n].head
<1>1. \A p \in Package : /\ base[p] \in Entry /\ head[p] \in Entry /\ main[p] \in Entry
                         /\ EntriesAgree(base[p], main[p], head[p])
                         /\ main'[p].root = MergedRoot(base[p].root, main[p].root, head[p].root)
  BY MergeType, MergedEntryType
<1>2. /\ crossed' = crossed \cup {p \in Package : base[p] # head[p] /\ base[p] # main[p]}
      /\ repointed' = repointed \cup
            {p \in Package : IsRoot(main[p].root) /\ main'[p].root.repository # main[p].root.repository}
      /\ request[n].check = "green" /\ request[n].status = "open"
      /\ UNCHANGED <<gate, serves, shown>>
  BY DEF Merge, registries
<1>3. \A m \in Request : /\ request'[m].base = request[m].base /\ request'[m].head = request[m].head
                         /\ request'[m].check = request[m].check
                         /\ request'[m].status # "none" <=> request[m].status # "none"
  <2>1. request' = [request EXCEPT ![n].status = "merged"]
    BY DEF Merge
  <2>2. \A m \in Request : request[m] \in RequestState
    BY DEF TypeOK
  <2>3. QED BY <1>2, <2>1, <2>2 DEF TypeOK, RequestState
<1>4. Trusted' \subseteq Trusted
  BY <1>2 DEF Trusted
<1>5. ASSUME NEW p \in Trusted', IsRoot(main'[p].root) PROVE OnRecord(main'[p].root, shown)
  <2>1. p \in Package /\ p \in Trusted
    BY <1>4 DEF Trusted
  <2> DEFINE b == base[p].root
             o == main[p].root
             h == head[p].root
  <2>2. b \in Roots /\ o \in Roots /\ h \in Roots /\ RootsAgree(b, o, h)
    BY <1>1, <2>1, EntryFields DEF EntriesAgree
  <2>3. main'[p].root = MergedRoot(b, o, h)
    BY <1>1, <2>1
  <2>4. IsRoot(o) => OnRecord(o, shown)
    BY <2>1 DEF Claimed, MainShown
  <2>5. IsRoot(h) /\ b # h => OnRecord(h, shown)
    <3>1. IsRoot(h) /\ b # h => p \in Selected(request[n])
      BY <2>1 DEF Selected, PackagesToValidate, ChangedRoots, IsRoot
    <3>2. QED BY <1>2, <2>1, <3>1 DEF Claimed, GreenShown
  <2>6. CASE p \notin crossed'
    <3>1. b = o \/ b = h
      BY <1>2, <2>1, <2>6
    <3> HIDE DEF b, o, h
    <3>2. QED BY <1>5, <2>2, <2>3, <2>4, <2>5, <3>1, MergedOnRecord
  <2>7. CASE p \notin repointed'
    <3>1. IsRoot(o) => main'[p].root.repository = o.repository
      BY <1>2, <2>1, <2>7
    <3>2. IsRoot(b) => o.repository = b.repository
      BY <1>2, <2>1, <2>7 DEF Claimed, Unmoved
    <3> HIDE DEF b, o, h
    <3>3. QED BY <1>5, <2>2, <2>3, <2>4, <2>5, <3>1, <3>2, MergedOnRecord
  <2>8. QED BY <2>6, <2>7 DEF Trusted
<1>6. MainShown' /\ (Shows(serves) \subseteq shown)'
  BY <1>2, <1>5 DEF Claimed, MainShown, Shows
<1>7. BasesShown'
  BY <1>2, <1>3, <1>4 DEF Claimed, BasesShown
<1>8. GreenShown'
  BY <1>2, <1>3, <1>4 DEF Claimed, GreenShown, Selected
<1>9. JobShown'
  <2>1. gate.request \in Request
    BY JobFields DEF TypeOK
  <2>2. QED BY <1>2, <1>3, <1>4, <2>1 DEF Claimed, JobShown, Selected
<1>10. Unmoved'
  <2>1. SUFFICES ASSUME NEW m \in Request, NEW p \in Package \ repointed',
                        request[m].status # "none", IsRoot(request[m].base[p].root)
                 PROVE  main'[p].root.repository = request[m].base[p].root.repository
    BY <1>3 DEF Unmoved
  <2>2. main[p].root.repository = request[m].base[p].root.repository
    BY <1>2, <2>1 DEF Claimed, Unmoved
  <2>3. request[m].base[p].root \in Roots
    BY RequestFields, EntryFields DEF TypeOK, Tree
  <2>4. main[p].root.repository \in Repo
    BY <2>1, <2>2, <2>3, RootFields
  <2>5. IsRoot(main[p].root)
    BY <2>4, TreeAssumption DEF IsRoot, NoRoot, Malformed
  <2>6. main'[p].root.repository = main[p].root.repository
    BY <1>2, <2>1, <2>5
  <2>7. QED BY <2>2, <2>6
<1>11. QED BY <1>6, <1>7, <1>8, <1>9, <1>10 DEF Claimed

LEMMA ClaimedMoves ==
    ASSUME Claimed, UNCHANGED <<main, request, gate, crossed, repointed>>,
           shown \subseteq shown', Shows(serves') \subseteq shown'
    PROVE  Claimed'
<1>1. MainShown'
  BY RecordGrows DEF Claimed, MainShown, Trusted
<1>2. BasesShown'
  BY RecordGrows DEF Claimed, BasesShown, Trusted
<1>3. GreenShown'
  BY RecordGrows DEF Claimed, GreenShown, Trusted
<1>4. JobShown'
  BY RecordGrows DEF Claimed, JobShown, Trusted
<1>5. Unmoved' /\ (Shows(serves) \subseteq shown)'
  BY DEF Claimed, Unmoved, Shows
<1>6. QED BY <1>1, <1>2, <1>3, <1>4, <1>5 DEF Claimed

LEMMA ClaimedInductive == TypeOK /\ Judged /\ Claimed /\ [Next]_vars => Claimed'
<1> SUFFICES ASSUME TypeOK, Judged, Claimed, [Next]_vars PROVE Claimed'
  OBVIOUS
<1>1. CASE \E n \in Request : Open(n) \/ Merge(n) \/ StartGate(n)
  BY <1>1, ClaimedOpen, ClaimedMerge, ClaimedStart
<1>2. CASE GateStep
  BY <1>2, ClaimedStep
<1>3. CASE EndGate \/ RegistryUnavailable
  BY <1>3, ClaimedEnd
<1>4. CASE Render \/ UNCHANGED vars
  <2>1. UNCHANGED <<main, request, gate, serves, shown, crossed, repointed>>
    BY <1>4 DEF Render, registries, history, vars
  <2>2. QED BY <2>1, ClaimedMoves DEF Claimed
<1>5. CASE \E r \in Repo : ManifestPruned(r) \/ \E t \in Tag : TagMoves(r, t)
  <2>1. UNCHANGED <<main, request, gate, crossed, repointed>>
    BY <1>5, RegistryType DEF history
  <2>2. shown \subseteq shown' /\ Shows(serves') \subseteq shown'
    BY <1>5 DEF ManifestPruned, TagMoves, Claimed
  <2>3. QED BY <2>1, <2>2, ClaimedMoves
<1>6. QED BY <1>1, <1>2, <1>3, <1>4, <1>5, Steps

\* What the index says of a public repository, that repository once served,
\* whatever is merged across whatever moves meanwhile, unless a merge carried
\* rows over to another repository (core/verify_claims.py).
THEOREM ClaimsAlwaysServed == Spec => []ClaimsWereServed
<1>1. QED BY ClaimedInit, ClaimedInductive, ClaimedIsServed, TypeCorrect, AlwaysJudged, PTL DEF Spec

-----------------------------------------------------------------------------
(* What the tools write (seed-import, the announce command) and what the    *)
(* gate makes of it while nothing moves.                                    *)

\* What a tool makes of an entry, from what the repositories answer.
WrittenWell(before, after, answers) ==
    /\ IsRoot(after.root) /\ Contents(after.root) \subseteq ImageIndex
    /\ \A t \in Rows(after.root) : answers[after.root.repository][t] = after.root.tags[t].content
    /\ before.root # NoRoot => AnnounceShaped(before.root, after.root)
    /\ Sound(before) => Sound(after)
    /\ Closed(before) => DanglingReferences(after) = {}

LEMMA WithObjectsAre ==
    ASSUME NEW entry \in Entry, NEW digests, NEW root \in Roots
    PROVE  LET after == [WithObjects(entry, digests) EXCEPT !.root = root]
           IN  /\ after.root = root
               /\ \A d \in Digest : after.objects[d] = IF d \in digests THEN "sound" ELSE entry.objects[d]
               /\ Sound(entry) => Sound(after)
<1> DEFINE objects == [d \in Digest |-> IF d \in digests THEN "sound" ELSE entry.objects[d]]
           after == [WithObjects(entry, digests) EXCEPT !.root = root]
<1>1. WithObjects(entry, digests) = [entry EXCEPT !.objects = objects]
  BY DEF WithObjects
<1>2. objects \in [Digest -> {"absent", "sound", "damaged"}]
  BY EntryFields
<1>3. \A d \in Digest : objects[d] = IF d \in digests THEN "sound" ELSE entry.objects[d]
  OBVIOUS
<1> HIDE DEF objects
<1>4. WithObjects(entry, digests) \in Entry /\ WithObjects(entry, digests).objects = objects
  BY <1>1, <1>2, NewEntry
<1>5. after.root = root /\ after.objects = objects
  BY <1>4, NewEntry
<1>6. Sound(entry) => Sound(after)
  BY <1>3, <1>5 DEF Sound
<1>7. QED BY <1>3, <1>5, <1>6

\* The rows of a root regenerated or imported are what was observed.
LEMMA ObservedRows ==
    ASSUME NEW answers \in [Tag -> Digest \cup {None}], NEW rows \in [Tag -> Row \cup {NoRow}],
           NEW root,
           root.tags = [t \in Tag |-> IF t \in ObservedTags(answers)
                                       THEN [rows[t] EXCEPT !.content = answers[t]] ELSE NoRow]
    PROVE  /\ Contents(root) \subseteq ImageIndex
           /\ \A t \in Rows(root) : /\ t \in Tag /\ root.tags[t].content = answers[t]
                                    /\ root.tags[t].yanked = rows[t].yanked
                                    /\ root.tags[t].ephemeral = rows[t].ephemeral
<1>1. \A t \in ObservedTags(answers) : t \in Tag /\ answers[t] \in ImageIndex /\ answers[t] \in Digest
  BY TreeAssumption DEF ObservedTags, Observe
<1>2. ASSUME NEW t \in Tag, NEW d \in Digest
      PROVE  /\ [rows[t] EXCEPT !.content = d].content = d
             /\ [rows[t] EXCEPT !.content = d].yanked = rows[t].yanked
             /\ [rows[t] EXCEPT !.content = d].ephemeral = rows[t].ephemeral
  BY DEF Row, NoRow
<1>3. ASSUME NEW t \in Rows(root)
      PROVE  /\ t \in Tag /\ t \in ObservedTags(answers)
             /\ root.tags[t] = [rows[t] EXCEPT !.content = answers[t]]
  BY <1>3 DEF Rows
<1>4. ASSUME NEW t \in Rows(root)
      PROVE  /\ t \in Tag /\ root.tags[t].content = answers[t] /\ answers[t] \in ImageIndex
             /\ root.tags[t].yanked = rows[t].yanked
             /\ root.tags[t].ephemeral = rows[t].ephemeral
  <2>1. t \in Tag /\ root.tags[t] = [rows[t] EXCEPT !.content = answers[t]]
    BY <1>3
  <2>2. answers[t] \in ImageIndex /\ answers[t] \in Digest
    BY <1>1, <1>3
  <2>3. /\ [rows[t] EXCEPT !.content = answers[t]].content = answers[t]
        /\ [rows[t] EXCEPT !.content = answers[t]].yanked = rows[t].yanked
        /\ [rows[t] EXCEPT !.content = answers[t]].ephemeral = rows[t].ephemeral
    BY <1>2, <2>1, <2>2
  <2>4. QED BY <2>1, <2>2, <2>3
<1>5. QED BY <1>4 DEF Contents

LEMMA ImportedWell ==
    ASSUME NEW entry \in Entry, entry.root = NoRoot, NEW r \in Repo,
           NEW answers \in [Repo -> [Tag -> Digest \cup {None}]], NEW desc \in SUBSET Digest
    PROVE  WrittenWell(entry, SeedImport(entry, r, answers[r], desc), answers)
<1> DEFINE rows == [t \in Tag |-> NoRow]
           tags == [t \in Tag |-> IF t \in ObservedTags(answers[r])
                                   THEN [rows[t] EXCEPT !.content = answers[r][t]] ELSE NoRow]
           root == [repository |-> r, tags |-> tags, desc |-> desc]
           after == SeedImport(entry, r, answers[r], desc)
<1>1. after = [WithObjects(entry, References(root)) EXCEPT !.root = root]
  BY DEF SeedImport
<1>2. rows \in [Tag -> Row \cup {NoRow}] /\ answers[r] \in [Tag -> Digest \cup {None}]
  OBVIOUS
<1>3. /\ Contents(root) \subseteq ImageIndex
      /\ \A t \in Rows(root) : root.tags[t].content = answers[r][t]
  <2>1. root.tags = tags
    OBVIOUS
  <2> HIDE DEF rows, root
  <2>2. QED BY <1>2, <2>1, ObservedRows
<1>4. root \in Roots /\ root \in Root
  <2>1. \A t \in ObservedTags(answers[r]) : answers[r][t] \in Digest
    BY <1>2, TreeAssumption DEF ObservedTags, Observe
  <2>2. tags \in [Tag -> Row \cup {NoRow}]
    BY <2>1, RowType
  <2> HIDE DEF tags
  <2>3. QED BY <2>2 DEF Root, Roots
<1>5. root.repository = r
  OBVIOUS
<1> HIDE DEF root, after
<1>6. /\ after.root = root
      /\ \A d \in Digest : after.objects[d] = IF d \in References(root) THEN "sound" ELSE entry.objects[d]
      /\ Sound(entry) => Sound(after)
  BY <1>1, <1>4, WithObjectsAre
<1>7. DanglingReferences(after) = {}
  <2>1. References(root) \subseteq Digest
    BY <1>3, <1>4, TreeAssumption DEF References, Root
  <2>2. QED BY <1>6, <2>1 DEF DanglingReferences
<1>8. IsRoot(after.root)
  BY <1>4, <1>6, RootsApart
<1>9. QED BY <1>3, <1>5, <1>6, <1>7, <1>8 DEF WrittenWell, after

LEMMA AnnouncedWell ==
    ASSUME NEW entry \in Entry, IsRoot(entry.root),
           NEW answers \in [Repo -> [Tag -> Digest \cup {None}]], NEW desc \in SUBSET Digest
    PROVE  WrittenWell(entry, Announced(entry, answers[entry.root.repository], desc), answers)
<1> DEFINE before == entry.root
           r == before.repository
           root == Regenerate(before, answers[r], desc)
           digests == Contents(root) \cup (desc \ before.desc)
           after == Announced(entry, answers[r], desc)
<1>1. after = [WithObjects(entry, digests) EXCEPT !.root = root]
  BY DEF Announced
<1>2. before \in Root /\ r \in Repo
  BY EntryFields, RootsApart, RootFields
<1>3. answers[r] \in [Tag -> Digest \cup {None}] /\ before.tags \in [Tag -> Row \cup {NoRow}]
  BY <1>2 DEF Root
<1>4. root \in Root
  BY <1>2, <1>3, RegenerateType
<1>5. /\ root.tags = [t \in Tag |-> IF t \in ObservedTags(answers[r])
                                     THEN [before.tags[t] EXCEPT !.content = answers[r][t]] ELSE NoRow]
      /\ root.desc = desc /\ root.repository = r
  BY <1>2 DEF Regenerate, Root
<1> HIDE DEF before, root, r
<1>6. /\ Contents(root) \subseteq ImageIndex
      /\ \A t \in Rows(root) : /\ root.tags[t].content = answers[r][t]
                               /\ root.tags[t].yanked = before.tags[t].yanked
                               /\ root.tags[t].ephemeral = before.tags[t].ephemeral
  <2> DEFINE heard == answers[r]
             rows == before.tags
  <2>1. /\ heard \in [Tag -> Digest \cup {None}] /\ rows \in [Tag -> Row \cup {NoRow}]
        /\ root.tags = [t \in Tag |-> IF t \in ObservedTags(heard)
                                       THEN [rows[t] EXCEPT !.content = heard[t]] ELSE NoRow]
    BY <1>3, <1>5
  <2> HIDE DEF heard, rows
  <2>2. /\ Contents(root) \subseteq ImageIndex
        /\ \A t \in Rows(root) : /\ root.tags[t].content = heard[t]
                                 /\ root.tags[t].yanked = rows[t].yanked
                                 /\ root.tags[t].ephemeral = rows[t].ephemeral
    BY <2>1, ObservedRows
  <2>3. QED BY <2>2 DEF heard, rows
<1> HIDE DEF after, digests
<1>7. /\ after.root = root
      /\ \A d \in Digest : after.objects[d] = IF d \in digests THEN "sound" ELSE entry.objects[d]
      /\ Sound(entry) => Sound(after)
  BY <1>1, <1>4, WithObjectsAre DEF Roots
<1>8. IsRoot(after.root)
  BY <1>4, <1>7, RootsApart DEF Roots
<1>9. AnnounceShaped(before, after.root)
  <2>1. IsRoot(before) /\ before.repository = root.repository
    BY <1>5 DEF before, r
  <2>2. QED BY <1>6, <1>7, <2>1 DEF AnnounceShaped
<1>10. ASSUME Closed(entry) PROVE DanglingReferences(after) = {}
  <2>1. DanglingReferences(entry) = {}
    BY <1>10 DEF Closed
  <2>2. References(root) \subseteq Digest
    BY <1>4, <1>5, <1>6, TreeAssumption DEF References
  <2>3. ASSUME NEW d \in References(root) PROVE after.objects[d] # "absent"
    <3>1. CASE d \in digests
      BY <1>7, <2>2, <3>1
    <3>2. CASE d \notin digests
      <4>1. d \in before.desc /\ d \in Digest
        BY <1>5, <2>2, <3>2 DEF References, digests
      <4>2. entry.objects[d] # "absent"
        BY <2>1, <4>1 DEF DanglingReferences, References, before
      <4>3. QED BY <1>7, <3>2, <4>1, <4>2
    <3>3. QED BY <3>1, <3>2
  <2>4. QED BY <1>7, <2>3 DEF DanglingReferences
<1>11. \A t \in Rows(after.root) : answers[after.root.repository][t] = after.root.tags[t].content
  BY <1>5, <1>6, <1>7
<1>12. Contents(after.root) \subseteq ImageIndex
  BY <1>6, <1>7
<1>13. WrittenWell(entry, after, answers)
  BY <1>7, <1>8, <1>9, <1>10, <1>11, <1>12 DEF WrittenWell, before
<1>14. QED BY <1>13 DEF after, r, before

\* A tool writes one entry, and leaves the others.
LEMMA WrittenHead ==
    ASSUME NEW tree \in Tree, serves \in [Repo -> [Tag -> Digest \cup {None}]],
           NEW head \in Written(tree)
    PROVE  \E p \in Package : /\ WrittenWell(tree[p], head[p], serves)
                              /\ \A q \in Package \ {p} : head[q] = tree[q]
<1>1. Descriptions \subseteq SUBSET Digest
  BY DEF Descriptions
<1>2. \A p \in Package : tree[p] \in Entry
  BY DEF Tree
<1>3. ASSUME NEW p \in Package, NEW e, head = [tree EXCEPT ![p] = e]
      PROVE  head[p] = e /\ \A q \in Package \ {p} : head[q] = tree[q]
  BY <1>3 DEF Tree
<1>4. CASE head \in SeedImports(tree)
  <2>1. PICK p \in Package : tree[p].root = NoRoot /\ head \in {[tree EXCEPT ![p] = e] : e \in SeedImportsOf(tree[p])}
    BY <1>4 DEF SeedImports
  <2>2. PICK e \in SeedImportsOf(tree[p]) : head = [tree EXCEPT ![p] = e]
    BY <2>1
  <2>3. PICK r \in Repo, desc \in Descriptions : e = SeedImport(tree[p], r, serves[r], desc)
    BY <2>2 DEF SeedImportsOf
  <2>4. WrittenWell(tree[p], e, serves)
    BY <1>1, <1>2, <2>1, <2>3, ImportedWell
  <2>5. QED BY <1>3, <2>2, <2>4
<1>5. CASE head \in Announces(tree)
  <2>1. PICK p \in Package : IsRoot(tree[p].root) /\ head \in {[tree EXCEPT ![p] = e] : e \in AnnouncesOf(tree[p])}
    BY <1>5 DEF Announces
  <2>2. PICK e \in AnnouncesOf(tree[p]) : head = [tree EXCEPT ![p] = e]
    BY <2>1
  <2>3. PICK desc \in {tree[p].root.desc} \cup Descriptions :
            e = Announced(tree[p], serves[tree[p].root.repository], desc)
    BY <2>2 DEF AnnouncesOf
  <2>4. desc \in SUBSET Digest
    BY <1>1, <1>2, <2>1, EntryFields, RootFields
  <2>5. WrittenWell(tree[p], e, serves)
    BY <1>2, <2>1, <2>3, <2>4, AnnouncedWell
  <2>6. QED BY <1>3, <2>2, <2>5
<1>6. QED BY <1>4, <1>5 DEF Written

\* What ToolsPassTheGate asks of request n and package p.
Fresh(n) == request[n].written /\ request[n].opened = moves
Alone(n) == \A m \in Request : request[m].status = "merged" => m = n
Before(n, p) == request[n].base[p]
After(n, p) == request[n].head[p]
Fair(n, p) ==
    /\ After(n, p) # Before(n, p)
    /\ Sound(Before(n, p)) /\ Closed(Before(n, p))
    /\ After(n, p).root.repository \in Allowed
    /\ \A d \in Contents(After(n, p).root) : Manifests[d] \subseteq holds[After(n, p).root.repository]
    /\ <<After(n, p).root.repository, p>> \notin Foreign
    /\ FromFork(n) /\ p \in Reserved => Before(n, p).root # NoRoot /\ Alone(n)

\* While nothing moves, what a tool wrote still is what the repositories answer.
WrittenHeads ==
    \A n \in Request :
        /\ request[n].opened <= moves
        /\ request[n].status = "none" => ~request[n].written
        /\ Fresh(n) => \E p \in Package :
              /\ WrittenWell(Before(n, p), After(n, p), serves)
              /\ \A q \in Package \ {p} : After(n, q) = Before(n, q)

\* Until another request merges, the base a request is judged against is its own.
OwnBase ==
    /\ \A n \in Request : request[n].status = "open" /\ Alone(n) => main = request[n].base
    /\ gate.phase # "idle" =>
          /\ request[gate.request].status # "none"
          /\ Alone(gate.request) => gate.base = request[gate.request].base

\* The job has nothing against the one package that was written, and asks of the
\* registry only what it serves.
AtEase(job, p, root) ==
    /\ ~job.failed /\ job.todo \subseteq {p}
    /\ job.phase # "package" => job.package = p
    /\ job.phase = "scope" => job.calls \subseteq ScopeCalls(root)
    /\ job.phase = "claim" => job.calls \subseteq {ClaimCall(t) : t \in Rows(root)}

NothingAgainst ==
    gate.phase # "idle" /\ Fresh(gate.request) => \A p \in Package :
        Fair(gate.request, p) => AtEase(gate, p, After(gate.request, p).root)

NeverRed ==
    \A n \in Request : Fresh(n) => \A p \in Package : Fair(n, p) => request[n].check # "red"

ToolsAgree == WrittenHeads /\ OwnBase /\ NothingAgainst /\ NeverRed

LEMMA ToolsAgreeSays == ToolsAgree => ToolsPassTheGate
BY DEF ToolsAgree, NeverRed, ToolsPassTheGate, Fresh, Fair, Before, After, Alone

\* What a step that leaves the registries alone leaves of these.
Keeps(m) ==
    /\ request'[m].base = request[m].base /\ request'[m].head = request[m].head
    /\ request'[m].written = request[m].written /\ request'[m].opened = request[m].opened

LEMMA FairBefore ==
    ASSUME NEW n, Keeps(n), Alone(n)' => Alone(n), UNCHANGED <<serves, holds, moves>>
    PROVE  /\ Fresh(n)' <=> Fresh(n)
           /\ \A p : /\ Before(n, p)' = Before(n, p) /\ After(n, p)' = After(n, p)
                     /\ Fair(n, p)' => Fair(n, p)
<1>1. Fresh(n)' <=> Fresh(n)
  BY DEF Fresh, Keeps
<1>2. ASSUME NEW p
      PROVE  /\ Before(n, p)' = Before(n, p) /\ After(n, p)' = After(n, p)
             /\ Fair(n, p)' => Fair(n, p)
  <2>1. Before(n, p)' = Before(n, p) /\ After(n, p)' = After(n, p)
    BY DEF Before, After, Keeps
  <2>2. QED BY <2>1 DEF Fair, FromFork
<1>3. QED BY <1>1, <1>2

LEMMA EaseAfter ==
    ASSUME NEW m, gate'.request = m,
           Fresh(m)' => \A p \in Package : Fair(m, p)' => AtEase(gate', p, After(m, p)'.root)
    PROVE  NothingAgainst'
BY DEF NothingAgainst, Fresh, Fair, After, Before, Alone, FromFork, AtEase

LEMMA HeadsKept ==
    ASSUME WrittenHeads, \A m \in Request : Keeps(m) /\ (request'[m].status = "none" => request[m].status = "none"),
           UNCHANGED <<serves, holds, moves>>
    PROVE  WrittenHeads'
<1> SUFFICES ASSUME NEW n \in Request
             PROVE  /\ request'[n].opened <= moves'
                    /\ request'[n].status = "none" => ~request'[n].written
                    /\ Fresh(n)' => \E p \in Package :
                          /\ WrittenWell(Before(n, p)', After(n, p)', serves')
                          /\ \A q \in Package \ {p} : After(n, q)' = Before(n, q)'
  BY DEF WrittenHeads
<1>1. request'[n].opened <= moves' /\ (request'[n].status = "none" => ~request'[n].written)
  BY DEF WrittenHeads, Keeps
<1>2. (Fresh(n)' <=> Fresh(n)) /\ \A p : Before(n, p)' = Before(n, p) /\ After(n, p)' = After(n, p)
  BY DEF Fresh, Before, After, Keeps
<1>3. QED BY <1>1, <1>2 DEF WrittenHeads

LEMMA ToolsOpen ==
    ASSUME TypeOK, Judged, ToolsAgree, NEW n \in Request, Open(n) PROVE ToolsAgree'
<1>1. PICK written \in BOOLEAN : \E head \in IF written THEN Written(main) ELSE Proposals(main) :
          request' = [request EXCEPT ![n] = [status |-> "open", base |-> main, head |-> head,
                                             written |-> written, opened |-> moves, check |-> "none"]]
  BY DEF Open
<1>2. PICK head \in IF written THEN Written(main) ELSE Proposals(main) :
          request' = [request EXCEPT ![n] = [status |-> "open", base |-> main, head |-> head,
                                             written |-> written, opened |-> moves, check |-> "none"]]
  BY <1>1
<1>3. \A m \in Request \ {n} : request'[m] = request[m]
  BY <1>2 DEF TypeOK
<1>4. /\ request'[n].base = main /\ request'[n].check = "none" /\ request'[n].head = head
      /\ request'[n].written = written /\ request'[n].opened = moves /\ request'[n].status = "open"
  BY <1>2 DEF TypeOK
<1>5. /\ UNCHANGED <<main, gate, serves, holds, moves>> /\ request[n].status = "none"
      /\ moves \in Nat
  BY DEF Open, registries, TypeOK
<1>6. gate.phase # "idle" => gate.request \in Request \ {n}
  BY <1>5, JobFields DEF Judged, TypeOK
<1>7. \A m : Alone(m)' => Alone(m)
  BY <1>3, <1>5 DEF Alone
<1>8. \A m \in Request \ {n} : Keeps(m)
  BY <1>3 DEF Keeps
<1>9. WrittenHeads'
  <2>1. ASSUME NEW m \in Request \ {n}
        PROVE  /\ request'[m].opened <= moves'
               /\ request'[m].status = "none" => ~request'[m].written
               /\ Fresh(m)' => \E p \in Package :
                     /\ WrittenWell(Before(m, p)', After(m, p)', serves')
                     /\ \A q \in Package \ {p} : After(m, q)' = Before(m, q)'
    <3>1. (Fresh(m)' <=> Fresh(m)) /\ \A p : Before(m, p)' = Before(m, p) /\ After(m, p)' = After(m, p)
      BY <1>3, <1>5 DEF Fresh, Before, After
    <3>2. QED BY <1>3, <1>5, <3>1 DEF ToolsAgree, WrittenHeads
  <2>2. ASSUME Fresh(n)'
        PROVE  \E p \in Package : /\ WrittenWell(Before(n, p)', After(n, p)', serves')
                                  /\ \A q \in Package \ {p} : After(n, q)' = Before(n, q)'
    <3>1. head \in Written(main)
      BY <1>2, <1>4, <2>2 DEF Fresh
    <3>2. PICK p \in Package : /\ WrittenWell(main[p], head[p], serves)
                               /\ \A q \in Package \ {p} : head[q] = main[q]
      BY <3>1, WrittenHead DEF TypeOK
    <3>3. \A q : Before(n, q)' = main[q] /\ After(n, q)' = head[q]
      BY <1>4 DEF Before, After
    <3>4. QED BY <1>5, <3>2, <3>3
  <2>3. request'[n].opened <= moves' /\ request'[n].status # "none"
    BY <1>4, <1>5
  <2>4. QED BY <2>1, <2>2, <2>3 DEF WrittenHeads
<1>10. OwnBase'
  <2>1. \A m \in Request : request'[m].status = "open" /\ Alone(m)' => main' = request'[m].base
    BY <1>3, <1>4, <1>5, <1>7 DEF ToolsAgree, OwnBase
  <2>2. ASSUME gate.phase # "idle"
        PROVE  /\ request'[gate.request].status # "none"
               /\ (\A m \in Request : request'[m].status = "merged" => m = gate.request)
                     => gate.base = request'[gate.request].base
    <3>1. (\A m \in Request : request'[m].status = "merged" => m = gate.request)
             => Alone(gate.request)
      BY <1>3, <1>5 DEF Alone
    <3>2. QED BY <1>3, <1>6, <2>2, <3>1 DEF ToolsAgree, OwnBase
  <2>3. QED BY <2>1, <2>2, <1>5 DEF OwnBase, Alone
<1>11. NothingAgainst'
  <2>1. CASE gate.phase = "idle"
    BY <1>5, <2>1 DEF NothingAgainst
  <2>2. CASE gate.phase # "idle"
    <3>1. PICK m \in Request : m = gate.request
      BY <1>6, <2>2
    <3>2. m # n
      BY <1>6, <2>2, <3>1
    <3>3. ASSUME Fresh(m)', NEW p \in Package, Fair(m, p)'
          PROVE  AtEase(gate', p, After(m, p)'.root)
      <4>1. Fresh(m) /\ Fair(m, p) /\ After(m, p)' = After(m, p)
        BY <1>5, <1>7, <1>8, <3>2, <3>3, FairBefore
      <4>2. AtEase(gate, p, After(m, p).root)
        BY <2>2, <3>1, <4>1 DEF ToolsAgree, NothingAgainst
      <4>3. QED BY <1>5, <4>1, <4>2
    <3>4. QED BY <1>5, <3>1, <3>3, EaseAfter
  <2>3. QED BY <2>1, <2>2
<1>12. NeverRed'
  <2>1. ASSUME NEW m \in Request \ {n}, Fresh(m)', NEW p \in Package, Fair(m, p)'
        PROVE  request'[m].check # "red"
    <3>1. Fresh(m) /\ Fair(m, p)
      BY <1>5, <1>7, <1>8, <2>1, FairBefore
    <3>2. QED BY <1>3, <3>1 DEF ToolsAgree, NeverRed
  <2>2. QED BY <1>4, <2>1 DEF NeverRed
<1>13. QED BY <1>9, <1>10, <1>11, <1>12 DEF ToolsAgree

\* A job is started on what the request changed, which is the one package.
LEMMA ToolsStart == ASSUME TypeOK, ToolsAgree, NEW n \in Request, StartGate(n) PROVE ToolsAgree'
<1>1. PICK ref \in BaseRefs :
          gate' = [phase |-> "package", request |-> n, base |-> BaseTree(n, ref),
                   todo |-> PackagesToValidate(request[n].base, request[n].head),
                   package |-> gate.package, calls |-> {}, failed |-> FALSE]
  BY DEF StartGate
<1>2. /\ gate'.request = n /\ gate'.base \in {main, request[n].base} /\ gate'.phase = "package"
      /\ gate'.todo = PackagesToValidate(request[n].base, request[n].head) /\ ~gate'.failed
  BY <1>1 DEF BaseTree
<1>3. /\ UNCHANGED <<main, request, serves, holds, moves>>
      /\ request[n].status = "open"
  BY DEF StartGate, registries
<1>4. WrittenHeads' /\ NeverRed'
  BY <1>3 DEF ToolsAgree, WrittenHeads, NeverRed, Fresh, Fair, Before, After, Alone
<1>5. OwnBase'
  BY <1>2, <1>3 DEF ToolsAgree, OwnBase, Alone
<1>6. NothingAgainst'
  <2>1. ASSUME Fresh(n), NEW p \in Package, Fair(n, p) PROVE gate'.todo \subseteq {p}
    <3>1. PICK q \in Package : \A o \in Package \ {q} : After(n, o) = Before(n, o)
      BY <2>1 DEF ToolsAgree, WrittenHeads
    <3>2. q = p
      BY <2>1, <3>1 DEF Fair
    <3>3. \A o \in gate'.todo : o \in Package /\ After(n, o) # Before(n, o)
      BY <1>2 DEF PackagesToValidate, ChangedRoots, ObjectOwners, After, Before
    <3>4. QED BY <3>1, <3>2, <3>3
  <2>2. \A p : /\ Fair(n, p)' <=> Fair(n, p)
               /\ Fresh(n)' <=> Fresh(n)
    BY <1>3 DEF Fair, Fresh, After, Before, Alone
  <2>3. Fresh(n)' => \A p \in Package : Fair(n, p)' => AtEase(gate', p, After(n, p)'.root)
    BY <1>2, <2>1, <2>2 DEF AtEase
  <2>4. QED BY <1>2, <2>3, EaseAfter
<1>7. QED BY <1>4, <1>5, <1>6 DEF ToolsAgree

\* Of a package it may, the job finds nothing, call after call.
LEMMA ProceedCalls ==
    ASSUME NEW job \in Job, NEW scope, NEW owner, NEW claims
    PROVE  /\ Proceed(job, scope, owner, claims).phase = "scope" =>
                 Proceed(job, scope, owner, claims).calls = scope
           /\ Proceed(job, scope, owner, claims).phase = "claim" =>
                 Proceed(job, scope, owner, claims).calls = claims
<1>1. CASE scope # {}
  BY <1>1 DEF Proceed, Job
<1>2. CASE scope = {} /\ owner # {}
  BY <1>2 DEF Proceed, Job
<1>3. CASE scope = {} /\ owner = {} /\ claims # {}
  BY <1>3 DEF Proceed, Job
<1>4. CASE scope = {} /\ owner = {} /\ claims = {}
  BY <1>4 DEF Proceed, Job
<1>5. QED BY <1>1, <1>2, <1>3, <1>4

LEMMA FairIsWell ==
    ASSUME WrittenHeads, NEW n \in Request, Fresh(n), NEW p \in Package, Fair(n, p)
    PROVE  /\ WrittenWell(Before(n, p), After(n, p), serves)
           /\ \A t \in Rows(After(n, p).root) : After(n, p).root.tags[t].content \in ImageIndex
<1>1. PICK q \in Package : /\ WrittenWell(Before(n, q), After(n, q), serves)
                           /\ \A o \in Package \ {q} : After(n, o) = Before(n, o)
  BY DEF WrittenHeads
<1>2. q = p
  BY <1>1 DEF Fair
<1>3. QED BY <1>1, <1>2 DEF WrittenWell, Contents

LEMMA FairIsSound ==
    ASSUME TypeOK, ToolsAgree, gate.phase # "idle", NEW n \in Request, n = gate.request, Fresh(n),
           NEW p \in Package, Fair(n, p)
    PROVE  StructurallySound(p, Head(p), gate.base[p].root, FromFork(gate.request))
<1>1. WrittenWell(Before(n, p), After(n, p), serves)
  BY FairIsWell DEF ToolsAgree
<1>2. Head(p) = After(n, p)
  BY DEF Head, After
<1>3. IsRoot(Head(p).root) /\ Contents(Head(p).root) \subseteq ImageIndex /\ Head(p).root.repository \in Allowed
  BY <1>1, <1>2 DEF WrittenWell, Fair
<1>4. DanglingReferences(Head(p)) = {} /\ \A d \in Digest : Head(p).objects[d] # "damaged"
  BY <1>1, <1>2 DEF WrittenWell, Fair, Sound
<1>5. ASSUME p \in Reserved, FromFork(gate.request) PROVE AnnounceShaped(gate.base[p].root, Head(p).root)
  <2>1. Before(n, p).root # NoRoot /\ Alone(n)
    BY <1>5 DEF Fair
  <2>2. gate.base[p] = Before(n, p)
    BY <2>1 DEF ToolsAgree, OwnBase, Before
  <2>3. QED BY <1>1, <1>2, <2>1, <2>2 DEF WrittenWell
<1>6. QED BY <1>3, <1>4, <1>5 DEF StructurallySound

LEMMA EaseOfValidate ==
    ASSUME TypeOK, ToolsAgree, NEW n \in Request, n = gate.request, Fresh(n),
           NEW p \in Package, Fair(n, p), NEW o \in Package, ValidateOne(o)
    PROVE  AtEase(gate', p, After(n, p).root)
<1> DEFINE root == After(n, p).root
           job == [gate EXCEPT !.todo = @ \ {o}, !.package = o]
<1>1. gate \in Job /\ gate.phase = "package" /\ o \in gate.todo
  BY DEF ValidateOne, TypeOK
<1>2. ~gate.failed /\ gate.todo \subseteq {p}
  BY <1>1 DEF ToolsAgree, NothingAgainst, AtEase
<1>3. o = p
  BY <1>1, <1>2
<1>4. Head(o).root = root
  BY <1>3 DEF Head, After
<1>5. StructurallySound(o, Head(o), gate.base[o].root, FromFork(gate.request))
  BY <1>1, <1>3, FairIsSound
<1>6. gate' = IF root.repository \in Private THEN job ELSE Proceed(job, ScopeCalls(root), {OwnerCall}, {})
  BY <1>4, <1>5 DEF ValidateOne
<1>7. /\ job \in Job /\ job.phase = "package" /\ ~job.failed /\ job.todo \subseteq {p} /\ job.package = p
  BY <1>1, <1>2, <1>3 DEF Job
<1>8. /\ gate'.package = p /\ gate'.todo \subseteq {p}
  BY <1>2, <1>3, ValidateOneType
<1> HIDE DEF job, root
<1>9. CASE root.repository \in Private
  BY <1>6, <1>7, <1>9 DEF AtEase
<1>10. CASE root.repository \notin Private
  <2>1. gate' = Proceed(job, ScopeCalls(root), {OwnerCall}, {})
    BY <1>6, <1>10
  <2>2. /\ gate'.phase = "scope" => gate'.calls = ScopeCalls(root)
        /\ gate'.phase = "claim" => gate'.calls = {}
    BY <1>7, <2>1, ProceedCalls
  <2>3. gate'.failed = job.failed
    BY <1>7, <2>1 DEF Proceed, Job
  <2>4. AtEase(gate', p, root)
    BY <1>7, <1>8, <2>2, <2>3 DEF AtEase
  <2>5. QED BY <2>4 DEF root
<1>11. QED BY <1>9, <1>10 DEF root

LEMMA EaseOfCalls ==
    ASSUME TypeOK, ToolsAgree, NEW n \in Request, n = gate.request, Fresh(n),
           NEW p \in Package, Fair(n, p),
           CheckOwnership \/ \E call \in gate.calls : CheckDigestInScope(call) \/ VerifyTagClaim(call)
    PROVE  AtEase(gate', p, After(n, p).root)
<1> DEFINE root == After(n, p).root
<1>1. gate \in Job /\ gate.phase \in {"scope", "owner", "claim"}
  BY DEF CheckOwnership, CheckDigestInScope, VerifyTagClaim, TypeOK
<1>2. AtEase(gate, p, root) /\ gate.package = p /\ ~gate.failed
  BY <1>1 DEF ToolsAgree, NothingAgainst, AtEase
<1>3. Head(gate.package).root = root
  BY <1>2 DEF Head, After
<1>4. /\ \A t \in Rows(root) : serves[root.repository][t] = root.tags[t].content
                               /\ root.tags[t].content \in ImageIndex
      /\ \A t \in Rows(root) : Manifests[root.tags[t].content] \subseteq holds[root.repository]
      /\ <<root.repository, p>> \notin Foreign
  BY FairIsWell DEF ToolsAgree, WrittenWell, Fair, Contents
<1>5. gate'.todo = gate.todo /\ gate'.package = gate.package
  BY CallType
<1> HIDE DEF root
<1>6. ASSUME NEW scope, NEW owner, NEW claims, gate' = Proceed(gate, scope, owner, claims),
             scope \subseteq ScopeCalls(root), claims \subseteq {ClaimCall(t) : t \in Rows(root)}
      PROVE  AtEase(gate', p, root)
  <2>1. /\ gate'.phase = "scope" => gate'.calls = scope
        /\ gate'.phase = "claim" => gate'.calls = claims
    BY <1>1, <1>6, ProceedCalls
  <2>2. gate'.failed = gate.failed
    BY <1>1, <1>6 DEF Proceed, Job
  <2>3. QED BY <1>2, <1>5, <1>6, <2>1, <2>2 DEF AtEase
<1>7. CASE CheckOwnership
  <2>1. gate' = Proceed(gate, {}, {}, ClaimCalls(gate.base[gate.package].root, root))
    BY <1>2, <1>3, <1>4, <1>7 DEF CheckOwnership
  <2>2. ClaimCalls(gate.base[gate.package].root, root) \subseteq {ClaimCall(t) : t \in Rows(root)}
    BY DEF ClaimCalls
  <2>3. QED BY <1>6, <2>1, <2>2 DEF root
<1>8. ASSUME NEW call \in gate.calls, CheckDigestInScope(call) PROVE AtEase(gate', p, root)
  <2>1. gate.phase = "scope" /\ gate.calls \subseteq ScopeCalls(root)
    BY <1>2, <1>8 DEF CheckDigestInScope, AtEase
  <2>2. PICK t \in Rows(root) : \E m \in Manifests[root.tags[t].content] : call = ScopeCall(t, m)
    BY <2>1 DEF ScopeCalls
  <2>3. call[3] \in holds[root.repository]
    BY <1>4, <2>2 DEF ScopeCall
  <2>4. gate' = Proceed(gate, gate.calls \ {call}, {OwnerCall}, {})
    BY <1>3, <1>8, <2>3 DEF CheckDigestInScope
  <2>5. QED BY <1>6, <2>1, <2>4
<1>9. ASSUME NEW call \in gate.calls, VerifyTagClaim(call) PROVE AtEase(gate', p, root)
  <2>1. gate.phase = "claim" /\ gate.calls \subseteq {ClaimCall(t) : t \in Rows(root)}
    BY <1>2, <1>9 DEF VerifyTagClaim, AtEase
  <2>2. PICK t \in Rows(root) : call = ClaimCall(t)
    BY <2>1
  <2> DEFINE answer == serves[root.repository][call[2]]
             job == Proceed(gate, {}, {}, gate.calls \ {call})
             failed == \/ job.failed \/ Observe(answer) # "observed"
                       \/ answer # root.tags[call[2]].content
  <2>3. call[2] = t
    BY <2>2 DEF ClaimCall
  <2>4. answer = root.tags[call[2]].content /\ Observe(answer) = "observed"
    BY <1>4, <2>3, TreeAssumption DEF Observe
  <2>5. /\ job \in Job /\ job.failed = gate.failed /\ job.todo = gate.todo /\ job.package = gate.package
        /\ job.phase = "scope" => job.calls = {}
        /\ job.phase = "claim" => job.calls = gate.calls \ {call}
    <3>1. gate.calls \ {call} \in SUBSET Calls /\ {} \in SUBSET Calls
      BY <1>1, JobFields
    <3>2. /\ IsJob(job) /\ job.failed = gate.failed /\ job.todo = gate.todo
          /\ job.package = gate.package
      BY <1>1, <3>1, ProceedType
    <3>3. /\ job.phase = "scope" => job.calls = {}
          /\ job.phase = "claim" => job.calls = gate.calls \ {call}
      BY <1>1, ProceedCalls
    <3> HIDE DEF job
    <3>4. QED BY <3>2, <3>3 DEF IsJob
  <2>6. gate' = [job EXCEPT !.failed = failed]
    BY <1>3, <1>9 DEF VerifyTagClaim
  <2>7. failed = FALSE
    BY <1>2, <2>4, <2>5
  <2> HIDE DEF job, failed, answer
  <2>8. gate'.failed = FALSE /\ gate'.phase = job.phase /\ gate'.calls = job.calls
    BY <2>5, <2>6, <2>7 DEF Job
  <2>9. QED BY <1>2, <1>5, <2>1, <2>5, <2>8 DEF AtEase
<1>10. QED BY <1>7, <1>8, <1>9 DEF root

LEMMA ToolsStep == ASSUME TypeOK, ToolsAgree, GateStep PROVE ToolsAgree'
<1>1. UNCHANGED <<main, request, serves, holds, moves>>
  BY GateStepType DEF GateOnly, registries
<1>2. gate.phase # "idle" /\ gate'.request = gate.request /\ gate'.base = gate.base
  <2>1. gate.phase # "idle"
    BY DEF GateStep, ValidateOne, CheckOwnership, CheckDigestInScope, VerifyTagClaim
  <2>2. gate'.request = gate.request /\ gate'.base = gate.base
    BY ValidateOneType, CallType DEF GateStep
  <2>3. QED BY <2>1, <2>2
<1>3. WrittenHeads' /\ NeverRed'
  BY <1>1 DEF ToolsAgree, WrittenHeads, NeverRed, Fresh, Fair, Before, After, Alone
<1>4. OwnBase'
  BY <1>1, <1>2 DEF ToolsAgree, OwnBase, Alone
<1>5. NothingAgainst'
  <2>1. PICK n \in Request : n = gate.request
    BY JobFields DEF TypeOK
  <2>2. /\ Fresh(n)' <=> Fresh(n)
        /\ \A p : (Fair(n, p)' <=> Fair(n, p)) /\ After(n, p)' = After(n, p)
    BY <1>1 DEF Fair, Fresh, After, Before, Alone
  <2>3. ASSUME Fresh(n), NEW p \in Package, Fair(n, p) PROVE AtEase(gate', p, After(n, p).root)
    <3>1. CASE \E o \in Package : ValidateOne(o)
      BY <2>1, <2>3, <3>1, EaseOfValidate
    <3>2. CASE CheckOwnership \/ \E call \in gate.calls : CheckDigestInScope(call) \/ VerifyTagClaim(call)
      BY <2>1, <2>3, <3>2, EaseOfCalls
    <3>3. QED BY <3>1, <3>2 DEF GateStep
  <2>4. Fresh(n)' => \A p \in Package : Fair(n, p)' => AtEase(gate', p, After(n, p)'.root)
    BY <2>2, <2>3
  <2>5. QED BY <1>2, <2>1, <2>4, EaseAfter
<1>6. QED BY <1>3, <1>4, <1>5 DEF ToolsAgree

\* The job ends green, or without an answer.
LEMMA ToolsEnd ==
    ASSUME TypeOK, ToolsAgree, EndGate \/ RegistryUnavailable PROVE ToolsAgree'
<1>1. PICK check \in {"green", "red", "unavailable"} :
         GateEnds(check) /\ (check = "red" => gate.failed)
  BY DEF EndGate, RegistryUnavailable
<1>2. gate.phase # "idle" /\ gate.request \in Request
  BY JobFields DEF EndGate, RegistryUnavailable, TypeOK
<1>3. \A m \in Request : /\ Keeps(m) /\ request'[m].status = request[m].status
                         /\ request'[m].check = IF m = gate.request THEN check ELSE request[m].check
  <2>1. request' = [request EXCEPT ![gate.request].check = check]
    BY <1>1 DEF GateEnds
  <2>2. \A m \in Request : request[m] \in RequestState
    BY DEF TypeOK
  <2>3. QED BY <1>2, <2>1, <2>2 DEF TypeOK, RequestState, Keeps
<1>4. gate'.phase = "idle"
  BY <1>1, IdleGateType DEF GateEnds
<1>5. UNCHANGED <<main, serves, holds, moves>>
  BY <1>1 DEF GateEnds, registries
<1>6. \A m : Alone(m)' <=> Alone(m)
  BY <1>3 DEF Alone
<1>7. WrittenHeads'
  BY <1>3, <1>5, HeadsKept DEF ToolsAgree
<1>8. OwnBase' /\ NothingAgainst'
  BY <1>3, <1>4, <1>5, <1>6 DEF ToolsAgree, OwnBase, NothingAgainst, Keeps
<1>9. NeverRed'
  <2>1. ASSUME NEW m \in Request, Fresh(m)', NEW p \in Package, Fair(m, p)'
        PROVE  request'[m].check # "red"
    <3>1. Fresh(m) /\ Fair(m, p)
      BY <1>3, <1>5, <1>6, <2>1, FairBefore
    <3>2. m = gate.request => ~gate.failed
      BY <1>2, <3>1 DEF ToolsAgree, NothingAgainst, AtEase
    <3>3. request[m].check # "red"
      BY <3>1 DEF ToolsAgree, NeverRed
    <3>4. QED BY <1>1, <1>3, <3>2, <3>3
  <2>2. QED BY <2>1 DEF NeverRed
<1>10. QED BY <1>7, <1>8, <1>9 DEF ToolsAgree

\* A merge moves the branch, and leaves no other request alone.
LEMMA ToolsMerge == ASSUME TypeOK, ToolsAgree, NEW n \in Request, Merge(n) PROVE ToolsAgree'
<1>1. /\ UNCHANGED <<gate, serves, holds, moves>>
      /\ request' = [request EXCEPT ![n].status = "merged"]
  BY DEF Merge, registries
<1>2. \A m \in Request : /\ Keeps(m) /\ request'[m].check = request[m].check
                         /\ request'[m].status = IF m = n THEN "merged" ELSE request[m].status
  <2>1. \A m \in Request : request[m] \in RequestState
    BY DEF TypeOK
  <2>2. QED BY <1>1, <2>1 DEF TypeOK, RequestState, Keeps
<1>3. \A m : Alone(m)' => Alone(m) /\ m = n
  BY <1>2 DEF Alone
<1>4. WrittenHeads'
  BY <1>1, <1>2, HeadsKept DEF ToolsAgree
<1>5. gate.phase # "idle" => gate.request \in Request
  BY JobFields DEF TypeOK
<1>6. OwnBase'
  <2>1. \A m \in Request : ~(request'[m].status = "open" /\ Alone(m)')
    BY <1>2, <1>3
  <2>2. ASSUME gate.phase # "idle"
        PROVE  /\ request'[gate.request].status # "none"
               /\ (\A m \in Request : request'[m].status = "merged" => m = gate.request)
                     => gate.base = request'[gate.request].base
    <3>1. (\A m \in Request : request'[m].status = "merged" => m = gate.request)
             => Alone(gate.request)
      BY <1>2 DEF Alone
    <3>2. QED BY <1>2, <1>5, <2>2, <3>1 DEF ToolsAgree, OwnBase, Keeps
  <2>3. QED BY <1>1, <2>1, <2>2 DEF OwnBase, Alone
<1>7. NothingAgainst'
  <2>1. CASE gate.phase = "idle"
    BY <1>1, <2>1 DEF NothingAgainst
  <2>2. CASE gate.phase # "idle"
    <3>1. PICK m \in Request : m = gate.request
      BY <1>5, <2>2
    <3>2. ASSUME Fresh(m)', NEW p \in Package, Fair(m, p)'
          PROVE  AtEase(gate', p, After(m, p)'.root)
      <4>1. Fresh(m) /\ Fair(m, p) /\ After(m, p)' = After(m, p)
        BY <1>1, <1>2, <1>3, <3>2, FairBefore
      <4>2. AtEase(gate, p, After(m, p).root)
        BY <2>2, <3>1, <4>1 DEF ToolsAgree, NothingAgainst
      <4>3. QED BY <1>1, <4>1, <4>2
    <3>3. QED BY <1>1, <3>1, <3>2, EaseAfter
  <2>3. QED BY <2>1, <2>2
<1>8. NeverRed'
  <2>1. ASSUME NEW m \in Request, Fresh(m)', NEW p \in Package, Fair(m, p)'
        PROVE  request'[m].check # "red"
    <3>1. Fresh(m) /\ Fair(m, p)
      BY <1>1, <1>2, <1>3, <2>1, FairBefore
    <3>2. QED BY <1>2, <3>1 DEF ToolsAgree, NeverRed
  <2>2. QED BY <2>1 DEF NeverRed
<1>9. QED BY <1>4, <1>6, <1>7, <1>8 DEF ToolsAgree

\* Nothing is fresh any more once the registries have moved.
LEMMA ToolsMoves ==
    ASSUME TypeOK, ToolsAgree, UNCHANGED <<main, request, gate>>, moves' = moves + 1
    PROVE  ToolsAgree'
<1>1. moves \in Nat /\ \A n \in Request : request[n].opened \in Nat /\ request[n].opened <= moves
  BY DEF TypeOK, RequestState, ToolsAgree, WrittenHeads
<1>2. \A n \in Request : ~Fresh(n)'
  BY <1>1 DEF Fresh
<1>3. WrittenHeads' /\ NeverRed'
  BY <1>1, <1>2 DEF ToolsAgree, WrittenHeads, NeverRed
<1>4. OwnBase'
  BY DEF ToolsAgree, OwnBase, Alone
<1>5. NothingAgainst'
  <2>1. gate.request \in Request
    BY JobFields DEF TypeOK
  <2>2. request[gate.request].opened # moves'
    BY <1>1, <2>1
  <2>3. QED BY <2>2 DEF NothingAgainst, Fresh
<1>6. QED BY <1>3, <1>4, <1>5 DEF ToolsAgree

LEMMA ToolsInit == Init => ToolsAgree
<1> SUFFICES ASSUME Init PROVE ToolsAgree
  OBVIOUS
<1>1. \A n \in Request : /\ request[n].status = "none" /\ ~request[n].written
                         /\ request[n].opened = 0 /\ request[n].check = "none"
  BY DEF Init
<1>2. gate.phase = "idle" /\ moves = 0
  BY IdleGateType DEF Init
<1>3. QED BY <1>1, <1>2 DEF ToolsAgree, WrittenHeads, OwnBase, NothingAgainst, NeverRed, Fresh

LEMMA ToolsInductive == TypeOK /\ Judged /\ ToolsAgree /\ [Next]_vars => ToolsAgree'
<1> SUFFICES ASSUME TypeOK, Judged, ToolsAgree, [Next]_vars PROVE ToolsAgree'
  OBVIOUS
<1>1. CASE \E n \in Request : Open(n) \/ Merge(n) \/ StartGate(n)
  BY <1>1, ToolsOpen, ToolsMerge, ToolsStart
<1>2. CASE GateStep
  BY <1>2, ToolsStep
<1>3. CASE EndGate \/ RegistryUnavailable
  BY <1>3, ToolsEnd
<1>4. CASE Render \/ UNCHANGED vars
  <2>1. UNCHANGED <<main, request, gate, serves, holds, moves>>
    BY <1>4 DEF Render, registries, vars
  <2>2. WrittenHeads' /\ NeverRed'
    BY <2>1 DEF ToolsAgree, WrittenHeads, NeverRed, Fresh, Fair, Before, After, Alone
  <2>3. OwnBase'
    BY <2>1 DEF ToolsAgree, OwnBase, Alone
  <2>4. NothingAgainst'
    BY <2>1 DEF ToolsAgree, NothingAgainst, AtEase, Fresh, Fair, Before, After, Alone
  <2>5. QED BY <2>2, <2>3, <2>4 DEF ToolsAgree
<1>5. CASE \E r \in Repo : ManifestPruned(r) \/ \E t \in Tag : TagMoves(r, t)
  BY <1>5, RegistryType, ToolsMoves DEF ManifestPruned, TagMoves
<1>6. QED BY <1>1, <1>2, <1>3, <1>4, <1>5, Steps

\* While the registries stand still, validate-pr never turns red an entry that
\* seed-import or the announce command wrote (cli/seed_import.py, core/regenerate.py,
\* cli/validate_pr.py), whatever other requests are opened, judged and merged.
THEOREM ToolsAlwaysPass == Spec => []ToolsPassTheGate
<1>1. QED BY ToolsInit, ToolsInductive, ToolsAgreeSays, TypeCorrect, AlwaysJudged, PTL DEF Spec
=============================================================================
