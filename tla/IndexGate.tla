------------------------------ MODULE IndexGate ------------------------------
(***************************************************************************)
(* How the committed index changes and what is served of it: requests are  *)
(* opened from the default branch, `indexbot validate-pr` judges each at   *)
(* its own head (cli/validate_pr.py, cli/validate.py), the forge merges    *)
(* the green ones into a branch that has moved since, and `indexbot        *)
(* render` serves what the branch holds (cli/render.py, core/render.py).   *)
(* The registries the gate asks move between its calls.                    *)
(***************************************************************************)
EXTENDS IndexTree

CONSTANTS
    Request,            \* change requests, numbered as they are opened
    Forks,              \* those whose source is a fork
    BaseRefs,           \* what the base commit is: {"tip"} on GitHub, {"merge-base"} on GitLab
    FirstTree,          \* the index to start from
    FirstServes,        \* [Repo -> [Tag -> Digest \cup {None}]]
    MaxMoves            \* bound: changes of the registries

ASSUME GateAssumption ==
    /\ Request \subseteq Nat /\ Request # {} /\ Forks \subseteq Request
    /\ BaseRefs \subseteq {"tip", "merge-base"}
    /\ FirstServes \in [Repo -> [Tag -> Digest \cup {None}]]
    /\ MaxMoves \in Nat
    /\ FirstTree \in Tree
    /\ \A p \in Package :
          LET entry == FirstTree[p]
              first == FirstServes[entry.root.repository]
          IN  /\ Closed(entry)
              /\ IsRoot(entry.root) => Sound(entry)
              /\ IsRoot(entry.root) /\ entry.root.repository \notin Private =>
                    \A t \in Rows(entry.root) : entry.root.tags[t].content = first[t]

VARIABLES
    main,               \* the tree of the default branch
    request,            \* each request: its status, merge base, head and check
    gate,               \* the validate-pr job that runs, if any
    serves,             \* what each repository's tags resolve to
    holds,              \* the platform manifests each repository holds
    moves,
    served,             \* the tree the last render left
    shown,              \* history: <<repository, tag, digest>> ever served
    crossed,            \* history: packages merged into from a base they had moved from
    repointed           \* history: packages whose repository a merge changed

registries == <<serves, holds, moves, shown>>
history == <<crossed, repointed>>
vars == <<main, request, gate, registries, served, history>>

Unserved == [root |-> NoRoot, objects |-> [d \in Digest |-> "absent"]]
NoTree == [p \in Package |-> Unserved]

\* What is asked of a registry, with what it is asked about.
ScopeCall(t, m) == <<"scope", t, m>>
OwnerCall == <<"owner">>
ClaimCall(t) == <<"claim", t>>
ScopeCallSet == UNION {{ScopeCall(t, m) : m \in Manifest} : t \in Tag}
ClaimCallSet == {ClaimCall(t) : t \in Tag}
Calls == ScopeCallSet \cup {OwnerCall} \cup ClaimCallSet

Job == [phase   : {"idle", "package", "scope", "owner", "claim"},
        request : Request,
        base    : Tree,             \* the base-ref roots the gate materialized
        todo    : SUBSET Package,
        package : Package,
        calls   : SUBSET Calls,     \* registry calls left in this phase
        failed  : BOOLEAN]          \* some root's report is not OK

RequestState == [status : {"none", "open", "merged"}, base : Tree, head : Tree,
                 written : BOOLEAN,         \* by one of the tools, and not by hand
                 opened  : 0 .. MaxMoves,   \* when, by the registries' moves
                 check : {"none", "green", "red", "unavailable"}]

TypeOK ==
    /\ main \in Tree /\ served \in Tree
    /\ request \in [Request -> RequestState]
    /\ gate \in Job
    /\ gate.phase \in {"scope", "owner", "claim"} <=> gate.calls # {}
    /\ serves \in [Repo -> [Tag -> Digest \cup {None}]]
    /\ holds \in [Repo -> SUBSET Manifest]
    /\ moves \in 0 .. MaxMoves
    /\ shown \subseteq Repo \X Tag \X Digest
    /\ crossed \subseteq Package /\ repointed \subseteq Package

Idle == [phase |-> "idle", request |-> CHOOSE n \in Request : TRUE, base |-> NoTree,
         todo |-> {}, package |-> CHOOSE p \in Package : TRUE, calls |-> {}, failed |-> FALSE]

Shows(answers) == {<<r, t, answers[r][t]>> : r \in Repo, t \in Tag} \cap (Repo \X Tag \X Digest)

Init ==
    /\ main = FirstTree
    /\ request = [n \in Request |-> [status |-> "none", base |-> NoTree, head |-> NoTree,
                                     written |-> FALSE, opened |-> 0, check |-> "none"]]
    /\ gate = Idle
    /\ serves = FirstServes
    /\ holds = [r \in Repo |-> Manifest]
    /\ moves = 0
    /\ served = NoTree
    /\ shown = Shows(FirstServes)
    /\ crossed = {} /\ repointed = {}

-----------------------------------------------------------------------------
(* People: a request is one edit of the branch it is opened from.          *)

WithObject(entry, d) ==
    [entry EXCEPT !.objects[d] = IF @ = "absent" THEN "sound" ELSE @]

WithRow(entry, t, row) == [entry EXCEPT !.root.tags[t] = row]

Announce(entry, t, d) == WithRow(WithObject(entry, d), t, [entry.root.tags[t] EXCEPT !.content = d])
ToggleYanked(entry, t) == WithRow(entry, t, [entry.root.tags[t] EXCEPT !.yanked = ~@])
ToggleEphemeral(entry, t) == WithRow(entry, t, [entry.root.tags[t] EXCEPT !.ephemeral = ~@])
Redescribe(entry, d) == [WithObject(entry, d) EXCEPT !.root = [entry.root EXCEPT !.desc = {d}]]
Repoint(entry, r) == [entry EXCEPT !.root = [entry.root EXCEPT !.repository = r]]

RowEdits(entry) ==
    {WithRow(entry, t, NoRow) : t \in Rows(entry.root)}
    \cup {ToggleYanked(entry, t) : t \in Rows(entry.root)}
    \cup {ToggleEphemeral(entry, t) : t \in Rows(entry.root)}

RootEdits(entry) ==
    {Redescribe(entry, d) : d \in Digest} \cup {Repoint(entry, r) : r \in Repo}
    \cup {[entry EXCEPT !.root = NoRoot], [entry EXCEPT !.root = Malformed], Unserved}

Announcements(entry) == UNION {{Announce(entry, t, d) : t \in Tag} : d \in Digest}

Edits(entry) == Announcements(entry) \cup RowEdits(entry) \cup RootEdits(entry)

WithObjectAs(entry, d, o) == [entry EXCEPT !.objects = [@ EXCEPT ![d] = o]]

ObjectEdits(entry) ==
    UNION {{WithObjectAs(entry, d, o) : d \in Digest} : o \in {"absent", "sound", "damaged"}}

Claim(r) == [Unserved EXCEPT !.root = [NoRoot EXCEPT !.repository = r]]

PackageEdits(entry) ==
    ObjectEdits(entry) \cup IF IsRoot(entry.root) THEN Edits(entry) ELSE {Claim(r) : r \in Repo}

\* An object renamed into another package's directory.
Renamed(tree, p, q, d) ==
    LET copied == [tree EXCEPT ![q] = WithObjectAs(tree[q], d, tree[p].objects[d])]
    IN  [copied EXCEPT ![p] = WithObjectAs(copied[p], d, "absent")]

Rewritten(tree) == UNION {{[tree EXCEPT ![p] = e] : e \in PackageEdits(tree[p])} : p \in Package}
Renames(tree) ==
    UNION {UNION {{Renamed(tree, p, q, d) : d \in Digest} : q \in Package} : p \in Package}

Proposals(tree) == (Rewritten(tree) \cup Renames(tree)) \ {tree}

\* The documents a description can be made of.
Descriptions == {{d} : d \in Digest \ ImageIndex}

\* seed-import: of a package that has no root yet, from an allowed repository
\* that serves something.
Importable(r) == r \in Allowed /\ Observable(serves[r]) /\ ObservedTags(serves[r]) # {}

SeedImportsOf(entry) ==
    UNION {{SeedImport(entry, r, serves[r], desc) : desc \in Descriptions} : r \in {s \in Repo : Importable(s)}}

SeedImports(tree) ==
    UNION {{[tree EXCEPT ![p] = e] : e \in SeedImportsOf(tree[p])} :
           p \in {o \in Package : tree[o].root = NoRoot}}

\* The announce command, which is not in this repository: it regenerates a root,
\* with the description it has or a new one, and adds the objects.
Announced(entry, answers, desc) ==
    LET root == Regenerate(entry.root, answers, desc)
    IN  [WithObjects(entry, Contents(root) \cup (desc \ entry.root.desc)) EXCEPT !.root = root]

AnnouncesOf(entry) ==
    {Announced(entry, serves[entry.root.repository], desc) : desc \in {entry.root.desc} \cup Descriptions}

Announces(tree) ==
    UNION {{[tree EXCEPT ![p] = e] : e \in AnnouncesOf(tree[p])} :
           p \in {o \in Package : IsRoot(tree[o].root) /\ Observable(serves[tree[o].root.repository])}}

Written(tree) == (SeedImports(tree) \cup Announces(tree)) \ {tree}

Open(n) ==
    /\ request[n].status = "none"
    /\ \A m \in Request : m < n => request[m].status # "none"
    /\ \E written \in BOOLEAN :
       \E head \in IF written THEN Written(main) ELSE Proposals(main) :
          request' = [request EXCEPT ![n] = [status |-> "open", base |-> main, head |-> head,
                                             written |-> written, opened |-> moves,
                                             check |-> "none"]]
    /\ UNCHANGED <<main, gate, registries, served, history>>

-----------------------------------------------------------------------------
(* validate-pr.                                                            *)

\* git diff --no-renames --diff-filter=d from the merge base, of the roots.
ChangedRoots(base, head) == {p \in Package : base[p].root # head[p].root /\ head[p].root # NoRoot}

\* The same of the objects, deletions included, mapped to their package's root.
ObjectOwners(base, head) == {p \in Package : base[p].objects # head[p].objects}

\* Mutant: only roots, as before objects had owners.
RootsOnly(base, head) == ChangedRoots(base, head)

\* Mutant: the object lookup keeps --diff-filter=d.
WithoutDeletedObjects(base, head) ==
    {p \in Package : head[p].root # NoRoot /\
        \/ base[p].root # head[p].root
        \/ \E d \in Digest : head[p].objects[d] \notin {"absent", base[p].objects[d]}}

\* The owners that exist at the head, with the changed roots.
PackagesToValidate(base, head) ==
    ChangedRoots(base, head) \cup {p \in ObjectOwners(base, head) : head[p].root # NoRoot}

\* _resolve_base_sha: the tip the forge saw, or the merge base.
BaseTree(n, ref) == IF ref = "tip" THEN main ELSE request[n].base

\* _same_repo_pr, in the negative.
FromFork(n) == n \in Forks

StartGate(n) ==
    /\ gate.phase = "idle"
    /\ request[n].status = "open" /\ request[n].check # "green"
    /\ \E ref \in BaseRefs :
          gate' = [phase |-> "package", request |-> n,
                   base |-> BaseTree(n, ref),
                   todo |-> PackagesToValidate(request[n].base, request[n].head),
                   package |-> gate.package, calls |-> {}, failed |-> FALSE]
    /\ UNCHANGED <<main, request, registries, served, history>>

Head(p) == request[gate.request].head[p]

\* The registry calls the phases of one root make.
ScopeCalls(root) ==
    UNION {{ScopeCall(t, m) : m \in Manifests[root.tags[t].content]} : t \in Rows(root)}
ClaimCalls(base, root) == {ClaimCall(t) : t \in Rows(root) \ CarriedOver(base, root)}

\* The first of these phases that has a call to make, or the next root.
Proceed(job, scope, owner, claims) ==
    CASE scope # {} -> [job EXCEPT !.phase = "scope", !.calls = scope]
      [] scope = {} /\ owner # {} -> [job EXCEPT !.phase = "owner", !.calls = owner]
      [] scope = {} /\ owner = {} /\ claims # {} -> [job EXCEPT !.phase = "claim", !.calls = claims]
      [] OTHER -> [job EXCEPT !.phase = "package", !.calls = {}]

Reject(job) == [job EXCEPT !.phase = "package", !.calls = {}, !.failed = TRUE]

GateOnly == UNCHANGED <<main, request, registries, served, history>>

\* _validate_one: everything before the first registry call.
ValidateOne(p) ==
    LET entry == Head(p)
        job == [gate EXCEPT !.todo = @ \ {p}, !.package = p]
        sound == StructurallySound(p, entry, gate.base[p].root, FromFork(gate.request))
    IN  /\ gate.phase = "package" /\ p \in gate.todo
        /\ gate' = IF ~sound THEN Reject(job)
                   ELSE IF entry.root.repository \in Private THEN job
                   ELSE Proceed(job, ScopeCalls(entry.root), {OwnerCall}, {})
        /\ GateOnly

\* check_digest_in_scope for one platform manifest; the first absent one raises.
CheckDigestInScope(call) ==
    /\ gate.phase = "scope" /\ call \in gate.calls
    /\ gate' = IF call[3] \in holds[Head(gate.package).root.repository]
               THEN Proceed(gate, gate.calls \ {call}, {OwnerCall}, {})
               ELSE Reject(gate)
    /\ GateOnly

CheckOwnership ==
    LET root == Head(gate.package).root
    IN  /\ gate.phase = "owner"
        /\ gate' = IF <<root.repository, gate.package>> \in Foreign THEN Reject(gate)
                   ELSE Proceed(gate, {}, {}, ClaimCalls(gate.base[gate.package].root, root))
        /\ GateOnly

\* Mutant: a claim need only resolve to some image index.
VerifyTagClaimResolves(call) ==
    LET root == Head(gate.package).root
        answer == serves[root.repository][call[2]]
    IN  /\ gate.phase = "claim" /\ call \in gate.calls
        /\ gate' = [Proceed(gate, {}, {}, gate.calls \ {call}) EXCEPT
                       !.failed = @ \/ Observe(answer) # "observed"]
        /\ GateOnly

\* _verify_tag_claim for one row: every finding counts, none stops the others.
VerifyTagClaim(call) ==
    LET root == Head(gate.package).root
        answer == serves[root.repository][call[2]]
    IN  /\ gate.phase = "claim" /\ call \in gate.calls
        /\ gate' = [Proceed(gate, {}, {}, gate.calls \ {call}) EXCEPT
                       !.failed = @ \/ Observe(answer) # "observed"
                                    \/ answer # root.tags[call[2]].content]
        /\ GateOnly

GateEnds(check) ==
    /\ gate' = Idle
    /\ request' = [request EXCEPT ![gate.request].check = check]
    /\ UNCHANGED <<main, registries, served, history>>

\* worst_exit_code over the reports.
EndGate ==
    /\ gate.phase = "package" /\ gate.todo = {}
    /\ GateEnds(IF gate.failed THEN "red" ELSE "green")

\* Backoff exhausted: TransientError leaves run, and the job fails with its own
\* exit code.
RegistryUnavailable ==
    /\ gate.phase \in {"scope", "owner", "claim"}
    /\ GateEnds("unavailable")

-----------------------------------------------------------------------------
(* The forge: a three-way merge, field by field.                           *)

Agreed(base, ours, theirs) == base = ours \/ base = theirs \/ ours = theirs
Merged(base, ours, theirs) == IF base = theirs THEN ours ELSE theirs

RootsAgree(base, ours, theirs) ==
    \/ Agreed(base, ours, theirs)
    \/ /\ IsRoot(base) /\ IsRoot(ours) /\ IsRoot(theirs)
       /\ Agreed(base.repository, ours.repository, theirs.repository)
       /\ Agreed(base.desc, ours.desc, theirs.desc)
       /\ \A t \in Tag : Agreed(base.tags[t], ours.tags[t], theirs.tags[t])

EntriesAgree(base, ours, theirs) ==
    /\ RootsAgree(base.root, ours.root, theirs.root)
    /\ \A d \in Digest : Agreed(base.objects[d], ours.objects[d], theirs.objects[d])

MergedRoot(base, ours, theirs) ==
    IF Agreed(base, ours, theirs) THEN Merged(base, ours, theirs)
    ELSE [repository |-> Merged(base.repository, ours.repository, theirs.repository),
          tags |-> [t \in Tag |-> Merged(base.tags[t], ours.tags[t], theirs.tags[t])],
          desc |-> Merged(base.desc, ours.desc, theirs.desc)]

MergedEntry(base, ours, theirs) ==
    [root |-> MergedRoot(base.root, ours.root, theirs.root),
     objects |-> [d \in Digest |->
                    Merged(base.objects[d], ours.objects[d], theirs.objects[d])]]

\* Only a request whose required check is green merges.
Merge(n) ==
    LET base == request[n].base
        head == request[n].head
    IN  /\ request[n].status = "open" /\ request[n].check = "green"
        /\ {p \in Package : ~EntriesAgree(base[p], main[p], head[p])} = {}
        /\ main' = [p \in Package |-> MergedEntry(base[p], main[p], head[p])]
        /\ request' = [request EXCEPT ![n].status = "merged"]
        /\ crossed' = crossed \cup {p \in Package : base[p] # head[p] /\ base[p] # main[p]}
        /\ repointed' = repointed \cup
              {p \in Package : IsRoot(main[p].root)
                               /\ main'[p].root.repository # main[p].root.repository}
        /\ UNCHANGED <<gate, registries, served>>

-----------------------------------------------------------------------------
(* render, of the tree a deployment checks out.                            *)

\* Mutant: dangling references are not looked for.
QuarantinedMalformed(entry) == entry.root = Malformed

Quarantined(entry) == entry.root = Malformed \/ DanglingReferences(entry) # {}

RenderedEntry(entry) ==
    [entry EXCEPT !.objects = [d \in Digest |->
        IF d \in ReachableDigests(entry.root) THEN @[d] ELSE "absent"]]

\* Refuses an empty index, and a damaged object of any package it loads: one
\* whose root does not parse is left out before its objects are read.
Render ==
    LET packages == {p \in Package : main[p].root # NoRoot}
        sources == {p \in packages : ~Quarantined(main[p])}
    IN  /\ sources # {}
        /\ \A p \in packages : main[p].root # Malformed => Sound(main[p])
        /\ served' = [p \in Package |-> IF p \in sources THEN RenderedEntry(main[p]) ELSE Unserved]
        /\ UNCHANGED <<main, request, gate, registries, history>>

-----------------------------------------------------------------------------
(* The registries.                                                         *)

\* A push, which uploads the manifests it lists first, or a tag deleted.
TagMoves(r, t) ==
    /\ moves < MaxMoves
    /\ \E d \in (Digest \cup {None}) \ {serves[r][t]} :
          /\ serves' = [serves EXCEPT ![r][t] = d]
          /\ holds' = [holds EXCEPT ![r] = @ \cup IF d \in ImageIndex THEN Manifests[d] ELSE {}]
    /\ shown' = shown \cup Shows(serves')
    /\ moves' = moves + 1
    /\ UNCHANGED <<main, request, gate, served, history>>

ManifestPruned(r) ==
    /\ moves < MaxMoves
    /\ \E m \in holds[r] : holds' = [holds EXCEPT ![r] = @ \ {m}]
    /\ moves' = moves + 1
    /\ UNCHANGED <<main, request, gate, serves, shown, served, history>>

-----------------------------------------------------------------------------
GateNext ==
    \/ \E n \in Request : StartGate(n)
    \/ \E p \in Package : ValidateOne(p)
    \/ \E call \in gate.calls :
          CheckDigestInScope(call) \/ VerifyTagClaim(call)
    \/ CheckOwnership \/ EndGate \/ RegistryUnavailable

Next ==
    \/ \E n \in Request : Open(n) \/ Merge(n)
    \/ GateNext
    \/ Render
    \/ \E r \in Repo : ManifestPruned(r) \/ \E t \in Tag : TagMoves(r, t)

Spec == Init /\ [][Next]_vars

-----------------------------------------------------------------------------
(* Properties.                                                             *)

\* The check is green only of a head none of whose packages the request broke:
\* whatever it deletes, renames, tampers with or repoints, what was closed and
\* sound where it branched off is closed and sound at its head
\* (_packages_to_validate selects every package a diff can break).
GreenBreaksNothing ==
    \A n \in Request : request[n].check = "green" =>
        \A p \in Package :
            LET base == request[n].base[p]
                head == request[n].head[p]
            IN  /\ Closed(base) => Closed(head)
                /\ Sound(base) => Sound(head) \/ head.root = NoRoot

\* On the default branch a root refers to an absent object, or has a damaged
\* one beside it, only where a merge brought together two changes of that
\* package, each valid on its own.
ClosedUnlessCrossed ==
    \A p \in Package \ crossed :
        Closed(main[p]) /\ (IsRoot(main[p].root) => Sound(main[p]))

\* What the index says a tag of a public repository resolved to, that
\* repository once did serve; unless a merge carried a row over to a
\* repository it was never checked against.
ClaimsWereServed ==
    \A p \in Package \ (crossed \cap repointed) :
        LET root == main[p].root
        IN  IsRoot(root) /\ root.repository \notin Private =>
                \A t \in Rows(root) : <<root.repository, t, root.tags[t].content>> \in shown

\* What seed-import and an announce write from what a repository serves, the gate
\* finds nothing against, while nothing moves: the tools and the gate agree on
\* what an entry is.  What can stop it was there before: objects that were damaged
\* or missing, an image whose platforms are gone, a repository that names another
\* package, a reserved segment.
ToolsPassTheGate ==
    \A n \in Request : request[n].written /\ request[n].opened = moves =>
        \A p \in Package :
            LET base == request[n].base[p]
                head == request[n].head[p]
                fair == /\ head # base
                        /\ Sound(base) /\ Closed(base)
                        /\ head.root.repository \in Allowed
                        /\ \A d \in Contents(head.root) : Manifests[d] \subseteq holds[head.root.repository]
                        /\ <<head.root.repository, p>> \notin Foreign
                        /\ FromFork(n) /\ p \in Reserved =>
                              /\ base.root # NoRoot
                              /\ \A m \in Request : request[m].status = "merged" => m = n
            IN  fair => request[n].check # "red"

\* What is served is closed over its roots and hashes to its names, whatever
\* the default branch has become; yanked rows included.
ServedIsClosed ==
    \A p \in Package : Closed(served[p]) /\ Sound(served[p])
=============================================================================
