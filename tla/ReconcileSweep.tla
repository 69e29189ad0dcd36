--------------------------- MODULE ReconcileSweep ---------------------------
(***************************************************************************)
(* The nightly verify-only sweep (cli/reconcile.py): every committed       *)
(* package against its registry, one action per registry call, while the   *)
(* registries move; the findings that escalate are filed as one issue when *)
(* the whole sweep is through.  The tree is a checkout: it does not change *)
(* under a sweep, and one night's is compared with the next.               *)
(***************************************************************************)
EXTENDS IndexTree

CONSTANTS
    Trees,              \* the checkouts to start from
    FirstServes,        \* [Repo -> [Tag -> Digest \cup {None}]]
    MaxMoves,           \* bound: changes of the registries
    MaxFailures         \* bound: registry or forge calls that raise TransientError

ASSUME SweepAssumption ==
    /\ Trees \subseteq Tree
    /\ FirstServes \in [Repo -> [Tag -> Digest \cup {None}]]
    /\ MaxMoves \in Nat /\ MaxFailures \in Nat

VARIABLES
    tree,
    serves,             \* what each repository's tags resolve to
    holds,              \* the platform manifests each repository holds
    moves, failures,
    sweep,              \* the sweep that runs, if any
    issue,              \* the findings in the body of the tracking issue
    steady,             \* history: what has been wrong since this sweep began
    lacking,            \* history: the manifests each repository has lacked since
    ever                \* history: what was wrong at some moment since

registries == <<serves, holds, moves>>
history == <<steady, lacking, ever>>
vars == <<tree, registries, failures, sweep, issue, history>>

Calls == {<<"tag", t>> : t \in Tag}
         \cup {<<"scope", t, m>> : t \in Tag, m \in Manifest} \cup {<<"owner">>}

Kinds == {"pinned-tag-mutation", "tag-unrecordable", "tag-missing-upstream",
          "cas-object-missing", "cas-object-hash-mismatch", "digest-not-in-scope"}
DescKinds == {"desc-blob-missing", "desc-blob-hash-mismatch"}

Finding == {<<kind, p, t>> : kind \in Kinds, p \in Package, t \in Tag}
           \cup {<<kind, p, d>> : kind \in DescKinds, p \in Package, d \in Digest}
           \cup {<<kind, p>> : kind \in {"root-malformed", "ownership-mismatch"}, p \in Package}

Job == [phase    : {"idle", "package", "observe", "claim", "owner", "scope"},
        todo     : SUBSET Package,
        package  : Package \cup {None},
        calls    : SUBSET Calls,        \* registry calls left in this phase
        findings : SUBSET Finding]

Idle == [phase |-> "idle", todo |-> {}, package |-> None,
         calls |-> {}, findings |-> {}]

TypeOK ==
    /\ tree \in Trees
    /\ serves \in [Repo -> [Tag -> Digest \cup {None}]]
    /\ holds \in [Repo -> SUBSET Manifest]
    /\ moves \in 0 .. MaxMoves /\ failures \in 0 .. MaxFailures
    /\ sweep \in Job
    /\ sweep.phase \in {"idle", "package"} <=> sweep.calls = {}
    /\ issue \subseteq Finding
    /\ steady \subseteq Finding /\ ever \subseteq Finding
    /\ lacking \in [Repo -> SUBSET Manifest]

-----------------------------------------------------------------------------
(* What is wrong with a package, as the documentation of the sweep has it. *)

RootOf(p) == tree[p].root
Content(p, t) == RootOf(p).tags[t].content
Answer(p, t) == serves[RootOf(p).repository][t]
Yanked(p, t) == RootOf(p).tags[t].yanked

FaultName(fault, family) ==
    CASE family = "tag" /\ fault = "missing"        -> "cas-object-missing"
      [] family = "tag" /\ fault = "hash-mismatch"  -> "cas-object-hash-mismatch"
      [] family = "desc" /\ fault = "missing"       -> "desc-blob-missing"
      [] family = "desc" /\ fault = "hash-mismatch" -> "desc-blob-hash-mismatch"

\* Bytes the index stores and answers for, whatever a tag did upstream.
StoredFaults(p) ==
    {<<FaultName(BlobFault(tree[p], Content(p, t)), "tag"), p, t>> :
        t \in {u \in Rows(RootOf(p)) : BlobFault(tree[p], Content(p, u)) # "none"}}
    \cup {<<FaultName(BlobFault(tree[p], d), "desc"), p, d>> :
        d \in {e \in RootOf(p).desc : BlobFault(tree[p], e) # "none"}}

MutatedPins(p) ==
    {<<"pinned-tag-mutation", p, t>> :
        t \in {u \in Rows(RootOf(p)) \cap Pinned :
                 Observe(Answer(p, u)) = "observed" /\ Answer(p, u) # Content(p, u)}}

UnrecordableTags(p) ==
    {<<"tag-unrecordable", p, t>> :
        t \in {u \in Rows(RootOf(p)) : Observe(Answer(p, u)) = "refused" /\ ~Yanked(p, u)}}

VanishedTags(p) ==
    {<<"tag-missing-upstream", p, t>> :
        t \in {u \in Rows(RootOf(p)) \ Graced(RootOf(p)) :
                 Observe(Answer(p, u)) = "missing" /\ BlobFault(tree[p], Content(p, u)) = "none"}}

\* The rows whose object names platform manifests, or should.
InScope(p) ==
    {t \in Rows(RootOf(p)) \ Graced(RootOf(p)) : tree[p].objects[Content(p, t)] # "absent"}

\* Those whose bytes list the manifests their digest stands for.
Lists(p) == {t \in InScope(p) : tree[p].objects[Content(p, t)] = "sound"
                                /\ Content(p, t) \in ImageIndex}

OutOfScope(p) ==
    {<<"digest-not-in-scope", p, t>> :
        t \in {u \in InScope(p) :
                 u \in Lists(p) => ~ Manifests[Content(p, u)] \subseteq holds[RootOf(p).repository]}}

Wrong(p) ==
    IF RootOf(p) = NoRoot THEN {}
    ELSE IF RootOf(p) = Malformed THEN {<<"root-malformed", p>>}
    ELSE StoredFaults(p) \cup MutatedPins(p) \cup UnrecordableTags(p) \cup VanishedTags(p)
         \cup OutOfScope(p)
         \cup {<<"ownership-mismatch", p>> : r \in {s \in {RootOf(p).repository} : <<s, p>> \in Foreign}}

AllWrong == UNION {Wrong(p) : p \in Package}

Init ==
    /\ tree \in Trees
    /\ serves = FirstServes
    /\ holds = [r \in Repo |-> Manifest]
    /\ moves = 0 /\ failures = 0
    /\ sweep = Idle
    /\ issue = {}
    /\ steady = {} /\ ever = {}
    /\ lacking = [r \in Repo |-> {}]

-----------------------------------------------------------------------------
(* reconcile.run.                                                          *)

SweepOnly == UNCHANGED <<tree, registries, failures, issue, history>>

\* discover_package_ids.
StartSweep ==
    /\ sweep.phase = "idle"
    /\ sweep' = [Idle EXCEPT !.phase = "package",
                             !.todo = {p \in Package : RootOf(p) # NoRoot}]
    /\ steady' = AllWrong /\ ever' = AllWrong
    /\ lacking' = [r \in Repo |-> Manifest \ holds[r]]
    /\ UNCHANGED <<tree, registries, failures, issue>>

TagCalls(p) == {<<"tag", t>> : t \in Rows(RootOf(p))}

\* _verify_one, up to the first registry call: a root that does not parse is a
\* finding, and the desc blobs need no registry.
AtPackage(p) ==
    LET at == [sweep EXCEPT !.todo = @ \ {p}, !.package = p]
        descFaults == {f \in StoredFaults(p) : f[1] \in DescKinds}
    IN  /\ sweep.phase = "package" /\ p \in sweep.todo
        /\ RootOf(p) # Malformed => RootOf(p).repository \in Allowed
        /\ sweep' =
              IF RootOf(p) = Malformed
              THEN [at EXCEPT !.findings = @ \cup {<<"root-malformed", p>>}]
              ELSE IF TagCalls(p) = {}
              THEN [at EXCEPT !.phase = "owner", !.calls = {<<"owner">>},
                              !.findings = @ \cup descFaults]
              ELSE [at EXCEPT !.phase = "observe", !.calls = TagCalls(p),
                              !.findings = @ \cup descFaults]
        /\ SweepOnly

\* check_repository_allowlisted raises, and nothing catches it.
RefuseRepository(p) ==
    /\ sweep.phase = "package" /\ p \in sweep.todo
    /\ RootOf(p) # Malformed /\ RootOf(p).repository \notin Allowed
    /\ sweep' = Idle
    /\ SweepOnly

\* The first observe_one_tag of a row: pinned mutations and refusals.
ObserveTag(t) ==
    LET p == sweep.package
        left == sweep.calls \ {<<"tag", t>>}
    IN  /\ sweep.phase = "observe" /\ <<"tag", t>> \in sweep.calls
        /\ sweep' = [sweep EXCEPT
              !.findings = @ \cup {f \in MutatedPins(p) \cup UnrecordableTags(p) : f[3] = t},
              !.phase = IF left = {} THEN "claim" ELSE "observe",
              !.calls = IF left = {} THEN TagCalls(p) ELSE left]
        /\ SweepOnly

\* Mutant: the registry is asked before the stored bytes are looked at.
VerifyTagClaimRegistryFirst(t) ==
    LET p == sweep.package
        left == sweep.calls \ {<<"tag", t>>}
        gone == {<<"tag-missing-upstream", p, t>> : u \in {t} \ Graced(RootOf(p))}
        found == IF Observe(Answer(p, t)) = "missing" THEN gone
                 ELSE IF Answer(p, t) # Content(p, t) THEN {}
                 ELSE {f \in StoredFaults(p) : f[3] = t}
    IN  /\ sweep.phase = "claim" /\ <<"tag", t>> \in sweep.calls
        /\ sweep' = [sweep EXCEPT
              !.findings = @ \cup found,
              !.phase = IF left = {} THEN "owner" ELSE "claim",
              !.calls = IF left = {} THEN {<<"owner">>} ELSE left]
        /\ SweepOnly

\* Mutant: no grace.
VerifyTagClaimWithoutGrace(t) ==
    LET p == sweep.package
        left == sweep.calls \ {<<"tag", t>>}
        found == {f \in StoredFaults(p) : f[3] = t}
                 \cup {<<"tag-missing-upstream", p, t>> :
                          u \in {u \in {t} : Observe(Answer(p, u)) = "missing"}}
    IN  /\ sweep.phase = "claim" /\ <<"tag", t>> \in sweep.calls
        /\ sweep' = [sweep EXCEPT
              !.findings = @ \cup found,
              !.phase = IF left = {} THEN "owner" ELSE "claim",
              !.calls = IF left = {} THEN {<<"owner">>} ELSE left]
        /\ SweepOnly

\* _verify_tag_claim: the stored bytes, and where they are right the registry,
\* asked again.  A digest that differs is not escalated.
VerifyTagClaim(t) ==
    LET p == sweep.package
        left == sweep.calls \ {<<"tag", t>>}
    IN  /\ sweep.phase = "claim" /\ <<"tag", t>> \in sweep.calls
        /\ sweep' = [sweep EXCEPT
              !.findings = @ \cup {f \in StoredFaults(p) \cup VanishedTags(p) :
                                      f[1] \in Kinds /\ f[3] = t},
              !.phase = IF left = {} THEN "owner" ELSE "claim",
              !.calls = IF left = {} THEN {<<"owner">>} ELSE left]
        /\ SweepOnly

ScopeCalls(p) ==
    UNION {{<<"scope", t, m>> : m \in Manifests[Content(p, t)]} : t \in Lists(p)}

ToScope(job, calls) ==
    [job EXCEPT !.phase = IF calls = {} THEN "package" ELSE "scope", !.calls = calls]

\* _registry_findings: ownership, and the objects that are no image index.
\* Damaged bytes may be one or not.
CheckOwnership ==
    LET p == sweep.package
        unlike == {t \in InScope(p) \ Lists(p) : tree[p].objects[Content(p, t)] = "sound"}
        damaged == {t \in InScope(p) : tree[p].objects[Content(p, t)] = "damaged"}
    IN  /\ sweep.phase = "owner"
        /\ \E odd \in SUBSET damaged :
              sweep' = ToScope([sweep EXCEPT !.findings =
                  @ \cup {f \in Wrong(p) : f[1] = "ownership-mismatch"}
                    \cup {<<"digest-not-in-scope", p, t>> : t \in unlike \cup odd}],
                  ScopeCalls(p))
        /\ SweepOnly

\* The calls a tag's failed check, or a manifest checked once, leave unmade.
Unmade(calls, t, m, held) ==
    {c \in calls : c[3] = m \/ (~held /\ c[2] = t)}

\* check_digest_in_scope of one platform manifest of a row.  The code goes row
\* by row; the model lets the calls come in any order.
CheckDigestInScope(t, m) ==
    LET p == sweep.package
        held == m \in holds[RootOf(p).repository]
    IN  /\ sweep.phase = "scope" /\ <<"scope", t, m>> \in sweep.calls
        /\ sweep' = ToScope([sweep EXCEPT
              !.findings = @ \cup {f \in OutOfScope(p) : ~held /\ f[3] = t}],
              sweep.calls \ Unmade(sweep.calls, t, m, held))
        /\ SweepOnly

\* Mutant: an issue that is open is left as it is.
FileIssueOnce ==
    /\ sweep.phase = "package" /\ sweep.todo = {} /\ sweep.findings # {}
    /\ issue' = IF issue = {} THEN sweep.findings ELSE issue
    /\ sweep' = Idle
    /\ UNCHANGED <<tree, registries, failures, history>>

\* One issue, its body overwritten.
FileIssue ==
    /\ sweep.phase = "package" /\ sweep.todo = {} /\ sweep.findings # {}
    /\ issue' = sweep.findings
    /\ sweep' = Idle
    /\ UNCHANGED <<tree, registries, failures, history>>

EndClean ==
    /\ sweep.phase = "package" /\ sweep.todo = {} /\ sweep.findings = {}
    /\ sweep' = Idle
    /\ SweepOnly

\* TransientError leaves run, and the findings so far with it.
CallFails ==
    /\ sweep.phase \notin {"idle", "package"} \/ (sweep.todo = {} /\ sweep.findings # {})
    /\ failures < MaxFailures
    /\ failures' = failures + 1
    /\ sweep' = Idle
    /\ UNCHANGED <<tree, registries, issue, history>>

\* What nothing on the way catches leaves run as well, every night as long as it
\* lasts: of the ownership probe a denial, a HEAD without a digest or bytes of
\* another digest; of the other calls those bytes, or a status nobody looks at.
RegistryRaises ==
    /\ sweep.phase \in {"observe", "claim", "owner", "scope"}
    /\ sweep' = Idle
    /\ SweepOnly

-----------------------------------------------------------------------------
(* The registries.                                                         *)

Watch ==
    /\ steady' = steady \cap AllWrong'
    /\ ever' = ever \cup AllWrong'
    /\ lacking' = [r \in Repo |-> lacking[r] \ holds'[r]]

TagMoves(r, t) ==
    /\ moves < MaxMoves
    /\ \E d \in (Digest \cup {None}) \ {serves[r][t]} :
          /\ serves' = [serves EXCEPT ![r][t] = d]
          /\ holds' = [holds EXCEPT ![r] = @ \cup IF d \in ImageIndex THEN Manifests[d] ELSE {}]
    /\ moves' = moves + 1
    /\ UNCHANGED <<tree, failures, sweep, issue>>
    /\ Watch

ManifestPruned(r) ==
    /\ moves < MaxMoves
    /\ \E m \in holds[r] : holds' = [holds EXCEPT ![r] = @ \ {m}]
    /\ moves' = moves + 1
    /\ UNCHANGED <<tree, serves, failures, sweep, issue>>
    /\ Watch

-----------------------------------------------------------------------------
SweepNext ==
    \/ StartSweep
    \/ \E p \in Package : AtPackage(p) \/ RefuseRepository(p)
    \/ \E t \in Tag : ObserveTag(t) \/ VerifyTagClaim(t)
    \/ CheckOwnership
    \/ \E t \in Tag, m \in Manifest : CheckDigestInScope(t, m)
    \/ FileIssue \/ EndClean

Next ==
    \/ SweepNext
    \/ CallFails \/ RegistryRaises
    \/ \E r \in Repo : ManifestPruned(r) \/ \E t \in Tag : TagMoves(r, t)

Spec == Init /\ [][Next]_vars
\* The sweep is a scheduled job: the next one starts, and one that runs goes on.
FairSpec == Spec /\ WF_vars(SweepNext)

-----------------------------------------------------------------------------
(* Properties.                                                             *)

\* No false alarm: whatever a sweep holds against a package was so at some
\* moment of it, graced rows exempt, though each row is asked for twice and
\* the registries move in between (_escalates).
FindingsAreTrue == sweep.findings \subseteq ever

SweepIsThrough == sweep.phase = "package" /\ sweep.todo = {}

\* No blind spot: what has been wrong all through a sweep is among its findings
\* when it is through, whichever rows moved or vanished meanwhile, and stored
\* bytes whatever a row's disposition.  A manifest a repository lacks is
\* reported under one of the live rows that list it (_registry_findings).
SteadyIsReported ==
    SweepIsThrough =>
        /\ {f \in steady : f[1] # "digest-not-in-scope"} \subseteq sweep.findings
        /\ \A p \in Package : \A t \in Lists(p) :
              \A m \in Manifests[Content(p, t)] \cap lacking[RootOf(p).repository] :
                  \E u \in Lists(p) :
                      /\ m \in Manifests[Content(p, u)]
                      /\ <<"digest-not-in-scope", p, u>> \in sweep.findings

NoneRefused == \A p \in Package : IsRoot(RootOf(p)) => RootOf(p).repository \in Allowed

\* No package is left over which every sweep ends.
NoneRaises == NoneRefused /\ <>[][~RegistryRaises]_vars

\* Where every repository is on an allowed host and no package's calls go on
\* raising, once the registries hold still the issue comes to name what is wrong
\* and goes on naming it, whatever it named before; the nights that were lost are
\* made up for by the next.
WrongIsFiled ==
    NoneRaises /\ <>[][UNCHANGED registries]_vars =>
        <>[]({f \in AllWrong : f[1] # "digest-not-in-scope"} \subseteq issue)
=============================================================================
