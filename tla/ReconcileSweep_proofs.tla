------------------------ MODULE ReconcileSweep_proofs ------------------------
(***************************************************************************)
(* Proofs about the nightly sweep, for any packages, checkouts, registries *)
(* and moves of them, and any failed calls.                                *)
(***************************************************************************)
EXTENDS ReconcileSweep, TLAPS

CasKinds == {"cas-object-missing", "cas-object-hash-mismatch"}
InPackage == sweep.phase \in {"observe", "claim", "owner", "scope"}

-----------------------------------------------------------------------------
(* The inductive invariant.                                                *)

\* What the sweep is at, it has reason to be at.
AtRoot ==
    /\ sweep.phase = "idle" => sweep.todo = {} /\ sweep.findings = {}
    /\ \A p \in sweep.todo : RootOf(p) # NoRoot
    /\ InPackage => sweep.package \in Package /\ IsRoot(RootOf(sweep.package))

\* Only calls the phase makes are left.
CallsOfPhase ==
    /\ sweep.phase \in {"observe", "claim"} => sweep.calls \subseteq TagCalls(sweep.package)
    /\ sweep.phase = "scope" => sweep.calls \subseteq ScopeCalls(sweep.package)

\* The histories, against the present.
Histories ==
    /\ sweep.phase # "idle" => steady \subseteq AllWrong /\ AllWrong \subseteq ever
    /\ \A r \in Repo : lacking[r] \cap holds[r] = {}

\* A call that is still to be made in this package will find f.
Awaited(f) ==
    \/ sweep.phase = "observe" /\ f[1] \in CasKinds \cup {"tag-missing-upstream"}
    \/ sweep.phase = "observe" /\ f[1] \in {"pinned-tag-mutation", "tag-unrecordable"}
       /\ <<"tag", f[3]>> \in sweep.calls
    \/ sweep.phase = "claim" /\ f[1] \in CasKinds \cup {"tag-missing-upstream"}
       /\ <<"tag", f[3]>> \in sweep.calls
    \/ sweep.phase \in {"observe", "claim", "owner"} /\ f[1] = "ownership-mismatch"

\* What has been wrong so far is found, or is ahead.
FactsSeen ==
    sweep.phase # "idle" => \A f \in steady :
        \/ f[1] = "digest-not-in-scope"
        \/ f \in sweep.findings
        \/ f[2] \in sweep.todo
        \/ f[2] = sweep.package /\ Awaited(f)

Reported(p, m) ==
    \E u \in Lists(p) : m \in Manifests[Content(p, u)]
                        /\ <<"digest-not-in-scope", p, u>> \in sweep.findings

\* The same of a manifest that has been lacking so far.
ManifestsSeen ==
    sweep.phase # "idle" => \A p \in Package : \A t \in Lists(p) :
        \A m \in Manifests[Content(p, t)] \cap lacking[RootOf(p).repository] :
            \/ Reported(p, m)
            \/ p \in sweep.todo
            \/ p = sweep.package /\ sweep.phase \in {"observe", "claim", "owner"}
            \/ p = sweep.package /\ sweep.phase = "scope" /\ <<"scope", t, m>> \in sweep.calls

SweepInv ==
    TypeOK /\ AtRoot /\ CallsOfPhase /\ Histories /\ FindingsAreTrue /\ FactsSeen /\ ManifestsSeen

-----------------------------------------------------------------------------
(* The shape of what can be wrong.                                         *)

LEMMA RootTypes ==
    ASSUME tree \in Trees, NEW p \in Package
    PROVE  /\ RootOf(p) \in Root \cup {NoRoot, Malformed}
           /\ tree[p].objects \in [Digest -> {"absent", "sound", "damaged"}]
<1>1. tree \in Tree
  BY SweepAssumption
<1>2. tree[p] \in Entry
  BY <1>1 DEF Tree
<1>3. QED BY <1>2 DEF Entry, RootOf

LEMMA NoTwoRoots == Malformed # NoRoot
<1>1. Malformed.repository # NoRoot.repository
  BY DEF Malformed, NoRoot
<1>2. QED BY <1>1

\* The rows of a root are typed, and only a root that parses has any.
LEMMA RowTypes ==
    ASSUME tree \in Trees, NEW p \in Package, NEW t \in Rows(RootOf(p))
    PROVE  t \in Tag /\ Content(p, t) \in Digest /\ IsRoot(RootOf(p))
<1>1. t \in Tag /\ RootOf(p).tags[t] # NoRow
  BY DEF Rows
<1>2. RootOf(p) # NoRoot /\ RootOf(p) # Malformed
  BY <1>1 DEF NoRoot, Malformed
<1>3. RootOf(p) \in Root
  BY <1>2, RootTypes
<1>4. RootOf(p).tags[t] \in Row
  BY <1>1, <1>3 DEF Root
<1>5. QED BY <1>1, <1>2, <1>4 DEF Content, Row, IsRoot

\* A fault of stored bytes has a name.
LEMMA FaultNames ==
    ASSUME tree \in Trees, NEW p \in Package, NEW d \in Digest,
           BlobFault(tree[p], d) # "none"
    PROVE  /\ FaultName(BlobFault(tree[p], d), "tag") \in CasKinds
           /\ FaultName(BlobFault(tree[p], d), "desc") \in DescKinds
<1>1. tree[p].objects[d] \in {"absent", "sound", "damaged"}
  BY RootTypes
<1>2. BlobFault(tree[p], d) \in {"missing", "hash-mismatch"}
  BY <1>1 DEF BlobFault
<1>3. QED BY <1>2 DEF FaultName, CasKinds, DescKinds

LEMMA StoredShape ==
    ASSUME tree \in Trees, NEW p \in Package, IsRoot(RootOf(p)), NEW f \in StoredFaults(p)
    PROVE  \/ \E k \in CasKinds, t \in Rows(RootOf(p)) : f = <<k, p, t>>
           \/ \E k \in DescKinds, d \in Digest : f = <<k, p, d>>
<1>1. CASE \E t \in Rows(RootOf(p)) :
             BlobFault(tree[p], Content(p, t)) # "none"
             /\ f = <<FaultName(BlobFault(tree[p], Content(p, t)), "tag"), p, t>>
  BY <1>1, RowTypes, FaultNames
<1>2. CASE \E d \in RootOf(p).desc :
             BlobFault(tree[p], d) # "none"
             /\ f = <<FaultName(BlobFault(tree[p], d), "desc"), p, d>>
  <2>1. RootOf(p).desc \subseteq Digest
    BY RootTypes DEF IsRoot, Root
  <2>2. QED BY <1>2, <2>1, FaultNames
<1>3. QED BY <1>1, <1>2 DEF StoredFaults

\* What is wrong with a root, by kind.
LEMMA WrongShape ==
    ASSUME tree \in Trees, NEW p \in Package, NEW f \in Wrong(p)
    PROVE  /\ f \in Finding
           /\ f[2] = p
           /\ RootOf(p) # NoRoot
           /\ f = <<"root-malformed", p>> => RootOf(p) = Malformed
           /\ IsRoot(RootOf(p)) =>
                 \/ f \in StoredFaults(p)
                    /\ f[1] \in CasKinds \cup DescKinds
                    /\ (f[1] \in CasKinds => f[3] \in Rows(RootOf(p)))
                 \/ f \in MutatedPins(p)
                    /\ f[1] = "pinned-tag-mutation" /\ f[3] \in Rows(RootOf(p))
                 \/ f \in UnrecordableTags(p)
                    /\ f[1] = "tag-unrecordable" /\ f[3] \in Rows(RootOf(p))
                 \/ f \in VanishedTags(p)
                    /\ f[1] = "tag-missing-upstream" /\ f[3] \in Rows(RootOf(p))
                 \/ f \in OutOfScope(p) /\ f[1] = "digest-not-in-scope"
                 \/ f = <<"ownership-mismatch", p>>
<1>1. RootOf(p) # NoRoot
  BY DEF Wrong
<1>2. CASE RootOf(p) = Malformed
  BY <1>1, <1>2 DEF Wrong, Finding, IsRoot
<1>3. CASE RootOf(p) # Malformed
  <2> DEFINE R == Rows(RootOf(p))
  <2>1. IsRoot(RootOf(p)) /\ R \subseteq Tag
    BY <1>1, <1>3 DEF IsRoot, Rows
  <2>2. CASE f \in StoredFaults(p)
    <3>1. CASE \E k \in CasKinds, t \in R : f = <<k, p, t>>
      BY <1>1, <2>1, <2>2, <3>1 DEF Finding, Kinds, CasKinds
    <3>2. CASE \E k \in DescKinds, d \in Digest : f = <<k, p, d>>
      BY <1>1, <2>1, <2>2, <3>2 DEF Finding, DescKinds, CasKinds
    <3>3. QED BY <2>1, <2>2, <3>1, <3>2, StoredShape
  <2>3. CASE f \in MutatedPins(p)
    BY <1>1, <2>1, <2>3 DEF MutatedPins, Finding, Kinds
  <2>4. CASE f \in UnrecordableTags(p)
    BY <1>1, <2>1, <2>4 DEF UnrecordableTags, Finding, Kinds
  <2>5. CASE f \in VanishedTags(p)
    BY <1>1, <2>1, <2>5 DEF VanishedTags, Finding, Kinds
  <2>6. CASE f \in OutOfScope(p)
    BY <1>1, <2>1, <2>6 DEF OutOfScope, InScope, Finding, Kinds
  <2>7. CASE f = <<"ownership-mismatch", p>>
    BY <1>1, <2>1, <2>7 DEF Finding
  <2>8. QED BY <1>1, <1>3, <2>2, <2>3, <2>4, <2>5, <2>6, <2>7 DEF Wrong
<1>4. QED BY <1>2, <1>3

\* What is wrong with a package that parses is wrong in the index.
LEMMA WrongIn ==
    ASSUME tree \in Trees, NEW p \in Package
    PROVE  /\ Wrong(p) \subseteq AllWrong
           /\ RootOf(p) = Malformed => <<"root-malformed", p>> \in AllWrong
           /\ IsRoot(RootOf(p)) =>
                 StoredFaults(p) \cup MutatedPins(p) \cup UnrecordableTags(p)
                 \cup VanishedTags(p) \cup OutOfScope(p) \subseteq AllWrong
<1>1. Wrong(p) \subseteq AllWrong
  BY DEF AllWrong
<1>2. RootOf(p) = Malformed => <<"root-malformed", p>> \in Wrong(p)
  BY NoTwoRoots DEF Wrong
<1>3. IsRoot(RootOf(p)) =>
         StoredFaults(p) \cup MutatedPins(p) \cup UnrecordableTags(p)
         \cup VanishedTags(p) \cup OutOfScope(p) \subseteq Wrong(p)
  BY DEF Wrong, IsRoot
<1>4. QED BY <1>1, <1>2, <1>3

\* A fact about a package is wrong with that package.
LEMMA WrongOf ==
    ASSUME tree \in Trees, NEW f \in AllWrong
    PROVE  f \in Finding /\ f[2] \in Package /\ f \in Wrong(f[2])
<1>1. PICK p \in Package : f \in Wrong(p)
  BY DEF AllWrong
<1>2. QED BY <1>1, WrongShape

LEMMA WrongTypes ==
    ASSUME tree \in Trees
    PROVE  AllWrong \subseteq Finding
BY WrongOf

LEMMA CallTypes ==
    ASSUME tree \in Trees, NEW p \in Package
    PROVE  /\ TagCalls(p) \subseteq Calls
           /\ ScopeCalls(p) \subseteq Calls
           /\ \A t \in Rows(RootOf(p)) : <<"tag", t>> \in TagCalls(p)
<1>1. \A t \in Lists(p) : t \in Tag /\ Content(p, t) \in ImageIndex
  BY DEF Lists, InScope, Rows
<1>2. \A d \in ImageIndex : Manifests[d] \subseteq Manifest
  BY TreeAssumption
<1>3. QED BY <1>1, <1>2 DEF TagCalls, ScopeCalls, Calls, Rows

\* The tree does not change, so what is read of it does not.
LEMMA TreeFrame ==
    ASSUME tree' = tree, NEW p
    PROVE  /\ RootOf(p)' = RootOf(p)
           /\ Lists(p)' = Lists(p)
           /\ TagCalls(p)' = TagCalls(p)
           /\ ScopeCalls(p)' = ScopeCalls(p)
           /\ \A t : Content(p, t)' = Content(p, t)
BY DEF RootOf, Lists, InScope, TagCalls, ScopeCalls, Content

LEMMA WrongFrame ==
    ASSUME UNCHANGED <<tree, serves, holds>>
    PROVE  AllWrong' = AllWrong
BY DEF AllWrong, Wrong, StoredFaults, MutatedPins, UnrecordableTags, VanishedTags, OutOfScope,
       InScope, Lists, RootOf, Content, Answer, Yanked

\* What a step of the sweep itself leaves as it is.
LEMMA SweepFrame ==
    ASSUME SweepInv, SweepOnly
    PROVE  /\ tree' = tree /\ AllWrong' = AllWrong /\ tree \in Trees
           /\ steady' = steady /\ ever' = ever /\ lacking' = lacking /\ holds' = holds
           /\ \A r \in Repo : lacking'[r] \cap holds'[r] = {}
           /\ sweep.phase # "idle" => steady' \subseteq AllWrong' /\ AllWrong' \subseteq ever'
BY WrongFrame DEF SweepInv, SweepOnly, registries, history, Histories, TypeOK

LEMMA SweepTypes ==
    ASSUME SweepInv, SweepOnly, sweep' \in Job,
           sweep'.phase \in {"idle", "package"} <=> sweep'.calls = {}
    PROVE  TypeOK'
BY DEF SweepInv, SweepOnly, registries, history, TypeOK

-----------------------------------------------------------------------------
(* Every step keeps the invariant.                                         *)

LEMMA IdleType == Idle \in Job
BY DEF Idle, Job

\* A sweep that is over leaves nothing to say.
LEMMA IdleKeeps ==
    ASSUME SweepInv, sweep' = Idle, UNCHANGED <<tree, registries, history>>,
           issue' \subseteq Finding, failures' \in 0 .. MaxFailures
    PROVE  SweepInv'
<1>1. sweep'.phase = "idle" /\ sweep'.todo = {} /\ sweep'.findings = {} /\ sweep'.calls = {}
  BY DEF Idle
<1>2. TypeOK'
  BY <1>1, IdleType DEF SweepInv, TypeOK, registries, history
<1>3. AtRoot' /\ CallsOfPhase' /\ FactsSeen' /\ ManifestsSeen' /\ FindingsAreTrue'
  BY <1>1 DEF AtRoot, CallsOfPhase, FactsSeen, ManifestsSeen, FindingsAreTrue, InPackage
<1>4. Histories'
  BY <1>1 DEF SweepInv, Histories, registries, history
<1>5. QED BY <1>2, <1>3, <1>4 DEF SweepInv

LEMMA StartSweepKeeps ==
    ASSUME SweepInv, StartSweep
    PROVE  SweepInv'
<1>1. /\ sweep' \in Job /\ sweep'.phase = "package" /\ sweep'.calls = {} /\ sweep'.findings = {}
      /\ sweep'.todo = {p \in Package : RootOf(p) # NoRoot}
  BY IdleType DEF StartSweep, Idle, Job
<1>2. tree \in Trees /\ tree' = tree /\ AllWrong' = AllWrong /\ holds' = holds
  BY WrongFrame DEF SweepInv, TypeOK, StartSweep, registries
<1>3. steady' = AllWrong /\ ever' = AllWrong /\ AllWrong \subseteq Finding
      /\ lacking' = [r \in Repo |-> Manifest \ holds[r]]
  BY <1>2, WrongTypes DEF StartSweep
<1>4. TypeOK'
  BY <1>1, <1>3 DEF SweepInv, TypeOK, StartSweep, registries
<1>5. AtRoot' /\ CallsOfPhase' /\ FindingsAreTrue'
  BY <1>1, <1>2, TreeFrame DEF AtRoot, CallsOfPhase, FindingsAreTrue, InPackage
<1>6. Histories'
  BY <1>2, <1>3 DEF Histories
<1>7. FactsSeen'
  <2> SUFFICES ASSUME NEW f \in steady'
               PROVE  f[2] \in sweep'.todo
    BY DEF FactsSeen
  <2>1. f[2] \in Package /\ RootOf(f[2]) # NoRoot
    BY <1>2, <1>3, WrongOf, WrongShape
  <2>2. QED BY <1>1, <2>1
<1>8. ManifestsSeen'
  <2> SUFFICES ASSUME NEW p \in Package, NEW t \in Lists(p)'
               PROVE  p \in sweep'.todo
    BY DEF ManifestsSeen
  <2>1. t \in Rows(RootOf(p))
    BY <1>2, TreeFrame DEF Lists, InScope
  <2>2. IsRoot(RootOf(p))
    BY <1>2, <2>1, RowTypes
  <2>3. QED BY <1>1, <2>2 DEF IsRoot
<1>9. QED BY <1>4, <1>5, <1>6, <1>7, <1>8 DEF SweepInv

\* The package the sweep turns to: what was ahead of it is ahead no more.
LEMMA AtPackageKeeps ==
    ASSUME SweepInv, NEW p \in Package, AtPackage(p)
    PROVE  SweepInv'
<1> DEFINE faults == {f \in StoredFaults(p) : f[1] \in DescKinds}
<1>1. /\ SweepOnly /\ tree \in Trees /\ sweep \in Job /\ p \in sweep.todo
      /\ sweep.phase = "package" /\ sweep.calls = {} /\ RootOf(p) # NoRoot
  BY DEF AtPackage, SweepInv, TypeOK, AtRoot
<1>2. /\ tree' = tree /\ steady' = steady /\ lacking' = lacking /\ ever' = ever
      /\ steady \subseteq AllWrong /\ AllWrong \subseteq ever /\ sweep.findings \subseteq ever
      /\ Histories'
  BY <1>1, SweepFrame DEF SweepInv, Histories, FindingsAreTrue
<1>3. CASE RootOf(p) = Malformed
  <2>1. /\ sweep'.phase = "package" /\ sweep'.calls = {} /\ sweep'.todo = sweep.todo \ {p}
        /\ sweep'.findings = sweep.findings \cup {<<"root-malformed", p>>} /\ sweep' \in Job
    <3>1. {<<"root-malformed", p>>} \subseteq Finding
      BY <1>1, <1>3, WrongIn, WrongTypes
    <3>2. sweep' = [sweep EXCEPT !.todo = @ \ {p}, !.package = p,
                                 !.findings = @ \cup {<<"root-malformed", p>>}]
      BY <1>1, <1>3 DEF AtPackage, Job
    <3>3. QED BY <1>1, <3>1, <3>2 DEF Job
  <2>2. TypeOK'
    BY <1>1, <2>1, SweepTypes
  <2>3. AtRoot' /\ CallsOfPhase'
    BY <1>2, <2>1, TreeFrame DEF SweepInv, AtRoot, CallsOfPhase, InPackage
  <2>4. FindingsAreTrue'
    BY <1>1, <1>2, <1>3, <2>1, WrongIn DEF FindingsAreTrue
  <2>5. FactsSeen'
    <3> SUFFICES ASSUME NEW f \in steady
                 PROVE  f[1] = "digest-not-in-scope" \/ f \in sweep'.findings
                        \/ f[2] \in sweep'.todo
      BY <1>2 DEF FactsSeen
    <3>1. f[1] = "digest-not-in-scope" \/ f \in sweep.findings \/ f[2] \in sweep.todo
      BY <1>1 DEF SweepInv, FactsSeen, Awaited
    <3>2. f[2] = p => f = <<"root-malformed", p>>
      BY <1>1, <1>2, <1>3, WrongOf, NoTwoRoots DEF Wrong
    <3>3. QED BY <2>1, <3>1, <3>2
  <2>6. ManifestsSeen'
    <3> SUFFICES ASSUME NEW q \in Package, NEW t \in Lists(q),
                        NEW m \in Manifests[Content(q, t)] \cap lacking[RootOf(q).repository]
                 PROVE  Reported(q, m)' \/ q \in sweep'.todo
      BY <1>2, TreeFrame DEF ManifestsSeen
    <3>1. Reported(q, m) \/ q \in sweep.todo
      BY <1>1 DEF SweepInv, ManifestsSeen
    <3>2. q # p
      BY <1>1, <1>3, RowTypes DEF Lists, InScope, IsRoot
    <3>3. Reported(q, m) => Reported(q, m)'
      BY <1>2, <2>1, TreeFrame DEF Reported
    <3>4. QED BY <2>1, <3>1, <3>2, <3>3
  <2>7. QED BY <1>2, <2>2, <2>3, <2>4, <2>5, <2>6 DEF SweepInv
<1>4. CASE RootOf(p) # Malformed
  <2>1. IsRoot(RootOf(p))
    BY <1>1, <1>4 DEF IsRoot
  <2>2. faults \subseteq AllWrong /\ faults \subseteq Finding
    BY <1>1, <2>1, WrongIn, WrongTypes
  <2>3. /\ sweep'.todo = sweep.todo \ {p} /\ sweep'.package = p
        /\ sweep'.findings = sweep.findings \cup faults
        /\ \/ TagCalls(p) = {} /\ sweep'.phase = "owner" /\ sweep'.calls = {<<"owner">>}
           \/ TagCalls(p) # {} /\ sweep'.phase = "observe" /\ sweep'.calls = TagCalls(p)
    BY <1>1, <1>4 DEF AtPackage, Job
  <2>4. sweep' \in Job
    <3>1. TagCalls(p) \subseteq Calls /\ {<<"owner">>} \subseteq Calls
      BY <1>1, CallTypes DEF Calls
    <3>2. \/ sweep' = [sweep EXCEPT !.todo = @ \ {p}, !.package = p, !.phase = "owner",
                           !.calls = {<<"owner">>}, !.findings = @ \cup faults]
          \/ sweep' = [sweep EXCEPT !.todo = @ \ {p}, !.package = p, !.phase = "observe",
                           !.calls = TagCalls(p), !.findings = @ \cup faults]
      BY <1>1, <1>4 DEF AtPackage, Job
    <3>3. \A c \in SUBSET Calls : \A ph \in {"owner", "observe"} :
              [sweep EXCEPT !.todo = @ \ {p}, !.package = p, !.phase = ph,
                            !.calls = c, !.findings = @ \cup faults] \in Job
      <4> HIDE DEF faults
      <4>1. QED BY <1>1, <2>2 DEF Job
    <3>4. QED BY <3>1, <3>2, <3>3
  <2>5. TypeOK'
    BY <1>1, <2>3, <2>4, SweepTypes
  <2>6. AtRoot' /\ CallsOfPhase'
    BY <1>2, <2>1, <2>3, TreeFrame DEF SweepInv, AtRoot, CallsOfPhase, InPackage
  <2>7. FindingsAreTrue'
    BY <1>2, <2>2, <2>3 DEF FindingsAreTrue
  <2>8. FactsSeen'
    <3> SUFFICES ASSUME NEW f \in steady, f[1] # "digest-not-in-scope"
                 PROVE  \/ f \in sweep'.findings \/ f[2] \in sweep'.todo
                        \/ f[2] = sweep'.package /\ Awaited(f)'
      BY <1>2 DEF FactsSeen
    <3>1. f \in sweep.findings \/ f[2] \in sweep.todo
      BY <1>1 DEF SweepInv, FactsSeen, Awaited
    <3>2. CASE f[2] = p
      <4>1. f \in Wrong(p)
        BY <1>1, <1>2, <3>2, WrongOf
      <4>2. \/ f \in StoredFaults(p) /\ f[1] \in DescKinds
            \/ f[1] \in CasKinds \cup {"pinned-tag-mutation", "tag-unrecordable",
                                       "tag-missing-upstream"} /\ f[3] \in Rows(RootOf(p))
            \/ f[1] = "ownership-mismatch"
        <5>1. f = <<"ownership-mismatch", p>> => f[1] = "ownership-mismatch"
          OBVIOUS
        <5>2. \/ f \in StoredFaults(p)
                 /\ f[1] \in CasKinds \cup DescKinds
                 /\ (f[1] \in CasKinds => f[3] \in Rows(RootOf(p)))
              \/ f[1] = "pinned-tag-mutation" /\ f[3] \in Rows(RootOf(p))
              \/ f[1] = "tag-unrecordable" /\ f[3] \in Rows(RootOf(p))
              \/ f[1] = "tag-missing-upstream" /\ f[3] \in Rows(RootOf(p))
              \/ f[1] = "digest-not-in-scope"
              \/ f = <<"ownership-mismatch", p>>
          BY <1>1, <2>1, <4>1, WrongShape
        <5>3. QED BY <5>1, <5>2
      <4>3. \A t \in Rows(RootOf(p)) : sweep'.phase = "observe" /\ <<"tag", t>> \in sweep'.calls
        BY <1>1, <2>3, CallTypes
      <4>4. QED BY <2>3, <3>2, <4>2, <4>3 DEF Awaited
    <3>3. QED BY <2>3, <3>1, <3>2
  <2>9. ManifestsSeen'
    <3> SUFFICES ASSUME NEW q \in Package, NEW t \in Lists(q),
                        NEW m \in Manifests[Content(q, t)] \cap lacking[RootOf(q).repository]
                 PROVE  Reported(q, m)' \/ q \in sweep'.todo \/ q = sweep'.package
      BY <1>2, <2>3, TreeFrame DEF ManifestsSeen
    <3>1. Reported(q, m) \/ q \in sweep.todo
      BY <1>1 DEF SweepInv, ManifestsSeen
    <3>2. Reported(q, m) => Reported(q, m)'
      BY <1>2, <2>3, TreeFrame DEF Reported
    <3>3. QED BY <2>3, <3>1, <3>2
  <2>10. QED BY <1>2, <2>5, <2>6, <2>7, <2>8, <2>9 DEF SweepInv
<1>5. QED BY <1>3, <1>4

\* Within a package a step only adds findings: what it found, and what it may
\* no longer await, is all there is to look at.
LEMMA WithinPackage ==
    ASSUME SweepInv, SweepOnly, InPackage, sweep' \in Job,
           sweep'.phase \in {"idle", "package"} <=> sweep'.calls = {},
           sweep'.phase # "idle",
           sweep'.todo = sweep.todo, sweep'.package = sweep.package,
           sweep.findings \subseteq sweep'.findings, sweep'.findings \subseteq ever,
           CallsOfPhase',
           \A f \in steady : f[2] = sweep.package /\ Awaited(f) =>
               f \in sweep'.findings \/ Awaited(f)',
           \A t \in Lists(sweep.package) :
             \A m \in Manifests[Content(sweep.package, t)]
                        \cap lacking[RootOf(sweep.package).repository] :
               sweep.phase # "scope" \/ <<"scope", t, m>> \in sweep.calls =>
                  \/ Reported(sweep.package, m)'
                  \/ sweep'.phase \in {"observe", "claim", "owner"}
                  \/ sweep'.phase = "scope" /\ <<"scope", t, m>> \in sweep'.calls
    PROVE  SweepInv'
<1> DEFINE p == sweep.package
<1>1. /\ tree' = tree /\ steady' = steady /\ lacking' = lacking /\ ever' = ever
      /\ sweep.phase # "idle" /\ Histories'
  BY SweepFrame DEF Histories, InPackage
<1>2. TypeOK'
  BY SweepTypes
<1>3. AtRoot'
  BY <1>1, TreeFrame DEF SweepInv, AtRoot, InPackage
<1>4. FindingsAreTrue'
  BY <1>1 DEF FindingsAreTrue
<1>5. FactsSeen'
  BY <1>1 DEF SweepInv, FactsSeen
<1>6. ManifestsSeen'
  <2> SUFFICES ASSUME NEW q \in Package, NEW t \in Lists(q),
                      NEW m \in Manifests[Content(q, t)] \cap lacking[RootOf(q).repository]
               PROVE  \/ Reported(q, m)' \/ q \in sweep'.todo
                      \/ q = p /\ sweep'.phase \in {"observe", "claim", "owner"}
                      \/ q = p /\ sweep'.phase = "scope" /\ <<"scope", t, m>> \in sweep'.calls
    <3>1. \A q \in Package : RootOf(q)' = RootOf(q) /\ Lists(q)' = Lists(q)
                           /\ \A t : Content(q, t)' = Content(q, t)
      BY <1>1, TreeFrame
    <3>2. QED BY <1>1, <3>1 DEF ManifestsSeen
  <2>1. \/ Reported(q, m) \/ q \in sweep.todo
        \/ q = p /\ sweep.phase # "scope"
        \/ q = p /\ <<"scope", t, m>> \in sweep.calls
    BY <1>1 DEF SweepInv, ManifestsSeen
  <2>2. Reported(q, m) => Reported(q, m)'
    BY <1>1, TreeFrame DEF Reported
  <2>3. QED BY <2>1, <2>2
<1>7. QED BY <1>1, <1>2, <1>3, <1>4, <1>5, <1>6 DEF SweepInv

\* What every step within a package may rely on.
LEMMA InPackageFacts ==
    ASSUME SweepInv, InPackage, SweepOnly
    PROVE  /\ tree \in Trees /\ sweep \in Job
           /\ sweep.package \in Package /\ IsRoot(RootOf(sweep.package))
           /\ sweep.findings \subseteq ever /\ AllWrong \subseteq ever
           /\ \A q : TagCalls(q)' = TagCalls(q) /\ ScopeCalls(q)' = ScopeCalls(q)
           /\ \A f \in steady : f[2] = sweep.package => f \in Wrong(sweep.package)
<1>1. tree \in Trees /\ sweep \in Job /\ steady \subseteq AllWrong /\ AllWrong \subseteq ever
      /\ sweep.findings \subseteq ever
      /\ sweep.package \in Package /\ IsRoot(RootOf(sweep.package))
  BY DEF SweepInv, TypeOK, Histories, FindingsAreTrue, AtRoot, InPackage
<1>2. \A q : TagCalls(q)' = TagCalls(q) /\ ScopeCalls(q)' = ScopeCalls(q)
  BY TreeFrame DEF SweepOnly
<1>3. QED BY <1>1, <1>2, WrongOf

LEMMA ObserveTagKeeps ==
    ASSUME SweepInv, NEW t \in Tag, ObserveTag(t)
    PROVE  SweepInv'
<1> DEFINE p == sweep.package
           left == sweep.calls \ {<<"tag", t>>}
           found == {f \in MutatedPins(p) \cup UnrecordableTags(p) : f[3] = t}
           calls == IF left = {} THEN TagCalls(p) ELSE left
<1>1. SweepOnly /\ sweep.phase = "observe" /\ <<"tag", t>> \in sweep.calls /\ InPackage
  BY DEF ObserveTag, InPackage
<1>2. /\ tree \in Trees /\ sweep \in Job /\ p \in Package /\ IsRoot(RootOf(p))
      /\ sweep.calls \subseteq TagCalls(p) /\ sweep.findings \subseteq ever
  BY <1>1, InPackageFacts DEF SweepInv, CallsOfPhase
<1>3. found \subseteq AllWrong /\ found \subseteq Finding /\ found \subseteq ever
  BY <1>1, <1>2, WrongIn, WrongTypes, InPackageFacts
<1>4. calls # {} /\ calls \subseteq TagCalls(p) /\ calls \subseteq Calls
  BY <1>1, <1>2, CallTypes
<1>5. sweep' = [sweep EXCEPT !.findings = @ \cup found,
                             !.phase = IF left = {} THEN "claim" ELSE "observe",
                             !.calls = calls]
  BY DEF ObserveTag
<1>6. /\ sweep' \in Job /\ sweep'.todo = sweep.todo /\ sweep'.package = p
      /\ sweep'.findings = sweep.findings \cup found /\ sweep'.calls = calls
      /\ sweep'.phase = IF left = {} THEN "claim" ELSE "observe"
  <2> HIDE DEF found, calls
  <2>1. QED BY <1>2, <1>3, <1>4, <1>5 DEF Job
<1>7. CallsOfPhase'
  BY <1>1, <1>4, <1>6, InPackageFacts DEF CallsOfPhase
<1>8. ASSUME NEW f \in steady, f[2] = p, Awaited(f)
      PROVE  f \in sweep'.findings \/ Awaited(f)'
  <2>1. f \in Wrong(p)
    BY <1>1, <1>8, InPackageFacts
  <2>2. CASE f[1] \in {"pinned-tag-mutation", "tag-unrecordable"}
    <3>1. f \in MutatedPins(p) \cup UnrecordableTags(p)
      BY <1>2, <2>1, <2>2, WrongShape DEF CasKinds, DescKinds
    <3>2. <<"tag", f[3]>> \in sweep.calls
      BY <1>1, <1>8, <2>2 DEF Awaited, CasKinds
    <3>3. CASE f[3] = t
      BY <1>6, <3>1, <3>3
    <3>4. CASE f[3] # t
      <4>1. <<"tag", f[3]>> \in left
        BY <3>2, <3>4
      <4>2. QED BY <1>6, <2>2, <4>1 DEF Awaited
    <3>5. QED BY <3>3, <3>4
  <2>3. CASE f[1] \in CasKinds \cup {"tag-missing-upstream"}
    <3>1. f[3] \in Rows(RootOf(p))
      BY <1>2, <2>1, <2>3, WrongShape DEF CasKinds, DescKinds
    <3>2. <<"tag", f[3]>> \in TagCalls(p)
      BY <1>2, <3>1, CallTypes
    <3>3. QED BY <1>6, <2>3, <3>2 DEF Awaited
  <2>4. CASE f[1] = "ownership-mismatch"
    BY <1>6, <2>4 DEF Awaited
  <2>5. QED BY <1>1, <1>8, <2>2, <2>3, <2>4 DEF Awaited
<1>9. QED BY <1>1, <1>2, <1>3, <1>4, <1>6, <1>7, <1>8, WithinPackage

LEMMA VerifyTagClaimKeeps ==
    ASSUME SweepInv, NEW t \in Tag, VerifyTagClaim(t)
    PROVE  SweepInv'
<1> DEFINE p == sweep.package
           left == sweep.calls \ {<<"tag", t>>}
           found == {f \in StoredFaults(p) \cup VanishedTags(p) : f[1] \in Kinds /\ f[3] = t}
           calls == IF left = {} THEN {<<"owner">>} ELSE left
<1>1. SweepOnly /\ sweep.phase = "claim" /\ <<"tag", t>> \in sweep.calls /\ InPackage
  BY DEF VerifyTagClaim, InPackage
<1>2. /\ tree \in Trees /\ sweep \in Job /\ p \in Package /\ IsRoot(RootOf(p))
      /\ sweep.calls \subseteq TagCalls(p) /\ sweep.findings \subseteq ever
  BY <1>1, InPackageFacts DEF SweepInv, CallsOfPhase
<1>3. found \subseteq AllWrong /\ found \subseteq Finding /\ found \subseteq ever
  BY <1>1, <1>2, WrongIn, WrongTypes, InPackageFacts
<1>4. calls # {} /\ calls \subseteq Calls /\ (left # {} => calls \subseteq TagCalls(p))
  <2>1. {<<"owner">>} \subseteq Calls
    BY DEF Calls
  <2>2. sweep.calls \subseteq Calls
    BY <1>2 DEF Job
  <2>3. QED BY <1>2, <2>1, <2>2
<1>5. sweep' = [sweep EXCEPT !.findings = @ \cup found,
                             !.phase = IF left = {} THEN "owner" ELSE "claim",
                             !.calls = calls]
  BY DEF VerifyTagClaim
<1>6. /\ sweep' \in Job /\ sweep'.todo = sweep.todo /\ sweep'.package = p
      /\ sweep'.findings = sweep.findings \cup found /\ sweep'.calls = calls
      /\ sweep'.phase = IF left = {} THEN "owner" ELSE "claim"
  <2> HIDE DEF found, calls
  <2>1. QED BY <1>2, <1>3, <1>4, <1>5 DEF Job
<1>7. CallsOfPhase'
  BY <1>1, <1>4, <1>6, InPackageFacts DEF CallsOfPhase
<1>8. ASSUME NEW f \in steady, f[2] = p, Awaited(f)
      PROVE  f \in sweep'.findings \/ Awaited(f)'
  <2>1. f \in Wrong(p)
    BY <1>1, <1>8, InPackageFacts
  <2>2. CASE f[1] \in CasKinds \cup {"tag-missing-upstream"}
    <3>1. f \in StoredFaults(p) \cup VanishedTags(p) /\ f[1] \in Kinds
      BY <1>2, <2>1, <2>2, WrongShape DEF CasKinds, DescKinds, Kinds
    <3>2. <<"tag", f[3]>> \in sweep.calls
      BY <1>1, <1>8, <2>2 DEF Awaited, CasKinds
    <3>3. CASE f[3] = t
      BY <1>6, <3>1, <3>3
    <3>4. CASE f[3] # t
      <4>1. <<"tag", f[3]>> \in left
        BY <3>2, <3>4
      <4>2. QED BY <1>6, <2>2, <4>1 DEF Awaited
    <3>5. QED BY <3>3, <3>4
  <2>3. CASE f[1] = "ownership-mismatch"
    BY <1>6, <2>3 DEF Awaited
  <2>4. QED BY <1>1, <1>8, <2>2, <2>3 DEF Awaited
<1>9. QED BY <1>1, <1>2, <1>3, <1>4, <1>6, <1>7, <1>8, WithinPackage

LEMMA CheckOwnershipKeeps ==
    ASSUME SweepInv, CheckOwnership
    PROVE  SweepInv'
<1> DEFINE p == sweep.package
           unlike == {t \in InScope(p) \ Lists(p) : tree[p].objects[Content(p, t)] = "sound"}
           damaged == {t \in InScope(p) : tree[p].objects[Content(p, t)] = "damaged"}
           owner == {f \in Wrong(p) : f[1] = "ownership-mismatch"}
           calls == ScopeCalls(p)
<1>1. SweepOnly /\ sweep.phase = "owner" /\ InPackage
  BY DEF CheckOwnership, InPackage
<1>2. /\ tree \in Trees /\ sweep \in Job /\ p \in Package /\ IsRoot(RootOf(p))
      /\ sweep.findings \subseteq ever /\ calls \subseteq Calls
  BY <1>1, InPackageFacts, CallTypes
<1>3. PICK odd \in SUBSET damaged :
        sweep' = ToScope([sweep EXCEPT !.findings =
                    @ \cup (owner \cup {<<"digest-not-in-scope", p, t>> : t \in unlike \cup odd})],
                    calls)
  <2>1. \A F, A, B : (F \cup A) \cup B = F \cup (A \cup B)
    OBVIOUS
  <2>2. PICK odd \in SUBSET damaged :
          sweep' = ToScope([sweep EXCEPT !.findings =
                      @ \cup owner \cup {<<"digest-not-in-scope", p, t>> : t \in unlike \cup odd}],
                      calls)
    BY DEF CheckOwnership
  <2> HIDE DEF owner, unlike, damaged, calls
  <2>3. QED BY <1>2, <2>1, <2>2 DEF Job
<1> DEFINE found == owner \cup {<<"digest-not-in-scope", p, t>> : t \in unlike \cup odd}
<1>4. found \subseteq AllWrong /\ found \subseteq Finding /\ found \subseteq ever
  <2>1. \A t \in unlike \cup odd : t \in InScope(p) /\ t \notin Lists(p)
    BY <1>3 DEF Lists
  <2>2. {<<"digest-not-in-scope", p, t>> : t \in unlike \cup odd} \subseteq OutOfScope(p)
    BY <2>1 DEF OutOfScope
  <2>3. OutOfScope(p) \subseteq AllWrong /\ owner \subseteq AllWrong
    BY <1>2, WrongIn
  <2>4. found \subseteq AllWrong
    BY <2>2, <2>3
  <2>5. QED BY <1>1, <1>2, <2>4, WrongTypes, InPackageFacts
<1>5. /\ sweep' \in Job /\ sweep'.todo = sweep.todo /\ sweep'.package = p
      /\ sweep'.findings = sweep.findings \cup found /\ sweep'.calls = calls
      /\ sweep'.phase = IF calls = {} THEN "package" ELSE "scope"
  <2> HIDE DEF found, calls
  <2>1. sweep' = ToScope([sweep EXCEPT !.findings = @ \cup found], calls)
    BY <1>3 DEF found
  <2>2. QED BY <1>2, <1>4, <2>1 DEF Job, ToScope
<1>6. CallsOfPhase'
  BY <1>1, <1>5, InPackageFacts DEF CallsOfPhase
<1>7. ASSUME NEW f \in steady, f[2] = p, Awaited(f)
      PROVE  f \in sweep'.findings
  <2>1. f \in Wrong(p) /\ f[1] = "ownership-mismatch"
    BY <1>1, <1>7, InPackageFacts DEF Awaited
  <2>2. QED BY <1>5, <2>1
<1>8. ASSUME NEW t \in Lists(p), NEW m \in Manifests[Content(p, t)] \cap lacking[RootOf(p).repository]
      PROVE  sweep'.phase = "scope" /\ <<"scope", t, m>> \in sweep'.calls
  <2>1. <<"scope", t, m>> \in ScopeCalls(p)
    BY DEF ScopeCalls
  <2>2. QED BY <1>5, <2>1
<1>9. QED BY <1>1, <1>2, <1>4, <1>5, <1>6, <1>7, <1>8, WithinPackage

\* A manifest is asked for once; when it is lacking it is reported under the
\* row it was asked for.
LEMMA CheckDigestKeeps ==
    ASSUME SweepInv, NEW t \in Tag, NEW m \in Manifest, CheckDigestInScope(t, m)
    PROVE  SweepInv'
<1> DEFINE p == sweep.package
           repo == RootOf(p).repository
           held == m \in holds[repo]
           found == {f \in OutOfScope(p) : ~held /\ f[3] = t}
           calls == sweep.calls \ Unmade(sweep.calls, t, m, held)
<1>1. SweepOnly /\ sweep.phase = "scope" /\ <<"scope", t, m>> \in sweep.calls /\ InPackage
  BY DEF CheckDigestInScope, InPackage
<1>2. /\ tree \in Trees /\ sweep \in Job /\ p \in Package /\ IsRoot(RootOf(p))
      /\ sweep.findings \subseteq ever /\ sweep.calls \subseteq ScopeCalls(p)
  BY <1>1, InPackageFacts DEF SweepInv, CallsOfPhase
<1>3. found \subseteq AllWrong /\ found \subseteq Finding /\ found \subseteq ever
  BY <1>1, <1>2, WrongIn, WrongTypes, InPackageFacts
<1>4. calls \subseteq sweep.calls /\ calls \in SUBSET Calls
  BY <1>2 DEF Job
<1>5. /\ sweep' \in Job /\ sweep'.todo = sweep.todo /\ sweep'.package = p
      /\ sweep'.findings = sweep.findings \cup found /\ sweep'.calls = calls
      /\ sweep'.phase = IF calls = {} THEN "package" ELSE "scope"
  <2>1. sweep' = ToScope([sweep EXCEPT !.findings = @ \cup found], calls)
    BY DEF CheckDigestInScope
  <2> HIDE DEF found, calls
  <2>2. QED BY <1>2, <1>3, <1>4, <2>1 DEF Job, ToScope
<1>6. CallsOfPhase'
  BY <1>1, <1>2, <1>4, <1>5, InPackageFacts DEF CallsOfPhase
<1>7. t \in Lists(p) /\ m \in Manifests[Content(p, t)]
  BY <1>1, <1>2 DEF ScopeCalls
<1>8. ~held => <<"digest-not-in-scope", p, t>> \in sweep'.findings
  <2>1. t \in InScope(p)
    BY <1>7 DEF Lists
  <2>2. ~held => <<"digest-not-in-scope", p, t>> \in OutOfScope(p)
    BY <1>7, <2>1 DEF OutOfScope
  <2>3. QED BY <1>5, <2>2
<1>9. ASSUME NEW u \in Lists(p), NEW k \in Manifests[Content(p, u)] \cap lacking[repo],
             <<"scope", u, k>> \in sweep.calls
      PROVE  \/ Reported(p, k)'
             \/ sweep'.phase = "scope" /\ <<"scope", u, k>> \in sweep'.calls
  <2>1. repo \in Repo
    BY <1>2, RootTypes DEF IsRoot, Root
  <2>2. k \notin holds[repo]
    BY <1>9, <2>1 DEF SweepInv, Histories
  <2>3. CASE <<"scope", u, k>> \in calls
    BY <1>5, <2>3
  <2>4. CASE <<"scope", u, k>> \notin calls
    <3>1. k = m \/ (~held /\ u = t)
      BY <1>9, <2>4 DEF Unmade
    <3>2. ~held /\ k \in Manifests[Content(p, t)]
      BY <1>7, <1>9, <2>2, <3>1
    <3>3. \A q, r : Lists(q)' = Lists(q) /\ Content(q, r)' = Content(q, r)
      BY <1>1, TreeFrame DEF SweepOnly
    <3>4. Reported(p, k)'
      BY <1>5, <1>7, <1>8, <3>2, <3>3 DEF Reported
    <3>5. QED BY <3>4
  <2>5. QED BY <2>3, <2>4
<1>10. \A f : ~Awaited(f)
  BY <1>1 DEF Awaited
<1>11. QED BY <1>1, <1>2, <1>3, <1>4, <1>5, <1>6, <1>9, <1>10, WithinPackage

LEMMA WrongTypesAlways == tree \in Trees => AllWrong \subseteq Finding
BY WrongTypes

\* A registry that moves makes facts come and go; what a sweep has seen is of
\* those that stayed.
LEMMA MovesKeep ==
    ASSUME SweepInv, UNCHANGED <<tree, failures, sweep, issue>>, Watch,
           serves' \in [Repo -> [Tag -> Digest \cup {None}]],
           holds' \in [Repo -> SUBSET Manifest],
           moves' \in 0 .. MaxMoves
    PROVE  SweepInv'
<1>1. (tree \in Trees => AllWrong \subseteq Finding)'
  BY WrongTypesAlways, PTL
<1>2. AllWrong' \subseteq Finding /\ lacking \in [Repo -> SUBSET Manifest]
  BY <1>1 DEF SweepInv, TypeOK
<1>3. /\ steady' = steady \cap AllWrong' /\ ever' = ever \cup AllWrong'
      /\ lacking' = [r \in Repo |-> lacking[r] \ holds'[r]]
  BY DEF Watch
<1>4. TypeOK'
  BY <1>2, <1>3 DEF SweepInv, TypeOK
<1>5. AtRoot' /\ CallsOfPhase' /\ FindingsAreTrue'
  BY <1>3, TreeFrame
  DEF SweepInv, AtRoot, CallsOfPhase, FindingsAreTrue, InPackage
<1>6. Histories'
  BY <1>2, <1>3 DEF SweepInv, Histories
<1>7. FactsSeen'
  BY <1>3 DEF SweepInv, FactsSeen, Awaited
<1>8. ManifestsSeen'
  <2> SUFFICES ASSUME sweep.phase # "idle", NEW p \in Package, NEW t \in Lists(p)',
                      NEW m \in (Manifests[Content(p, t)] \cap lacking[RootOf(p).repository])'
               PROVE  \/ Reported(p, m)'
                      \/ p \in sweep.todo
                      \/ p = sweep.package /\ sweep.phase \in {"observe", "claim", "owner"}
                      \/ p = sweep.package /\ sweep.phase = "scope" /\ <<"scope", t, m>> \in sweep.calls
    BY DEF ManifestsSeen
  <2>1. /\ \A q, r : Lists(q)' = Lists(q) /\ Content(q, r)' = Content(q, r)
        /\ RootOf(p)' = RootOf(p)
    BY TreeFrame
  <2>2. t \in Lists(p) /\ m \in Manifests[Content(p, t)] /\ RootOf(p).repository \in Repo
    <3>1. t \in Rows(RootOf(p))
      BY <2>1 DEF Lists, InScope
    <3>2. IsRoot(RootOf(p)) /\ RootOf(p) \in Root \cup {NoRoot, Malformed}
      BY <3>1, RowTypes, RootTypes DEF SweepInv, TypeOK
    <3>3. QED BY <2>1, <3>2 DEF IsRoot, Root
  <2>3. m \in lacking[RootOf(p).repository]
    BY <1>3, <2>1, <2>2
  <2>4. Reported(p, m) => Reported(p, m)'
    BY <2>1 DEF Reported
  <2>5. QED BY <2>2, <2>3, <2>4 DEF SweepInv, ManifestsSeen
<1>9. QED BY <1>4, <1>5, <1>6, <1>7, <1>8 DEF SweepInv

LEMMA TagMovesKeeps ==
    ASSUME SweepInv, NEW r \in Repo, NEW t \in Tag, TagMoves(r, t)
    PROVE  SweepInv'
<1>1. PICK d \in Digest \cup {None} :
        /\ serves' = [serves EXCEPT ![r][t] = d]
        /\ holds' = [holds EXCEPT ![r] = @ \cup IF d \in ImageIndex THEN Manifests[d] ELSE {}]
  BY DEF TagMoves
<1>2. (IF d \in ImageIndex THEN Manifests[d] ELSE {}) \subseteq Manifest
  BY TreeAssumption
<1>3. serves' \in [Repo -> [Tag -> Digest \cup {None}]] /\ holds' \in [Repo -> SUBSET Manifest]
  BY <1>1, <1>2 DEF SweepInv, TypeOK
<1>4. moves' \in 0 .. MaxMoves
  BY SweepAssumption DEF TagMoves, SweepInv, TypeOK
<1>5. QED BY <1>3, <1>4, MovesKeep DEF TagMoves

LEMMA PrunedKeeps ==
    ASSUME SweepInv, NEW r \in Repo, ManifestPruned(r)
    PROVE  SweepInv'
<1>1. serves' \in [Repo -> [Tag -> Digest \cup {None}]] /\ holds' \in [Repo -> SUBSET Manifest]
  BY DEF ManifestPruned, SweepInv, TypeOK
<1>2. moves' \in 0 .. MaxMoves
  BY SweepAssumption DEF ManifestPruned, SweepInv, TypeOK
<1>3. QED BY <1>1, <1>2, MovesKeep DEF ManifestPruned

-----------------------------------------------------------------------------
(* The theorems.                                                           *)

LEMMA InitSweepInv == Init => SweepInv
<1> SUFFICES ASSUME Init PROVE SweepInv
  OBVIOUS
<1>1. sweep \in Job /\ sweep.phase = "idle" /\ sweep.calls = {} /\ sweep.todo = {}
      /\ sweep.findings = {}
  BY IdleType DEF Init, Idle
<1>2. TypeOK
  BY <1>1, SweepAssumption DEF Init, TypeOK
<1>3. Histories
  BY <1>1 DEF Init, Histories
<1>4. QED BY <1>1, <1>2, <1>3
          DEF SweepInv, AtRoot, CallsOfPhase, FindingsAreTrue, FactsSeen, ManifestsSeen, InPackage

LEMMA NextKeeps == SweepInv /\ [Next]_vars => SweepInv'
<1> SUFFICES ASSUME SweepInv, [Next]_vars PROVE SweepInv'
  OBVIOUS
<1>1. CASE StartSweep
  BY <1>1, StartSweepKeeps
<1>2. ASSUME NEW p \in Package, AtPackage(p) PROVE SweepInv'
  BY <1>2, AtPackageKeeps
<1>3. ASSUME NEW p \in Package, RefuseRepository(p) PROVE SweepInv'
  BY <1>3, IdleKeeps DEF RefuseRepository, SweepOnly, registries, SweepInv, TypeOK
<1>4. ASSUME NEW t \in Tag, ObserveTag(t) PROVE SweepInv'
  BY <1>4, ObserveTagKeeps
<1>5. ASSUME NEW t \in Tag, VerifyTagClaim(t) PROVE SweepInv'
  BY <1>5, VerifyTagClaimKeeps
<1>6. CASE CheckOwnership
  BY <1>6, CheckOwnershipKeeps
<1>7. ASSUME NEW t \in Tag, NEW m \in Manifest, CheckDigestInScope(t, m) PROVE SweepInv'
  BY <1>7, CheckDigestKeeps
<1>8. CASE FileIssue
  <2>1. sweep.findings \subseteq Finding
    BY DEF SweepInv, TypeOK, Job
  <2>2. QED BY <1>8, <2>1, IdleKeeps DEF FileIssue, SweepInv, TypeOK
<1>9. CASE EndClean
  BY <1>9, IdleKeeps DEF EndClean, SweepOnly, registries, SweepInv, TypeOK
<1>10. CASE CallFails
  <2>1. failures' \in 0 .. MaxFailures
    BY <1>10, SweepAssumption DEF CallFails, SweepInv, TypeOK
  <2>2. QED BY <1>10, <2>1, IdleKeeps DEF CallFails, SweepInv, TypeOK
<1>11. ASSUME NEW r \in Repo, ManifestPruned(r) PROVE SweepInv'
  BY <1>11, PrunedKeeps
<1>12. ASSUME NEW r \in Repo, NEW t \in Tag, TagMoves(r, t) PROVE SweepInv'
  BY <1>12, TagMovesKeeps
<1>13. CASE UNCHANGED vars
  <2>1. UNCHANGED <<tree, serves, holds, moves, failures, sweep, issue, steady, lacking, ever>>
    BY <1>13 DEF vars, registries, history
  <2>2. AllWrong' = AllWrong
    BY <2>1, WrongFrame
  <2>3. TypeOK' /\ FindingsAreTrue' /\ Histories' /\ FactsSeen'
    BY <2>1, <2>2 DEF SweepInv, TypeOK, FindingsAreTrue, Histories, FactsSeen, Awaited
  <2>4. AtRoot' /\ CallsOfPhase'
    BY <2>1, TreeFrame DEF SweepInv, AtRoot, CallsOfPhase, InPackage
  <2>5. ManifestsSeen'
    <3>1. SUFFICES ASSUME sweep.phase # "idle", NEW q \in Package, NEW t \in Lists(q),
                          NEW m \in Manifests[Content(q, t)] \cap lacking[RootOf(q).repository]
                   PROVE  \/ Reported(q, m)' \/ q \in sweep.todo
                          \/ q = sweep.package /\ sweep.phase \in {"observe", "claim", "owner"}
                          \/ q = sweep.package /\ sweep.phase = "scope"
                             /\ <<"scope", t, m>> \in sweep.calls
      <4>1. \A q \in Package : RootOf(q)' = RootOf(q) /\ Lists(q)' = Lists(q)
                             /\ \A t : Content(q, t)' = Content(q, t)
        BY <2>1, TreeFrame
      <4>2. QED BY <2>1, <4>1 DEF ManifestsSeen
    <3>2. Reported(q, m) => Reported(q, m)'
      BY <2>1, TreeFrame DEF Reported
    <3>3. QED BY <3>1, <3>2 DEF SweepInv, ManifestsSeen
  <2>6. QED BY <2>3, <2>4, <2>5 DEF SweepInv
<1>14. CASE RegistryRaises
  BY <1>14, IdleKeeps DEF RegistryRaises, SweepOnly, registries, SweepInv, TypeOK
<1>15. QED BY <1>1, <1>2, <1>3, <1>4, <1>5, <1>6, <1>7, <1>8, <1>9, <1>10, <1>11, <1>12, <1>13,
              <1>14
           DEF Next, SweepNext

LEMMA SweepInvHolds == Spec => []SweepInv
BY InitSweepInv, NextKeeps, PTL DEF Spec

\* A sweep's variables keep their types, and it is between packages exactly when
\* no call is left to make.
THEOREM SweepTypeCorrect == Spec => []TypeOK
<1>1. SweepInv => TypeOK
  BY DEF SweepInv
<1>2. QED BY <1>1, SweepInvHolds, PTL

\* No sweep raises a false alarm, however its registries move between its calls.
THEOREM NoFalseAlarm == Spec => []FindingsAreTrue
<1>1. SweepInv => FindingsAreTrue
  BY DEF SweepInv
<1>2. QED BY <1>1, SweepInvHolds, PTL

\* No sweep that gets through overlooks what was wrong all along.
THEOREM NoBlindSpot == Spec => []SteadyIsReported
<1>1. SweepInv => SteadyIsReported
  <2> SUFFICES ASSUME SweepInv, SweepIsThrough PROVE SteadyIsReported
    BY DEF SteadyIsReported
  <2>1. sweep.phase = "package" /\ sweep.todo = {}
    BY DEF SweepIsThrough
  <2>2. \A f \in steady : f[1] # "digest-not-in-scope" => f \in sweep.findings
    BY <2>1 DEF SweepInv, FactsSeen, Awaited
  <2>3. \A p \in Package : \A t \in Lists(p) :
           \A m \in Manifests[Content(p, t)] \cap lacking[RootOf(p).repository] : Reported(p, m)
    BY <2>1 DEF SweepInv, ManifestsSeen
  <2>4. QED BY <2>2, <2>3 DEF SteadyIsReported, Reported
<1>2. QED BY <1>1, SweepInvHolds, PTL
=============================================================================
