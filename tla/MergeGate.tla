------------------------------- MODULE MergeGate ------------------------------
(***************************************************************************)
(* What the governance gate promises, whatever the forge and however the   *)
(* gate goes about it: a change request gathers revisions and approvals, a  *)
(* revision is released when it has earned it, and only a released head is *)
(* merged.  Releasing and merging are single steps here; the lanes that    *)
(* implement them take a dozen API calls.                                  *)
(***************************************************************************)
EXTENDS GovernanceDecision, Integers, Sequences

CONSTANTS MRs, Revisions, Content, GoneTags, Accounts, Author, Maintainers, NotMerged,
          Ungated       \* change requests whose merge the status does not gate

VARIABLES
    versions,           \* the revisions pushed to each, oldest first, and by whom
    approvals,          \* the approvals given, each at the newest version then
    released,           \* the revisions released
    merged              \* the revision merged, or NotMerged

vars == <<versions, approvals, released, merged>>

HeadOf(m) == versions[m][Len(versions[m])].rev
Opened(m) == merged[m] = NotMerged

Lane(r) == ClassifyPullRequest(Content[r].paths, Content[r].root, GoneTags)

\* The author's own approval never counts, nor one older than the revision.
Approved(m, v) ==
    \E e \in approvals[m] : e.by \in Maintainers \ {Author[m]} /\ e.at >= v

OwnedBySender(m, v) ==
    /\ AutoMerge = "owners" /\ m \notin Ungated
    /\ OwnsEveryTouchedPackage(Content[versions[m][v].rev].paths,
                               {Author[m]} \cup {versions[m][i].by : i \in 1 .. v})

Entitled(m, r) ==
    \E v \in DOMAIN versions[m] :
        /\ versions[m][v].rev = r
        /\ \/ Approved(m, v)
           \/ Lane(r) = "refresh" /\ (AutoMerge = "always" \/ OwnedBySender(m, v))

Init ==
    /\ \E first \in [MRs -> Revisions] :
            versions = [m \in MRs |-> <<[rev |-> first[m], by |-> Author[m]]>>]
    /\ approvals = [m \in MRs |-> {}]
    /\ released = [m \in MRs |-> {}]
    /\ merged = [m \in MRs |-> NotMerged]

Push(m) ==
    /\ Opened(m)
    /\ \E r \in Revisions, a \in Accounts :
            versions' = [versions EXCEPT ![m] = Append(@, [rev |-> r, by |-> a])]
    /\ UNCHANGED <<approvals, released, merged>>

Approve(m) ==
    /\ Opened(m)
    /\ \E a \in Accounts :
            approvals' = [approvals EXCEPT ![m] = @ \cup {[by |-> a, at |-> Len(versions[m])]}]
    /\ UNCHANGED <<versions, released, merged>>

Release(m) ==
    /\ \E r \in Revisions :
            Entitled(m, r) /\ released' = [released EXCEPT ![m] = @ \cup {r}]
    /\ UNCHANGED <<versions, approvals, merged>>

Merge(m) ==
    /\ Opened(m)
    /\ m \in Ungated \/ HeadOf(m) \in released[m]
    /\ merged' = [merged EXCEPT ![m] = HeadOf(m)]
    /\ UNCHANGED <<versions, approvals, released>>

Next == \E m \in MRs : Push(m) \/ Approve(m) \/ Release(m) \/ Merge(m)

Spec == Init /\ [][Next]_vars
=============================================================================
