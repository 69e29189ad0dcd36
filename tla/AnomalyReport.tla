----------------------------- MODULE AnomalyReport -----------------------------
(***************************************************************************)
(* create_or_update_issue, with which reconcile files its findings, on top of *)
(* _http.paginate: a walk over the pages of a listing that changes under it,   *)
(* and then a write.  On GitHub one sweep files at a time (reconcile.yml's     *)
(* concurrency group); nothing serialises GitLab's (indexbot.yml).  A sweep   *)
(* that has findings comes round again; the people who open and close issues  *)
(* and requests are external.                                                 *)
(***************************************************************************)
EXTENDS Integers, Sequences, FiniteSets

CONSTANTS
    Sweeps,         \* jobs of reconcile that may run at once
    Forges,         \* bound: subset of {"github", "gitlab"}
    PageSize,       \* per_page
    MaxPages,       \* MAX_PAGES
    MaxOpened,      \* bound: issues and requests people open
    MaxClosed,      \* bound: issues and requests people close
    MaxFaults       \* bound: calls that fail, or whose answer is lost

ASSUME ReportAssumption ==
    /\ Forges \subseteq {"github", "gitlab"}
    /\ PageSize \in Nat \ {0} /\ MaxPages \in Nat \ {0}
    /\ MaxOpened \in Nat /\ MaxClosed \in Nat /\ MaxFaults \in Nat

VARIABLES
    forge,          \* the one this deployment is on
    open,           \* open issues and requests, newest first: the kind of each
    walk,           \* the call each sweep has in progress
    count           \* how often each bounded thing happened

vars == <<forge, open, walk, count>>

\* An issue with the report's title, one without, a pull request that has it.
Kind == {"report", "issue", "request"}

\* "under" is history: what happened to the listing since the walk began.
Walk == [stage : {"idle", "page", "write"}, page : 1 .. MaxPages, found : BOOLEAN,
         under : SUBSET {"closed", "filed"}]

TypeOK ==
    /\ forge \in {"github", "gitlab"}
    /\ open \in Seq(Kind)
    /\ walk \in [Sweeps -> Walk]
    /\ count \in [opened : Nat, closed : Nat, faults : Nat]

-----------------------------------------------------------------------------
Idle == [stage |-> "idle", page |-> 1, found |-> FALSE, under |-> {}]

Init ==
    /\ forge \in Forges
    /\ open = <<>>
    /\ walk = [s \in Sweeps |-> Idle]
    /\ count = [opened |-> 0, closed |-> 0, faults |-> 0]

Reports == {i \in 1 .. Len(open) : open[i] = "report"}

\* What the endpoint lists: GitHub's has the pull requests in it too.
Listed(i) == forge = "github" \/ open[i] # "request"

\* Where in the listing a listed item is, and how long the listing is.
Place(i) == Cardinality({k \in 1 .. i : Listed(k)})
Length == Place(Len(open))

OnPage(i, page) == (page - 1) * PageSize < Place(i) /\ Place(i) <= page * PageSize

Walking(s) == walk[s].stage # "idle"
Becomes(s, w) == walk' = [walk EXCEPT ![s] = w]

\* GitHub holds a second job back until the first has ended.
Start(s) ==
    /\ ~Walking(s)
    /\ forge = "github" => \A t \in Sweeps : ~Walking(t)
    /\ Becomes(s, [Idle EXCEPT !.stage = "page"])
    /\ UNCHANGED <<forge, open, count>>

\* Mutant: the pull requests in the listing are not left out.
ReportOrRequestOnPage(page) ==
    \E i \in 1 .. Len(open) : Listed(i) /\ open[i] # "issue" /\ OnPage(i, page)

\* Whether the page has a report; a pull request of that title is none.
ReportOnPage(page) == \E i \in Reports : OnPage(i, page)

\* Mutant: the walk never leaves its first page.
NextLinkNever(page) == page < 1

NextLink(page) == Length > page * PageSize

\* Past the cap it is PageCapExceeded, whatever was found.
ReadPage(s) ==
    LET w     == walk[s]
        found == w.found \/ ReportOnPage(w.page)
    IN  /\ w.stage = "page"
        /\ \/ NextLink(w.page) /\ w.page = MaxPages /\ Becomes(s, Idle)
           \/ /\ NextLink(w.page) /\ w.page < MaxPages
              /\ Becomes(s, [w EXCEPT !.page = @ + 1, !.found = found])
           \/ ~NextLink(w.page) /\ Becomes(s, [w EXCEPT !.stage = "write", !.found = found])
        /\ UNCHANGED <<forge, open, count>>

\* An edit of the body, also of a report closed since it was listed.
Update(s) ==
    /\ walk[s].stage = "write" /\ walk[s].found
    /\ Becomes(s, Idle)
    /\ UNCHANGED <<forge, open, count>>

Opens(kind) == open' = <<kind>> \o open

\* What a walk has had happen under it.
Meets(w, what) == IF w.stage = "idle" THEN w ELSE [w EXCEPT !.under = @ \cup {what}]

\* No forge limits the issues of one title.  A lost answer changes nothing: the next
\* sweep looks again.
Create(s) ==
    /\ walk[s].stage = "write" /\ ~walk[s].found
    /\ Opens("report")
    /\ walk' = [t \in Sweeps |-> IF t = s THEN Idle ELSE Meets(walk[t], "filed")]
    /\ UNCHANGED <<forge, count>>

\* check_transient, or the transport underneath, or a killed job.
CallFails(s) ==
    /\ Walking(s)
    /\ count.faults < MaxFaults
    /\ count' = [count EXCEPT !.faults = @ + 1]
    /\ Becomes(s, Idle)
    /\ UNCHANGED <<forge, open>>

SomeoneOpens ==
    /\ count.opened < MaxOpened
    /\ \E kind \in {"issue", "request"} : Opens(kind)
    /\ count' = [count EXCEPT !.opened = @ + 1]
    /\ UNCHANGED <<forge, walk>>

SomeoneCloses ==
    /\ count.closed < MaxClosed
    /\ count' = [count EXCEPT !.closed = @ + 1]
    /\ \E i \in 1 .. Len(open) : open' = SubSeq(open, 1, i - 1) \o SubSeq(open, i + 1, Len(open))
    /\ walk' = [s \in Sweeps |-> Meets(walk[s], "closed")]
    /\ UNCHANGED forge

Sweep(s) == Start(s) \/ ReadPage(s) \/ Update(s) \/ Create(s)

Next == (\E s \in Sweeps : Sweep(s) \/ CallFails(s)) \/ SomeoneOpens \/ SomeoneCloses

Spec == Init /\ [][Next]_vars

\* The scheduled sweep comes round, and its calls return.
FairSpec == Spec /\ \A s \in Sweeps : WF_vars(Sweep(s))

-----------------------------------------------------------------------------
(* Properties.                                                             *)

\* "Idempotent per exact title match": while one report is open, another is opened
\* only by a walk the first slipped past when an item was closed under it, or, on
\* GitLab, by one that overlaps the sweep that filed the first.
OneReport ==
    [][\A s \in Sweeps :
        Create(s) /\ Reports # {} =>
            \/ "closed" \in walk[s].under
            \/ forge = "gitlab" /\ "filed" \in walk[s].under]_vars

\* An anomaly that stays ends with an open report, but on a forge with more open
\* items than the page cap reaches, which no retry gets past.
AnomalyIsReported == <>[](Reports # {} \/ Length > MaxPages * PageSize)
=============================================================================
