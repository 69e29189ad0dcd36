-------------------------- MODULE AnomalyReport_proofs --------------------------
(***************************************************************************)
(* Proofs about the filing of an anomaly report, for any page size, page cap  *)
(* sweeps at once, items opened, closed and listed.                           *)
(***************************************************************************)
EXTENDS AnomalyReport, FiniteSetTheorems, FunctionTheorems, SequenceTheorems, TLAPS

-----------------------------------------------------------------------------
(* The listing.                                                            *)

\* What is opened goes in front.
LEMMA OpensInFront ==
    ASSUME TypeOK, NEW kind \in Kind, Opens(kind)
    PROVE  /\ open' \in Seq(Kind) /\ Len(open') = Len(open) + 1
           /\ open'[1] = kind
           /\ \A i \in 1 .. Len(open) : open'[i + 1] = open[i]
<1>1. open \in Seq(Kind) /\ open' = <<kind>> \o open /\ Len(open) \in Nat
  BY DEF TypeOK, Opens
<1>2. <<kind>> \in Seq(Kind) /\ Len(<<kind>>) = 1 /\ <<kind>>[1] = kind
  OBVIOUS
<1>3. /\ open' \in Seq(Kind) /\ Len(open') = 1 + Len(open)
      /\ \A i \in 1 .. 1 + Len(open) : open'[i] = IF i <= 1 THEN <<kind>>[i] ELSE open[i - 1]
  BY <1>1, <1>2, ConcatProperties, Zenon
<1>4. open'[1] = kind
  BY <1>1, <1>2, <1>3
<1>5. ASSUME NEW i \in 1 .. Len(open)
      PROVE  open'[i + 1] = open[i]
  <2>1. i + 1 \in 1 .. 1 + Len(open) /\ ~(i + 1 <= 1) /\ (i + 1) - 1 = i
    BY <1>1
  <2>2. open'[i + 1] = open[(i + 1) - 1]
    BY <1>3, <2>1
  <2>3. QED BY <2>1, <2>2
<1>6. QED BY <1>1, <1>3, <1>4, <1>5

\* What is closed leaves a gap that the rest closes up.
LEMMA ClosesUp ==
    ASSUME TypeOK, NEW i \in 1 .. Len(open),
           open' = SubSeq(open, 1, i - 1) \o SubSeq(open, i + 1, Len(open))
    PROVE  /\ open' \in Seq(Kind) /\ Len(open') = Len(open) - 1
           /\ \A k \in 1 .. Len(open) - 1 : open'[k] = open[IF k < i THEN k ELSE k + 1]
<1> DEFINE n == Len(open)
           before == SubSeq(open, 1, i - 1)
           after == SubSeq(open, i + 1, n)
<1>1. open \in Seq(Kind) /\ n \in Nat /\ i \in 1 .. n /\ \A k \in 1 .. n : open[k] \in Kind
  BY DEF TypeOK
<1>2. /\ before \in Seq(Kind) /\ Len(before) = i - 1
      /\ \A k \in 1 .. i - 1 : before[k] = open[k]
  <2>1. \A k \in 1 .. i - 1 : open[k] \in Kind
    BY <1>1
  <2>2. /\ before \in Seq(Kind) /\ Len(before) = IF 1 <= i - 1 THEN (i - 1) - 1 + 1 ELSE 0
        /\ \A k \in 1 .. (i - 1) - 1 + 1 : before[k] = open[1 + k - 1]
    BY <1>1, <2>1, SubSeqProperties
  <2>3. QED BY <1>1, <2>2
<1>3. /\ after \in Seq(Kind) /\ Len(after) = n - i
      /\ \A k \in 1 .. n - i : after[k] = open[i + k]
  <2>1. \A k \in i + 1 .. n : open[k] \in Kind
    BY <1>1
  <2>2. /\ after \in Seq(Kind) /\ Len(after) = IF i + 1 <= n THEN n - (i + 1) + 1 ELSE 0
        /\ \A k \in 1 .. n - (i + 1) + 1 : after[k] = open[(i + 1) + k - 1]
    BY <1>1, <2>1, SubSeqProperties
  <2>3. QED BY <1>1, <2>2
<1>4. /\ open' \in Seq(Kind) /\ Len(open') = Len(before) + Len(after)
      /\ \A k \in 1 .. Len(before) + Len(after) :
            open'[k] = IF k <= Len(before) THEN before[k] ELSE after[k - Len(before)]
  BY <1>2, <1>3, ConcatProperties, Zenon
<1> HIDE DEF before, after
<1>5. ASSUME NEW k \in 1 .. n - 1
      PROVE  open'[k] = open[IF k < i THEN k ELSE k + 1]
  <2>1. CASE k < i
    <3>1. k \in 1 .. i - 1 /\ k <= Len(before) /\ k \in 1 .. Len(before) + Len(after)
      BY <1>1, <1>2, <1>3, <2>1
    <3>2. QED BY <1>2, <1>4, <2>1, <3>1
  <2>2. CASE ~(k < i)
    <3>1. /\ k - (i - 1) \in 1 .. n - i /\ i + (k - (i - 1)) = k + 1
          /\ ~(k <= Len(before)) /\ k \in 1 .. Len(before) + Len(after)
      BY <1>1, <1>2, <1>3, <2>2
    <3>2. open'[k] = after[k - (i - 1)]
      BY <1>2, <1>4, <3>1
    <3>3. after[k - (i - 1)] = open[i + (k - (i - 1))]
      BY <1>3, <3>1
    <3>4. QED BY <2>2, <3>1, <3>2, <3>3
  <2>3. QED BY <2>1, <2>2
<1>6. Len(open') = n - 1
  <2>1. (i - 1) + (n - i) = n - 1
    BY <1>1
  <2>2. Len(before) = i - 1 /\ Len(after) = n - i /\ Len(open') = Len(before) + Len(after)
    BY <1>2, <1>3, <1>4
  <2>3. QED BY <2>1, <2>2
<1> HIDE DEF n
<1>7. open' \in Seq(Kind) /\ Len(open') = n - 1
      /\ \A k \in 1 .. n - 1 : open'[k] = open[IF k < i THEN k ELSE k + 1]
  BY <1>4, <1>5, <1>6
<1>8. QED BY <1>7 DEF n

\* Place, of a listing that is given.
ListedIn(f, q, i) == {k \in 1 .. i : f = "github" \/ q[k] # "request"}
PlaceIn(f, q, i) == Cardinality(ListedIn(f, q, i))

LEMMA ListedFinite ==
    ASSUME NEW f, NEW q, NEW i \in Nat
    PROVE  IsFiniteSet(ListedIn(f, q, i)) /\ PlaceIn(f, q, i) \in Nat
<1>1. IsFiniteSet(1 .. i)
  BY FS_Interval
<1>2. ListedIn(f, q, i) \in SUBSET (1 .. i)
  BY DEF ListedIn
<1>3. IsFiniteSet(ListedIn(f, q, i))
  BY <1>1, <1>2, FS_Subset
<1>4. QED BY <1>3, FS_CardinalityType DEF PlaceIn

\* Items further down have later places ...
LEMMA PlaceOrder ==
    ASSUME NEW f, NEW q, NEW i \in Nat, NEW n \in Nat, i <= n
    PROVE  PlaceIn(f, q, i) <= PlaceIn(f, q, n)
<1>1. ListedIn(f, q, i) \in SUBSET ListedIn(f, q, n)
  BY DEF ListedIn
<1>2. QED BY <1>1, ListedFinite, FS_Subset DEF PlaceIn

\* ... the first of which is 1 ...
LEMMA PlaceOfReport ==
    ASSUME NEW f, NEW q, NEW i \in Nat \ {0}, q[i] = "report"
    PROVE  PlaceIn(f, q, i) > 0
<1>1. i \in ListedIn(f, q, i)
  BY DEF ListedIn
<1>2. PlaceIn(f, q, i) # 0
  BY <1>1, ListedFinite, FS_EmptySet DEF PlaceIn
<1>3. QED BY <1>2, ListedFinite

\* ... and what is opened only moves them on.
LEMMA PlaceMovesOn ==
    ASSUME NEW f, NEW q, NEW r, NEW n \in Nat, \A k \in 1 .. n : r[k + 1] = q[k],
           NEW i \in 1 .. n
    PROVE  PlaceIn(f, q, i) <= PlaceIn(f, r, i + 1)
<1> DEFINE S == ListedIn(f, q, i)
           T == ListedIn(f, r, i + 1)
           g == [k \in S |-> k + 1]
<1>1. \A k \in S : k + 1 \in T /\ k \in Nat
  BY DEF ListedIn
<1>2. g \in [S -> T] /\ \A k, l \in S : g[k] = g[l] => k = l
  BY <1>1
<1> HIDE DEF g
<1>3. g \in Injection(S, T)
  BY <1>2 DEF Injection, IsInjective
<1>4. IsFiniteSet(T)
  BY ListedFinite
<1>5. QED BY <1>3, <1>4, FS_Injection DEF PlaceIn

LEMMA PlaceIs == \A i : Place(i) = PlaceIn(forge, open, i) /\ Place(i)' = PlaceIn(forge', open', i)
BY DEF Place, PlaceIn, ListedIn, Listed

-----------------------------------------------------------------------------
(* Types.                                                                  *)

LEMMA WalkTypes ==
    /\ Idle \in Walk /\ [Idle EXCEPT !.stage = "page"] \in Walk
    /\ \A w \in Walk, b \in BOOLEAN :
        /\ w.page < MaxPages => [w EXCEPT !.page = @ + 1, !.found = b] \in Walk
        /\ [w EXCEPT !.stage = "write", !.found = b] \in Walk
    /\ \A w \in Walk, e \in {"closed", "filed"} : Meets(w, e) \in Walk
<1> DEFINE Page == 1 .. MaxPages
<1>1. 1 \in Page /\ \A p \in Page : p < MaxPages => p + 1 \in Page
  BY ReportAssumption
<1>2. Walk = [stage : {"idle", "page", "write"}, page : Page, found : BOOLEAN,
              under : SUBSET {"closed", "filed"}]
  BY DEF Walk
<1> HIDE DEF Page
<1>3. Idle \in Walk /\ [Idle EXCEPT !.stage = "page"] \in Walk
  BY <1>1, <1>2 DEF Idle
<1>4. ASSUME NEW w \in Walk, NEW b \in BOOLEAN
      PROVE  /\ w.page < MaxPages => [w EXCEPT !.page = @ + 1, !.found = b] \in Walk
             /\ [w EXCEPT !.stage = "write", !.found = b] \in Walk
  <2>1. w.page \in Page
    BY <1>2
  <2>2. w.page < MaxPages => w.page + 1 \in Page
    BY <1>1, <2>1
  <2>3. QED BY <1>2, <2>2
<1>5. ASSUME NEW w \in Walk, NEW e \in {"closed", "filed"}
      PROVE  Meets(w, e) \in Walk
  BY <1>2 DEF Meets
<1>6. QED BY <1>3, <1>4, <1>5

\* What a page makes of a walk.
LEMMA ReadPageIs ==
    ASSUME TypeOK, NEW s \in Sweeps, ReadPage(s)
    PROVE  LET w == walk[s]
               found == w.found \/ ReportOnPage(w.page)
           IN  /\ w.stage = "page" /\ w \in Walk /\ found \in BOOLEAN
               /\ UNCHANGED <<forge, open, count>>
               /\ \A t \in Sweeps : t # s => walk'[t] = walk[t]
               /\ \/ walk'[s] = Idle
                  \/ /\ w.page < MaxPages
                     /\ walk'[s] = [w EXCEPT !.page = @ + 1, !.found = found]
                  \/ /\ ~NextLink(w.page)
                     /\ walk'[s] = [w EXCEPT !.stage = "write", !.found = found]
<1>1. walk \in [Sweeps -> Walk] /\ walk[s] \in Walk /\ walk[s].found \in BOOLEAN
  BY DEF TypeOK, Walk
<1>2. (walk[s].found \/ ReportOnPage(walk[s].page)) \in BOOLEAN
  BY <1>1 DEF ReportOnPage
<1>3. QED BY <1>1, <1>2, Zenon DEF ReadPage, Becomes

LEMMA TypeStep == TypeOK /\ [Next]_vars => TypeOK'
<1> SUFFICES ASSUME TypeOK, [Next]_vars PROVE TypeOK'
  OBVIOUS
<1>1. Idle \in Walk /\ [Idle EXCEPT !.stage = "page"] \in Walk
  BY WalkTypes
<1>2. /\ forge \in {"github", "gitlab"} /\ open \in Seq(Kind) /\ walk \in [Sweeps -> Walk]
      /\ count \in [opened : Nat, closed : Nat, faults : Nat]
  BY DEF TypeOK
<1>3. ASSUME NEW s \in Sweeps, Start(s) \/ Update(s)
      PROVE  TypeOK'
  BY <1>1, <1>2, <1>3 DEF Start, Update, Becomes, TypeOK
<1>4. ASSUME NEW s \in Sweeps, ReadPage(s)
      PROVE  TypeOK'
  <2>1. walk' \in [Sweeps -> Walk]
    <3>1. \E w \in Walk : walk' = [walk EXCEPT ![s] = w]
      <4> DEFINE w == walk[s]
                 b == w.found \/ ReportOnPage(w.page)
      <4>1. w \in Walk /\ b \in BOOLEAN
        BY <1>4, ReadPageIs
      <4>2. /\ w.page < MaxPages => [w EXCEPT !.page = @ + 1, !.found = b] \in Walk
            /\ [w EXCEPT !.stage = "write", !.found = b] \in Walk
        BY <4>1, WalkTypes
      <4>3. \/ walk' = [walk EXCEPT ![s] = Idle]
            \/ w.page < MaxPages /\ walk' = [walk EXCEPT ![s] = [w EXCEPT !.page = @ + 1, !.found = b]]
            \/ walk' = [walk EXCEPT ![s] = [w EXCEPT !.stage = "write", !.found = b]]
        BY <1>4, Zenon DEF ReadPage, Becomes
      <4>4. QED BY <1>1, <4>2, <4>3
    <3>2. QED BY <1>2, <3>1
  <2>2. QED BY <1>2, <1>4, <2>1, ReadPageIs DEF TypeOK
<1>5. ASSUME NEW s \in Sweeps, Create(s)
      PROVE  TypeOK'
  <2>1. open' \in Seq(Kind)
    BY <1>5, OpensInFront DEF Create, Kind
  <2>2. walk' \in [Sweeps -> Walk]
    BY <1>1, <1>2, <1>5, WalkTypes DEF Create
  <2>3. QED BY <1>2, <1>5, <2>1, <2>2 DEF Create, TypeOK
<1>6. ASSUME NEW s \in Sweeps, CallFails(s)
      PROVE  TypeOK'
  BY <1>1, <1>2, <1>6 DEF CallFails, Becomes, TypeOK
<1>7. CASE SomeoneOpens
  <2>1. open' \in Seq(Kind)
    BY <1>7, OpensInFront DEF SomeoneOpens, Kind
  <2>2. QED BY <1>2, <1>7, <2>1 DEF SomeoneOpens, TypeOK
<1>8. CASE SomeoneCloses
  <2>1. open' \in Seq(Kind)
    BY <1>8, ClosesUp DEF SomeoneCloses
  <2>2. walk' \in [Sweeps -> Walk]
    BY <1>2, <1>8, WalkTypes DEF SomeoneCloses
  <2>3. count' \in [opened : Nat, closed : Nat, faults : Nat]
    <3>1. count' = [count EXCEPT !.closed = @ + 1]
      BY <1>8 DEF SomeoneCloses
    <3>2. count.closed + 1 \in Nat
      BY <1>2
    <3>3. QED BY <1>2, <3>1, <3>2
  <2>4. QED BY <1>2, <1>8, <2>1, <2>2, <2>3 DEF SomeoneCloses, TypeOK
<1>9. CASE UNCHANGED vars
  BY <1>9 DEF vars, TypeOK
<1>10. QED BY <1>3, <1>4, <1>5, <1>6, <1>7, <1>8, <1>9 DEF Next, Sweep

LEMMA TypeInit == Init => TypeOK
<1> SUFFICES ASSUME Init PROVE TypeOK
  OBVIOUS
<1>1. Idle \in Walk
  BY WalkTypes
<1>2. open \in Seq(Kind)
  BY DEF Init
<1>3. QED BY <1>1, <1>2, ReportAssumption DEF Init, TypeOK

\* The listing, the walks over it and the counts keep their types.
THEOREM ReportTypeCorrect == Spec => []TypeOK
BY TypeInit, TypeStep, PTL DEF Spec

-----------------------------------------------------------------------------
(* One report.                                                             *)

\* A walk under which nothing was closed or filed, and which has found nothing,
\* has left no report behind: each is on a page it has not read.
LeftNothing(s) ==
    ~walk[s].found /\ walk[s].under = {} =>
        /\ walk[s].stage = "page" => \A i \in Reports : (walk[s].page - 1) * PageSize < Place(i)
        /\ walk[s].stage = "write" => Reports = {}

\* GitHub's concurrency group: one walk at a time, under which no other files.
Serial ==
    forge = "github" =>
        /\ \A s, t \in Sweeps : Walking(s) /\ Walking(t) => s = t
        /\ \A s \in Sweeps : "filed" \notin walk[s].under

WalkInv == Serial /\ \A s \in Sweeps : LeftNothing(s)

LEMMA IdleLeftNothing ==
    ASSUME NEW s, walk'[s].stage = "idle"
    PROVE  LeftNothing(s)'
BY DEF LeftNothing

LEMMA MetLeftNothing ==
    ASSUME TypeOK, NEW s \in Sweeps, NEW e \in {"closed", "filed"}, walk'[s] = Meets(walk[s], e)
    PROVE  LeftNothing(s)' /\ walk'[s].stage = walk[s].stage
<1>1. walk[s] \in Walk
  BY DEF TypeOK
<1>2. CASE walk[s].stage = "idle"
  BY <1>2, IdleLeftNothing DEF Meets
<1>3. CASE walk[s].stage # "idle"
  <2>1. walk'[s] = [walk[s] EXCEPT !.under = @ \cup {e}]
    BY <1>3 DEF Meets
  <2>2. walk'[s].under # {} /\ walk'[s].stage = walk[s].stage
    BY <1>1, <2>1 DEF Walk
  <2>3. QED BY <2>2 DEF LeftNothing
<1>4. QED BY <1>2, <1>3

\* A walk nothing happens to keeps what it has left behind, or not.
LEMMA SameLeftNothing ==
    ASSUME NEW s, LeftNothing(s), walk'[s] = walk[s], UNCHANGED <<forge, open>>
    PROVE  LeftNothing(s)'
<1>1. Reports' = Reports
  BY DEF Reports
<1>2. \A i : Place(i)' = Place(i)
  BY PlaceIs
<1>3. QED BY <1>1, <1>2 DEF LeftNothing

LEMMA StartLeftNothing ==
    ASSUME TypeOK, NEW s \in Sweeps, Start(s)
    PROVE  LeftNothing(s)'
<1>1. walk'[s] = [Idle EXCEPT !.stage = "page"] /\ open' = open /\ forge' = forge
  BY DEF Start, Becomes, TypeOK
<1>2. walk'[s].stage = "page" /\ walk'[s].page = 1
  BY <1>1 DEF Idle
<1>3. ASSUME NEW i \in Reports'
      PROVE  (walk'[s].page - 1) * PageSize < Place(i)'
  <2>1. i \in Nat \ {0} /\ open'[i] = "report"
    BY <1>1 DEF Reports, TypeOK
  <2>2. PlaceIn(forge', open', i) > 0
    BY <2>1, PlaceOfReport
  <2>3. (walk'[s].page - 1) * PageSize = 0
    <3>1. walk'[s].page - 1 = 0
      BY <1>2
    <3>2. 0 * PageSize = 0
      BY ReportAssumption
    <3>3. QED BY <3>1, <3>2
  <2>4. PlaceIn(forge', open', i) \in Nat
    BY <2>1, ListedFinite
  <2>5. QED BY <2>2, <2>3, <2>4, PlaceIs
<1>4. QED BY <1>2, <1>3 DEF LeftNothing

LEMMA ReadLeftNothing ==
    ASSUME TypeOK, NEW s \in Sweeps, LeftNothing(s), ReadPage(s)
    PROVE  LeftNothing(s)'
<1> DEFINE w == walk[s]
           b == w.found \/ ReportOnPage(w.page)
<1>1. /\ w.stage = "page" /\ w \in Walk /\ b \in BOOLEAN /\ forge' = forge /\ open' = open
      /\ \/ walk'[s] = Idle
         \/ walk'[s] = [w EXCEPT !.page = @ + 1, !.found = b]
         \/ ~NextLink(w.page) /\ walk'[s] = [w EXCEPT !.stage = "write", !.found = b]
  BY ReadPageIs
<1>2. w.page \in Nat /\ PageSize \in Nat /\ w.page * PageSize \in Nat
  BY <1>1, ReportAssumption DEF Walk
<1>3. Reports' = Reports /\ \A i : Place(i)' = Place(i)
  BY <1>1, PlaceIs DEF Reports
<1>4. ASSUME ~b, w.under = {}, NEW i \in Reports
      PROVE  w.page * PageSize < Place(i)
  <2>1. ~OnPage(i, w.page) /\ ~w.found
    BY <1>4 DEF ReportOnPage
  <2>2. (w.page - 1) * PageSize < Place(i)
    BY <1>1, <1>4, <2>1 DEF LeftNothing
  <2>3. Place(i) \in Nat
    <3>1. i \in Nat
      BY DEF Reports
    <3>2. QED BY <3>1, ListedFinite, PlaceIs
  <2>4. QED BY <1>2, <2>1, <2>2, <2>3 DEF OnPage
<1> HIDE DEF b
<1>5. CASE walk'[s] = Idle
  BY <1>5, IdleLeftNothing DEF Idle
<1>6. CASE walk'[s] = [w EXCEPT !.page = @ + 1, !.found = b]
  <2>1. /\ walk'[s].stage = "page" /\ walk'[s].page = w.page + 1
        /\ walk'[s].found = b /\ walk'[s].under = w.under
    BY <1>1, <1>6 DEF Walk
  <2>2. walk'[s].page - 1 = w.page
    BY <1>2, <2>1
  <2>3. QED BY <1>3, <1>4, <2>1, <2>2 DEF LeftNothing
<1>7. CASE ~NextLink(w.page) /\ walk'[s] = [w EXCEPT !.stage = "write", !.found = b]
  <2>1. walk'[s].stage = "write" /\ walk'[s].found = b /\ walk'[s].under = w.under
    BY <1>1, <1>7 DEF Walk
  <2>2. ASSUME ~b, w.under = {}, NEW i \in Reports
        PROVE  FALSE
    <3>1. w.page * PageSize < PlaceIn(forge, open, i)
      BY <1>4, <2>2, PlaceIs
    <3>2. i \in Nat /\ Len(open) \in Nat /\ i <= Len(open)
      BY DEF Reports, TypeOK
    <3>3. PlaceIn(forge, open, i) <= PlaceIn(forge, open, Len(open))
      BY <3>2, PlaceOrder
    <3>4. ~(PlaceIn(forge, open, Len(open)) > w.page * PageSize)
      BY <1>7, PlaceIs DEF NextLink, Length
    <3>5. PlaceIn(forge, open, i) \in Nat /\ PlaceIn(forge, open, Len(open)) \in Nat
      BY <3>2, ListedFinite
    <3>6. QED BY <1>2, <3>1, <3>3, <3>4, <3>5
  <2>3. QED BY <1>3, <2>1, <2>2 DEF LeftNothing
<1>8. QED BY <1>1, <1>5, <1>6, <1>7

LEMMA OpenLeftNothing ==
    ASSUME TypeOK, NEW s \in Sweeps, LeftNothing(s), SomeoneOpens
    PROVE  LeftNothing(s)'
<1>1. PICK kind \in {"issue", "request"} : Opens(kind)
  BY DEF SomeoneOpens
<1>2. forge' = forge /\ walk' = walk
  BY DEF SomeoneOpens
<1>3. /\ Len(open') = Len(open) + 1 /\ Len(open) \in Nat
      /\ open'[1] = kind /\ \A i \in 1 .. Len(open) : open'[i + 1] = open[i]
  BY <1>1, OpensInFront DEF TypeOK, Kind
<1>4. ASSUME NEW i \in Reports'
      PROVE  i - 1 \in Reports /\ i \in Nat /\ i - 1 \in 1 .. Len(open)
  <2>1. i \in 1 .. Len(open) + 1 /\ open'[i] = "report"
    BY <1>3 DEF Reports
  <2>2. i # 1
    BY <1>3, <2>1
  <2>3. i - 1 \in 1 .. Len(open) /\ (i - 1) + 1 = i
    BY <1>3, <2>1, <2>2
  <2>4. open[i - 1] = "report"
    BY <1>3, <2>1, <2>3
  <2>5. QED BY <2>1, <2>3, <2>4 DEF Reports
<1>5. ASSUME NEW i \in Reports', (walk[s].page - 1) * PageSize < Place(i - 1)
      PROVE  (walk[s].page - 1) * PageSize < Place(i)'
  <2>1. i - 1 \in 1 .. Len(open) /\ (i - 1) + 1 = i /\ i \in Nat
    BY <1>4
  <2>2. PlaceIn(forge, open, i - 1) <= PlaceIn(forge, open', (i - 1) + 1)
    BY <1>3, <2>1, PlaceMovesOn
  <2>3. /\ PlaceIn(forge, open, i - 1) \in Nat /\ PlaceIn(forge, open', i) \in Nat
        /\ (walk[s].page - 1) * PageSize \in Int
    <3>1. walk[s].page - 1 \in Int /\ PageSize \in Int
      BY ReportAssumption DEF TypeOK, Walk
    <3>2. i - 1 \in Nat
      BY <2>1
    <3>3. QED BY <2>1, <3>1, <3>2, ListedFinite
  <2>4. (walk[s].page - 1) * PageSize < PlaceIn(forge, open, i - 1)
    BY <1>5, PlaceIs
  <2>5. (walk[s].page - 1) * PageSize < PlaceIn(forge, open', i)
    BY <2>1, <2>2, <2>3, <2>4
  <2>6. QED BY <1>2, <2>5, PlaceIs
<1>6. QED BY <1>2, <1>4, <1>5 DEF LeftNothing

LEMMA WalkStep == TypeOK /\ WalkInv /\ [Next]_vars => WalkInv'
<1> SUFFICES ASSUME TypeOK, WalkInv, [Next]_vars PROVE WalkInv'
  OBVIOUS
<1>1. /\ walk \in [Sweeps -> Walk] /\ Serial /\ \A s \in Sweeps : LeftNothing(s)
      /\ \A s \in Sweeps : walk[s].under \subseteq {"closed", "filed"}
  BY DEF TypeOK, WalkInv, Walk
<1>2. ASSUME NEW s \in Sweeps, Start(s)
      PROVE  WalkInv'
  <2>1. /\ walk'[s] = [Idle EXCEPT !.stage = "page"]
        /\ \A t \in Sweeps : t # s => walk'[t] = walk[t]
        /\ UNCHANGED <<forge, open>>
        /\ forge = "github" => \A t \in Sweeps : ~Walking(t)
    BY <1>1, <1>2 DEF Start, Becomes
  <2>2. walk'[s].under = {}
    BY <2>1 DEF Idle
  <2>3. Serial'
    BY <1>1, <2>1, <2>2 DEF Serial, Walking
  <2>4. ASSUME NEW t \in Sweeps
        PROVE  LeftNothing(t)'
    BY <1>1, <1>2, <2>1, StartLeftNothing, SameLeftNothing
  <2>5. QED BY <2>3, <2>4 DEF WalkInv
<1>3. ASSUME NEW s \in Sweeps, ReadPage(s)
      PROVE  WalkInv'
  <2>1. /\ Walking(s) /\ UNCHANGED <<forge, open>>
        /\ \A t \in Sweeps : t # s => walk'[t] = walk[t]
    BY <1>3, ReadPageIs DEF Walking
  <2>2. walk'[s].under \subseteq walk[s].under
    <3> DEFINE w == walk[s]
               b == w.found \/ ReportOnPage(w.page)
    <3>1. /\ w \in Walk
          /\ \/ walk'[s] = Idle
             \/ walk'[s] = [w EXCEPT !.page = @ + 1, !.found = b]
             \/ walk'[s] = [w EXCEPT !.stage = "write", !.found = b]
      BY <1>3, ReadPageIs
    <3> HIDE DEF b
    <3>2. CASE walk'[s] = Idle
      BY <3>2 DEF Idle
    <3>3. CASE walk'[s] = [w EXCEPT !.page = @ + 1, !.found = b]
      <4>1. walk'[s].under = w.under
        BY <3>1, <3>3 DEF Walk
      <4>2. QED BY <4>1
    <3>4. CASE walk'[s] = [w EXCEPT !.stage = "write", !.found = b]
      <4>1. walk'[s].under = w.under
        BY <3>1, <3>4 DEF Walk
      <4>2. QED BY <4>1
    <3>5. QED BY <3>1, <3>2, <3>3, <3>4
  <2>3. Serial'
    BY <1>1, <2>1, <2>2 DEF Serial, Walking
  <2>4. ASSUME NEW t \in Sweeps
        PROVE  LeftNothing(t)'
    BY <1>1, <1>3, <2>1, ReadLeftNothing, SameLeftNothing
  <2>5. QED BY <2>3, <2>4 DEF WalkInv
<1>4. ASSUME NEW s \in Sweeps, Update(s) \/ CallFails(s)
      PROVE  WalkInv'
  <2>1. /\ walk'[s] = Idle /\ UNCHANGED <<forge, open>>
        /\ \A t \in Sweeps : t # s => walk'[t] = walk[t]
    BY <1>1, <1>4 DEF Update, CallFails, Becomes
  <2>2. walk'[s].stage = "idle" /\ walk'[s].under = {}
    BY <2>1 DEF Idle
  <2>3. Serial'
    BY <1>1, <2>1, <2>2 DEF Serial, Walking
  <2>4. ASSUME NEW t \in Sweeps
        PROVE  LeftNothing(t)'
    BY <1>1, <2>1, <2>2, IdleLeftNothing, SameLeftNothing
  <2>5. QED BY <2>3, <2>4 DEF WalkInv
<1>5. ASSUME NEW s \in Sweeps, Create(s)
      PROVE  WalkInv'
  <2>1. /\ walk'[s] = Idle /\ Walking(s) /\ forge' = forge
        /\ \A t \in Sweeps : t # s => walk'[t] = Meets(walk[t], "filed")
    BY <1>5 DEF Create, Walking
  <2>2. walk'[s].stage = "idle" /\ walk'[s].under = {}
    BY <2>1 DEF Idle
  <2>3. ASSUME NEW t \in Sweeps
        PROVE  LeftNothing(t)'
    BY <2>1, <2>2, IdleLeftNothing, MetLeftNothing
  <2>4. ASSUME forge = "github", NEW t \in Sweeps
        PROVE  walk'[t].stage = "idle" /\ "filed" \notin walk'[t].under
    <3>1. t # s => ~Walking(t) /\ "filed" \notin walk[t].under
      BY <1>1, <2>1, <2>4 DEF Serial
    <3>2. QED BY <2>1, <2>2, <3>1 DEF Walking, Meets
  <2>5. Serial'
    BY <2>1, <2>4 DEF Serial, Walking
  <2>6. QED BY <2>3, <2>5 DEF WalkInv
<1>6. CASE SomeoneOpens
  <2>1. Serial'
    BY <1>1, <1>6 DEF SomeoneOpens, Serial, Walking
  <2>2. QED BY <1>1, <1>6, <2>1, OpenLeftNothing DEF WalkInv
<1>7. CASE SomeoneCloses
  <2>1. forge' = forge /\ \A t \in Sweeps : walk'[t] = Meets(walk[t], "closed")
    BY <1>7 DEF SomeoneCloses
  <2>2. ASSUME NEW t \in Sweeps
        PROVE  LeftNothing(t)' /\ walk'[t].stage = walk[t].stage
    BY <2>1, MetLeftNothing
  <2>3. ASSUME NEW t \in Sweeps, "filed" \notin walk[t].under
        PROVE  "filed" \notin walk'[t].under
    <3>1. walk[t] \in Walk
      BY <1>1
    <3>2. CASE walk[t].stage = "idle"
      BY <2>1, <2>3, <3>2 DEF Meets
    <3>3. CASE walk[t].stage # "idle"
      <4>1. walk'[t] = [walk[t] EXCEPT !.under = @ \cup {"closed"}]
        BY <2>1, <3>3 DEF Meets
      <4>2. walk'[t].under = walk[t].under \cup {"closed"}
        BY <3>1, <4>1 DEF Walk
      <4>3. QED BY <2>3, <4>2
    <3>4. QED BY <3>2, <3>3
  <2>4. Serial'
    BY <1>1, <2>1, <2>2, <2>3 DEF Serial, Walking
  <2>5. QED BY <2>2, <2>4 DEF WalkInv
<1>8. CASE UNCHANGED vars
  <2>1. Serial'
    BY <1>1, <1>8 DEF vars, Serial, Walking
  <2>2. QED BY <1>1, <1>8, <2>1, SameLeftNothing DEF vars, WalkInv
<1>9. QED BY <1>2, <1>3, <1>4, <1>5, <1>6, <1>7, <1>8 DEF Next, Sweep

\* "Idempotent per exact title match", as far as it goes: for any page size, cap,
\* number of sweeps and of items, and whatever is opened while the pages are
\* walked and whichever calls fail, a second report is filed only by a walk under
\* which an item was closed or, on GitLab, another sweep filed one.
THEOREM SecondReportOnlySo == Spec => OneReport
<1>1. Init => WalkInv
  <2> SUFFICES ASSUME Init PROVE WalkInv
    OBVIOUS
  <2>1. \A s \in Sweeps : walk[s].stage = "idle" /\ walk[s].under = {}
    BY DEF Init, Idle
  <2>2. QED BY <2>1 DEF WalkInv, Serial, Walking, LeftNothing
<1>2. ASSUME TypeOK, WalkInv, NEW s \in Sweeps, Create(s), Reports # {}
      PROVE  "closed" \in walk[s].under \/ (forge = "gitlab" /\ "filed" \in walk[s].under)
  <2>1. walk[s].stage = "write" /\ ~walk[s].found
    BY <1>2 DEF Create
  <2>2. walk[s].under # {}
    BY <1>2, <2>1 DEF WalkInv, LeftNothing
  <2>3. walk[s].under \subseteq {"closed", "filed"} /\ forge \in {"github", "gitlab"}
    BY <1>2 DEF TypeOK, Walk
  <2>4. QED BY <1>2, <2>2, <2>3 DEF WalkInv, Serial
<1>3. TypeOK /\ WalkInv /\ [Next]_vars =>
        [\A s \in Sweeps :
            Create(s) /\ Reports # {} =>
                \/ "closed" \in walk[s].under
                \/ forge = "gitlab" /\ "filed" \in walk[s].under]_vars
  BY <1>2
<1>4. QED BY <1>1, <1>3, TypeInit, TypeStep, WalkStep, PTL DEF Spec, OneReport
=============================================================================
