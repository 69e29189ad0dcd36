------------------------ MODULE RegistryClient_proofs ------------------------
(***************************************************************************)
(* Proofs about the registry client, for any registries, digests, limits    *)
(* and delays.                                                              *)
(***************************************************************************)
EXTENDS RegistryClient, FiniteSetTheorems, WellFoundedInduction, TLAPS

-----------------------------------------------------------------------------
(* Powers of two.  Doubled is defined by recursion, so that it is a function *)
(* of naturals at all has to be proved, by induction.                       *)

\* Induction over the naturals, said of a set.
LEMMA Induction ==
    ASSUME NEW S, 0 \in S, \A n \in Nat : n \in S => n + 1 \in S
    PROVE  \A n \in Nat : n \in S
<1> DEFINE Below == OpToRel(<, Nat)
           Others == Nat \ S
<1>1. SUFFICES ASSUME Others # {} PROVE FALSE
  OBVIOUS
<1>2. IsWellFoundedOn(Below, Nat)
  BY NatLessThanWellFounded
<1>3. \A m, n \in Nat : m < n => <<m, n>> \in Below
  BY DEF OpToRel
<1> HIDE DEF Below
<1>4. PICK n \in Others : \A m \in Others : <<m, n>> \notin Below
  BY <1>1, <1>2, WFMin
<1>5. n # 0 /\ n - 1 \in Nat /\ n - 1 < n
  BY <1>4
<1>6. n - 1 \in S
  BY <1>3, <1>4, <1>5
<1>7. QED BY <1>4, <1>5, <1>6

\* The beginning of the recursion, up to top.
Doubles(f, top) == \A n \in 0 .. top : f[n] = IF n = 0 THEN 1 ELSE 2 * f[n - 1]

LEMMA DoublesExists == \A top \in Nat : \E f \in [0 .. top -> Nat] : Doubles(f, top)
<1> DEFINE Good == {top \in Nat : \E f \in [0 .. top -> Nat] : Doubles(f, top)}
<1>1. 0 \in Good
  <2>1. [n \in 0 .. 0 |-> 1] \in [0 .. 0 -> Nat] /\ Doubles([n \in 0 .. 0 |-> 1], 0)
    BY DEF Doubles
  <2>2. QED BY <2>1
<1>2. ASSUME NEW top \in Nat, top \in Good PROVE top + 1 \in Good
  <2>1. PICK f \in [0 .. top -> Nat] : Doubles(f, top)
    BY <1>2
  <2> DEFINE g == [n \in 0 .. top + 1 |-> IF n = top + 1 THEN 2 * f[top] ELSE f[n]]
  <2>2. g \in [0 .. top + 1 -> Nat]
    BY <2>1
  <2>3. ASSUME NEW n \in 0 .. top + 1 PROVE g[n] = IF n = 0 THEN 1 ELSE 2 * g[n - 1]
    <3>1. CASE n = top + 1
      BY <3>1
    <3>2. CASE n # top + 1
      <4>1. n \in 0 .. top /\ (n # 0 => n - 1 \in 0 .. top + 1 /\ n - 1 # top + 1)
        BY <3>2
      <4>2. g[n] = f[n] /\ (n # 0 => g[n - 1] = f[n - 1])
        BY <4>1
      <4>3. f[n] = IF n = 0 THEN 1 ELSE 2 * f[n - 1]
        BY <2>1, <4>1 DEF Doubles
      <4>4. QED BY <4>2, <4>3
    <3>3. QED BY <3>1, <3>2
  <2> HIDE DEF g
  <2>4. Doubles(g, top + 1)
    BY <2>3 DEF Doubles
  <2>5. QED BY <2>2, <2>4
<1> HIDE DEF Good
<1>3. \A n \in Nat : n \in Good
  BY <1>1, <1>2, Induction
<1>4. QED BY <1>3 DEF Good

LEMMA DoublesUnique ==
    ASSUME NEW M \in Nat, NEW N \in Nat, NEW f, NEW g, Doubles(f, M), Doubles(g, N),
           NEW i \in Nat, i <= M, i <= N
    PROVE  f[i] = g[i]
<1> DEFINE Same == {n \in Nat : n <= M /\ n <= N => f[n] = g[n]}
<1>1. 0 \in Same
  BY DEF Doubles
<1>2. ASSUME NEW n \in Nat, n \in Same PROVE n + 1 \in Same
  <2>1. SUFFICES ASSUME n + 1 <= M, n + 1 <= N PROVE f[n + 1] = g[n + 1]
    OBVIOUS
  <2>2. f[n] = g[n]
    BY <1>2, <2>1
  <2>3. n + 1 \in 0 .. M /\ n + 1 \in 0 .. N /\ n + 1 # 0 /\ (n + 1) - 1 = n
    BY <2>1
  <2>4. f[n + 1] = 2 * f[n] /\ g[n + 1] = 2 * g[n]
    BY <2>3 DEF Doubles
  <2>5. QED BY <2>2, <2>4
<1> HIDE DEF Same
<1>3. i \in Same
  BY <1>1, <1>2, Induction
<1>4. QED BY <1>3 DEF Same

\* There is a function that satisfies the recursion, so Doubled does.
LEMMA DoubledRecurs == Doubled = [n \in Nat |-> IF n = 0 THEN 1 ELSE 2 * Doubled[n - 1]]
<1> DEFINE Part(top) == CHOOSE f \in [0 .. top -> Nat] : Doubles(f, top)
           Whole == [n \in Nat |-> Part(n)[n]]
<1>1. \A top \in Nat : Part(top) \in [0 .. top -> Nat] /\ Doubles(Part(top), top)
  BY DoublesExists
<1> HIDE DEF Part
<1>2. ASSUME NEW n \in Nat PROVE Whole[n] = IF n = 0 THEN 1 ELSE 2 * Whole[n - 1]
  <2>1. Part(n)[n] = IF n = 0 THEN 1 ELSE 2 * Part(n)[n - 1]
    BY <1>1 DEF Doubles
  <2>2. ASSUME n # 0 PROVE Part(n)[n - 1] = Part(n - 1)[n - 1]
    <3>1. n - 1 \in Nat
      BY <2>2
    <3>2. Doubles(Part(n), n) /\ Doubles(Part(n - 1), n - 1)
      BY <1>1, <3>1
    <3>3. QED BY <3>1, <3>2, DoublesUnique
  <2>3. QED BY <2>1, <2>2
<1>3. Whole = [n \in Nat |-> IF n = 0 THEN 1 ELSE 2 * Whole[n - 1]]
  BY <1>2
<1> HIDE DEF Whole
<1>4. QED BY <1>3 DEF Doubled

LEMMA DoubledType == \A n \in Nat : Doubled[n] \in Nat
<1> DEFINE Good == {n \in Nat : Doubled[n] \in Nat}
<1>1. 0 \in Good
  BY DoubledRecurs
<1>2. ASSUME NEW n \in Nat, n \in Good PROVE n + 1 \in Good
  <2>1. n + 1 \in Nat /\ n + 1 # 0 /\ (n + 1) - 1 = n
    OBVIOUS
  <2>2. Doubled[n + 1] = 2 * Doubled[n]
    BY <2>1, DoubledRecurs
  <2>3. QED BY <1>2, <2>2
<1> HIDE DEF Good
<1>3. \A n \in Nat : n \in Good
  BY <1>1, <1>2, Induction
<1>4. QED BY <1>3 DEF Good

\* What the registry asked for, or a jittered share of at most the cap.
LEMMA DelayBounds ==
    ASSUME NEW attempt \in Nat \ {0}, NEW jitter \in Jitters, NEW retryAfter \in Nat
    PROVE  /\ Delay(attempt, jitter, retryAfter) \in Nat
           /\ Delay(attempt, jitter, retryAfter) >= 100 * retryAfter
           /\ Delay(attempt, jitter, retryAfter) <= 100 * retryAfter + MaxDelay * 150
<1> DEFINE backoff == Smaller(MaxDelay, BaseDelay * Doubled[attempt - 1])
<1>1. MaxDelay \in Nat /\ BaseDelay \in Nat /\ jitter \in 0 .. 99
  BY RegistryAssumption
<1>2. backoff \in Nat /\ backoff <= MaxDelay
  <2>1. attempt - 1 \in Nat
    OBVIOUS
  <2>2. Doubled[attempt - 1] \in Nat
    BY <2>1, DoubledType
  <2>3. BaseDelay * Doubled[attempt - 1] \in Nat
    BY <1>1, <2>2
  <2>4. QED BY <1>1, <2>3 DEF Smaller
<1>3. Delay(attempt, jitter, retryAfter)
        = IF retryAfter > 0 THEN 100 * retryAfter ELSE backoff * (50 + jitter)
  BY DEF Delay
<1> HIDE DEF backoff
<1>4. backoff * (50 + jitter) \in Nat /\ backoff * (50 + jitter) <= backoff * 150
  BY <1>1, <1>2
<1>5. backoff * 150 <= MaxDelay * 150
  BY <1>1, <1>2
<1>6. MaxDelay * 150 \in Nat
  BY <1>1
<1> DEFINE jittered == backoff * (50 + jitter)
           cap == MaxDelay * 150
<1>7. jittered \in Nat /\ cap \in Nat /\ jittered <= cap
  BY <1>2, <1>4, <1>5, <1>6
<1>8. Delay(attempt, jitter, retryAfter) = IF retryAfter > 0 THEN 100 * retryAfter ELSE jittered
  BY <1>3
<1> HIDE DEF jittered, cap
<1>9. /\ Delay(attempt, jitter, retryAfter) \in Nat
      /\ Delay(attempt, jitter, retryAfter) >= 100 * retryAfter
      /\ Delay(attempt, jitter, retryAfter) <= 100 * retryAfter + cap
  BY <1>7, <1>8
<1>10. QED BY <1>9 DEF cap

-----------------------------------------------------------------------------
(* Types.                                                                  *)

Refs == Digests \cup {NoDigest}

LogShape ==
    /\ log = [faults |-> log.faults, asked |-> log.asked, waited |-> log.waited,
              absent |-> log.absent, descs |-> log.descs, lapsed |-> log.lapsed]
    /\ log.faults \in Nat /\ log.asked \in Nat /\ log.waited \in Nat
    /\ log.absent \in BOOLEAN /\ log.descs \in SUBSET Refs /\ log.lapsed \in BOOLEAN

Shape ==
    /\ tokens \in [Repos -> {"none", "good", "lapsed"}]
    /\ req \in Request
    /\ got \in Response
    /\ truth \in [held : BOOLEAN, desc : Refs]
    /\ LogShape
    /\ req.stage = "idle" => req = IdleRequest
    /\ req.stage # "idle" => outcome = NoOutcome

LEMMA Ranges ==
    /\ MaxAttempts \in Nat /\ MaxRedirects \in Nat /\ MaxPages \in Nat
    /\ 1 \in 1 .. MaxAttempts /\ 0 \in 0 .. MaxRedirects /\ 1 \in 1 .. MaxPages
  BY RegistryAssumption

LEMMA IdleType ==
    /\ IdleRequest \in Request /\ NoResponse \in Response
<1>1. (CHOOSE r \in Repos : TRUE) \in Repos /\ (CHOOSE d \in Digests : TRUE) \in Digests
  BY RegistryAssumption
<1>2. QED BY <1>1, Ranges DEF IdleRequest, NoResponse, Request, Response, Op, Resource, Status,
                      NextLinks

LEMMA IdleFields ==
    /\ IdleRequest.stage = "idle" /\ IdleRequest.authRetried = FALSE
    /\ IdleRequest.op = "list_tags" /\ IdleRequest.get = "tags"
    /\ NoResponse.status = "ok" /\ NoResponse.unknown = FALSE /\ NoResponse.header = NoDigest
<1> DEFINE r == CHOOSE q \in Repos : TRUE
           d == CHOOSE e \in Digests : TRUE
           idle == [stage |-> "idle", op |-> "list_tags", repo |-> r, get |-> "tags",
                    ref |-> NoDigest, attempt |-> 1, authRetried |-> FALSE, hops |-> 0, page |-> 1,
                    desc |-> NoDigest, seen |-> NoDigest, left |-> 0]
           none == [status |-> "ok", located |-> FALSE, body |-> d, header |-> NoDigest,
                    unknown |-> FALSE, next |-> "none"]
<1>1. IdleRequest = idle /\ NoResponse = none
  BY DEF IdleRequest, NoResponse
<1> HIDE DEF r, d
<1>2. /\ idle.stage = "idle" /\ idle.authRetried = FALSE /\ idle.op = "list_tags"
      /\ idle.get = "tags"
      /\ none.status = "ok" /\ none.unknown = FALSE /\ none.header = NoDigest
  OBVIOUS
<1>3. QED BY <1>1, <1>2

-----------------------------------------------------------------------------
(* What the actions do, whichever they are.                                *)

\* A read that ends forgets the request and says of what manifest it spoke.
LEMMA EndsEffect ==
    ASSUME NEW result, NEW why, Ends(result, why)
    PROVE  /\ outcome'.why = why
           /\ outcome'.result = SeenBy(req.op, result)
           /\ result \in {"confirmed", "mismatch"} => outcome'.of = got.body
           /\ result = "changed" => outcome'.of = req.seen /\ outcome'.digest = req.desc
           /\ req' = IdleRequest /\ got' = NoResponse
           /\ req'.stage = "idle"
  BY IdleFields DEF Ends

LEMMA EndsShape ==
    ASSUME Shape, NEW result, NEW why, Ends(result, why), LogShape', UNCHANGED truth,
           tokens' \in [Repos -> {"none", "good", "lapsed"}]
    PROVE  Shape'
  BY IdleType, IdleFields, EndsEffect DEF Shape

LEMMA AnotherShape ==
    ASSUME Shape, NEW next \in Request, Another(next), req.stage # "idle", UNCHANGED <<tokens, truth>>
    PROVE  Shape'
<1>1. req' \in Request /\ req'.stage = "send"
  BY Ranges DEF Another, Request
<1>2. LogShape'
  BY DEF Another, Shape, LogShape
<1>3. QED BY <1>1, <1>2, IdleType DEF Another, Shape

LEMMA RetryShape ==
    ASSUME Shape, req.stage \in {"send", "token"}, NEW retryAfter \in Nat, Retry(retryAfter),
           UNCHANGED <<tokens, truth>>
    PROVE  Shape'
<1>1. CASE Spent /\ log' = [log EXCEPT !.faults = @ + 1] /\ Ends("TransientError", "exhausted")
  <2>1. LogShape'
    BY <1>1 DEF Shape, LogShape
  <2>2. QED BY <1>1, <2>1, EndsShape DEF Shape
<1>2. CASE /\ ~Spent
           /\ \E jitter \in Jitters :
                 log' = [log EXCEPT !.faults = @ + 1, !.asked = @ + 100 * retryAfter,
                                    !.waited = @ + Delay(req.attempt, jitter, retryAfter)]
           /\ req' = [req EXCEPT !.stage = "send", !.attempt = @ + 1]
           /\ UNCHANGED <<got, outcome>>
  <2>1. LogShape'
    <3>1. PICK jitter \in Jitters :
                 log' = [log EXCEPT !.faults = @ + 1, !.asked = @ + 100 * retryAfter,
                                    !.waited = @ + Delay(req.attempt, jitter, retryAfter)]
      BY <1>2
    <3> DEFINE asked == log.asked + 100 * retryAfter
               waited == log.waited + Delay(req.attempt, jitter, retryAfter)
    <3>2. asked \in Nat
      BY DEF Shape, LogShape
    <3>3. log' = [log EXCEPT !.faults = @ + 1, !.asked = asked, !.waited = waited]
      BY <3>1
    <3> HIDE DEF asked, waited
    <3>4. LogShape
      BY DEF Shape
    <3>5. log.faults + 1 \in Nat
      BY <3>4 DEF LogShape
    <3>6. log' = [faults |-> log.faults + 1, asked |-> asked, waited |-> waited,
                  absent |-> log.absent, descs |-> log.descs, lapsed |-> log.lapsed]
      BY <3>3, <3>4 DEF LogShape
    <3>7. waited \in Nat
      <4>1. req.attempt \in Nat \ {0}
        BY Ranges DEF Shape, Request
      <4>2. Delay(req.attempt, jitter, retryAfter) \in Nat
        BY <4>1, DelayBounds
      <4>3. QED BY <3>4, <4>2 DEF waited, LogShape
    <3>8. QED BY <3>2, <3>4, <3>5, <3>6, <3>7 DEF LogShape
  <2>2. req' \in Request /\ req'.stage = "send"
    <3>1. req \in Request /\ req' = [req EXCEPT !.stage = "send", !.attempt = @ + 1]
      BY <1>2 DEF Shape
    <3>2. req.attempt + 1 \in 1 .. MaxAttempts
      BY <1>2, <3>1, Ranges DEF Request, Spent
    <3>3. QED BY <3>1, <3>2 DEF Request
  <2>3. QED BY <1>2, <2>1, <2>2 DEF Shape
<1>3. QED BY <1>1, <1>2 DEF Retry

LEMMA EndsQuietlyShape ==
    ASSUME Shape, NEW result, NEW why, Ends(result, why), UNCHANGED <<tokens, truth, log>>
    PROVE  Shape'
<1>1. LogShape'
  BY DEF Shape, LogShape
<1>2. QED BY <1>1, EndsShape DEF Shape

LEMMA ConcludesShape ==
    ASSUME Shape, NEW result, Concludes(result), UNCHANGED <<tokens, truth>>
    PROVE  Shape'
  BY EndsQuietlyShape DEF Concludes

\* The next request of a read, whichever it is.
LEMMA NextRequest ==
    ASSUME Shape
    PROVE  /\ req.page < MaxPages => [req EXCEPT !.page = @ + 1] \in Request
           /\ \A d \in Refs : [req EXCEPT !.get = "description", !.desc = d] \in Request
           /\ \A d \in Refs : [req EXCEPT !.get = "digest", !.ref = d] \in Request
           /\ \A n \in Nat : [req EXCEPT !.get = "tag", !.left = n] \in Request
           /\ req.left # 0 => [req EXCEPT !.left = @ - 1] \in Request
           /\ \A d \in Digests, e \in Refs, n \in Nat :
                 [req EXCEPT !.get = "blob", !.ref = d, !.seen = e, !.left = n] \in Request
<1>1. req \in Request
  BY DEF Shape
<1>2. ASSUME req.page < MaxPages PROVE [req EXCEPT !.page = @ + 1] \in Request
  <2>1. req.page + 1 \in 1 .. MaxPages
    BY <1>1, <1>2, Ranges DEF Request
  <2>2. QED BY <1>1, <2>1 DEF Request
<1>3. ASSUME NEW d \in Refs PROVE [req EXCEPT !.get = "description", !.desc = d] \in Request
  BY <1>1 DEF Request, Resource, Refs
<1>4. ASSUME NEW d \in Refs PROVE [req EXCEPT !.get = "digest", !.ref = d] \in Request
  BY <1>1 DEF Request, Resource, Refs
<1>5. ASSUME NEW n \in Nat PROVE [req EXCEPT !.get = "tag", !.left = n] \in Request
  BY <1>1 DEF Request, Resource
<1>6. ASSUME req.left # 0 PROVE [req EXCEPT !.left = @ - 1] \in Request
  BY <1>1, <1>6 DEF Request
<1>7. ASSUME NEW d \in Digests, NEW e \in Refs, NEW n \in Nat
      PROVE  [req EXCEPT !.get = "blob", !.ref = d, !.seen = e, !.left = n] \in Request
  BY <1>1 DEF Request, Resource, Refs
<1>8. QED BY <1>2, <1>3, <1>4, <1>5, <1>6, <1>7

LEMMA DeliverTagsShape == ASSUME Shape, DeliverTags PROVE Shape'
<1>1. req.stage # "idle" /\ UNCHANGED <<tokens, truth>>
  BY DEF DeliverTags, Received
<1>2. ASSUME Sweep PROVE Shape'
  <2>1. PICK n \in 0 .. MaxListed :
            IF n = 0 THEN Concludes("value") ELSE Another([req EXCEPT !.get = "tag", !.left = n - 1])
    BY <1>2 DEF Sweep
  <2>2. CASE n = 0
    BY <1>1, <2>1, <2>2, ConcludesShape
  <2>3. CASE n # 0
    <3>1. n - 1 \in Nat
      BY <2>3, RegistryAssumption
    <3>2. QED BY <1>1, <2>1, <2>3, <3>1, NextRequest, AnotherShape
  <2>4. QED BY <2>2, <2>3
<1>3. QED BY <1>1, <1>2, ConcludesShape, EndsQuietlyShape, NextRequest, AnotherShape DEF DeliverTags

LEMMA DeliverManifestShape == ASSUME Shape, DeliverManifest PROVE Shape'
<1>1. req.stage # "idle" /\ UNCHANGED <<tokens, truth>>
  BY DEF DeliverManifest, Received
<1>2. ASSUME ObserveNext PROVE Shape'
  BY <1>1, <1>2, ConcludesShape, NextRequest, AnotherShape DEF ObserveNext
<1>3. QED BY <1>1, <1>2, ConcludesShape DEF DeliverManifest

LEMMA DeliverDescShape == ASSUME Shape, DeliverDesc PROVE Shape'
<1>1. req.stage # "idle" /\ UNCHANGED <<tokens, truth>>
  BY DEF DeliverDesc, Received
<1>2. ASSUME NEW digest \in Refs, CheckDescChange(digest) PROVE Shape'
  BY <1>1, <1>2, ConcludesShape, NextRequest, AnotherShape DEF CheckDescChange
<1>3. got.header \in Refs /\ NoDigest \in Refs
  BY DEF Shape, Response, Refs
<1>4. QED BY <1>1, <1>2, <1>3, ConcludesShape, NextRequest, AnotherShape DEF DeliverDesc

LEMMA FetchLayerShape ==
    ASSUME Shape, req.stage # "idle", UNCHANGED <<tokens, truth>>,
           NEW seen \in Refs, NEW left \in Nat, FetchLayer(seen, left)
    PROVE  Shape'
<1>1. CASE left = 0
  BY <1>1, ConcludesShape DEF FetchLayer
<1>2. CASE left # 0
  <2>1. PICK d \in Digests :
            Another([req EXCEPT !.get = "blob", !.ref = d, !.seen = seen, !.left = left - 1])
    BY <1>2 DEF FetchLayer
  <2>2. left - 1 \in Nat
    BY <1>2
  <2>3. QED BY <2>1, <2>2, NextRequest, AnotherShape
<1>3. QED BY <1>1, <1>2

LEMMA LayersCounted == ASSUME NEW d \in Digests PROVE Cardinality(Layers[d]) \in Nat
<1>1. Layers[d] \in SUBSET {"readme", "logo"}
  BY RegistryAssumption
<1>2. IsFiniteSet({"readme", "logo"})
  <2>1. IsFiniteSet({"readme"}) /\ {"readme", "logo"} = {"readme"} \cup {"logo"}
    BY FS_Singleton
  <2>2. QED BY <2>1, FS_AddElement
<1>3. IsFiniteSet(Layers[d])
  BY <1>1, <1>2, FS_Subset
<1>4. QED BY <1>3, FS_CardinalityType

LEMMA DeliverDescriptionShape == ASSUME Shape, DeliverDescription PROVE Shape'
<1>1. req.stage # "idle" /\ UNCHANGED <<tokens, truth>>
  BY DEF DeliverDescription, Received
<1>2. got.body \in Digests /\ got.body \in Refs /\ Cardinality(Layers[got.body]) \in Nat
  BY LayersCounted DEF Shape, Response, Refs
<1>3. QED BY <1>1, <1>2, ConcludesShape, FetchLayerShape DEF DeliverDescription

LEMMA DeliverBlobShape == ASSUME Shape, DeliverBlob PROVE Shape'
<1>1. req.stage # "idle" /\ UNCHANGED <<tokens, truth>>
  BY DEF DeliverBlob, Received
<1>2. req.seen \in Refs /\ req.left \in Nat
  BY DEF Shape, Request, Refs
<1>3. QED BY <1>1, <1>2, ConcludesShape, FetchLayerShape DEF DeliverBlob

\* What a server can answer.
LEMMA AnswersType ==
    ASSUME Shape
    PROVE  /\ Redirects \subseteq Response /\ Contents \subseteq Response
           /\ Missing \subseteq Response
           /\ \A s : Refusals(s) \subseteq {[NoResponse EXCEPT !.status = t] : t \in s}
           /\ Refusals({"refused"}) \subseteq Response
           /\ Refusals({"unauthorized", "denied", "retryable", "refused"}) \subseteq Response
<1>1. Redirects \subseteq Response
  <2>1. ASSUME NEW l \in BOOLEAN
        PROVE  [NoResponse EXCEPT !.status = "redirect", !.located = l] \in Response
    BY IdleType DEF Response, Status
  <2>2. QED BY <2>1 DEF Redirects
<1>2. Bodies \subseteq Response
  <2>1. ASSUME NEW b \in Digests, NEW h \in Digests \cup {NoDigest}
        PROVE  [NoResponse EXCEPT !.body = b, !.header = h] \in Response
    BY IdleType DEF Response
  <2>2. ASSUME NEW r \in Bodies PROVE r \in Response
    <3>1. PICK b \in Digests, h \in Digests \cup {NoDigest} :
              r = [NoResponse EXCEPT !.body = b, !.header = h]
      BY <2>2 DEF Bodies
    <3>2. QED BY <2>1, <3>1
  <2>3. QED BY <2>2
<1>3. Missing \subseteq Response
  <2>1. ASSUME NEW u \in BOOLEAN
        PROVE  [NoResponse EXCEPT !.status = "missing", !.unknown = u] \in Response
    BY IdleType DEF Response, Status
  <2>2. QED BY <2>1 DEF Missing
<1>4. \A s : Refusals(s) \subseteq {[NoResponse EXCEPT !.status = t] : t \in s}
  BY DEF Refusals
<1>5. \A s \in SUBSET Status : Refusals(s) \subseteq Response
  BY IdleType DEF Refusals, Response
<1>6. {[NoResponse EXCEPT !.next = n] : n \in NextLinks} \subseteq Response
  BY IdleType DEF Response
<1>7. {[NoResponse EXCEPT !.body = b] : b \in Digests} \subseteq Response
  BY IdleType DEF Response
<1>8. {[NoResponse EXCEPT !.header = h] : h \in {truth.desc, NoDigest}} \subseteq Response
  BY IdleType DEF Response, Shape, Refs
<1>9. {r \in Bodies : r.body = truth.desc} \subseteq Response
  BY <1>2
<1>10. req.get \in Resource
  BY DEF Shape, Request
<1>11. Contents \subseteq Response
  BY <1>2, <1>6, <1>7, <1>8, <1>9, <1>10 DEF Contents, Resource
<1>12. {"refused"} \in SUBSET Status /\ {"unauthorized", "denied", "retryable", "refused"} \in SUBSET Status
  BY DEF Status
<1>13. QED BY <1>1, <1>3, <1>4, <1>5, <1>11, <1>12

LEMMA StageShape ==
    ASSUME Shape, req.stage # "idle", UNCHANGED <<truth, outcome, log>>,
           tokens' \in [Repos -> {"none", "good", "lapsed"}],
           got' \in Response, req' \in Request, req'.stage # "idle"
    PROVE  Shape'
  BY DEF Shape, LogShape

LEMMA ClientShape == ASSUME Shape, Client PROVE Shape'
<1>0. req \in Request /\ got \in Response /\ req.repo \in Repos
  BY DEF Shape, Request
<1>1. CASE TransportFails
  BY <1>1, RetryShape DEF TransportFails
<1>2. CASE Retryable
  BY <1>2, RetryShape, RegistryAssumption DEF Retryable
<1>3. CASE Unauthorized
  <2>1. CASE req.authRetried \/ Basic
    BY <1>3, <2>1, EndsQuietlyShape DEF Unauthorized
  <2>2. CASE ~(req.authRetried \/ Basic)
    <3>1. req' = [req EXCEPT !.stage = "token"] /\ req.stage = "send"
      BY <1>3, <2>2 DEF Unauthorized
    <3>2. req' \in Request /\ req'.stage = "token"
      BY <1>0, <3>1 DEF Request
    <3>3. QED BY <1>0, <1>3, <2>2, <3>1, <3>2, StageShape DEF Unauthorized, Shape
  <2>3. QED BY <2>1, <2>2
<1>4. CASE TokenIssued
  <2>1. req' \in Request /\ req'.stage = "send" /\ req.stage = "token"
    BY <1>0, <1>4 DEF TokenIssued, Request
  <2>2. tokens' \in [Repos -> {"none", "good", "lapsed"}]
    BY <1>0, <1>4 DEF TokenIssued, Shape
  <2>3. QED BY <1>0, <1>4, <2>1, <2>2, StageShape DEF TokenIssued
<1>5. CASE TokenDenied
  BY <1>5, EndsQuietlyShape DEF TokenDenied
<1>6. CASE TokenRefused
  BY <1>6, EndsQuietlyShape DEF TokenRefused
<1>7. CASE Denied
  BY <1>7, EndsQuietlyShape DEF Denied
<1>8. CASE Answered
  <2>1. got' \in Response
    BY <1>8, AnswersType DEF Answered
  <2>2. req' \in Request /\ req'.stage = "received" /\ req.stage = "send"
    BY <1>0, <1>8 DEF Answered, Request
  <2>3. QED BY <1>8, <2>1, <2>2, StageShape DEF Answered, Shape
<1>9. CASE Redirected
  <2>1. got' \in Response
    BY <1>9, AnswersType DEF Redirected
  <2>2. req' \in Request /\ req'.stage = "follow" /\ req.stage = "send"
    BY <1>0, <1>9, Ranges DEF Redirected, Request
  <2>3. QED BY <1>9, <2>1, <2>2, StageShape DEF Redirected, Shape
<1>10. CASE FollowEnds
  BY <1>10, EndsQuietlyShape DEF FollowEnds
<1>11. CASE Follow
  <2>1. got' \in Response
    BY <1>11, AnswersType DEF Follow
  <2>2. req' \in Request /\ req'.stage # "idle" /\ req.stage = "follow"
    <3>1. PICK stage \in {"follow", "received"} :
              req' = [req EXCEPT !.stage = stage, !.hops = @ + 1]
      BY <1>11 DEF Follow
    <3>2. req.hops + 1 \in 0 .. MaxRedirects
      BY <1>0, <1>11, Ranges DEF Follow, Request
    <3>3. req' \in Request /\ req'.stage = stage
      BY <1>0, <3>1, <3>2 DEF Request
    <3>4. QED BY <1>11, <3>3 DEF Follow
  <2>3. QED BY <1>11, <2>1, <2>2, StageShape DEF Follow, Shape
<1>12. CASE FollowBreaks
  BY <1>12, EndsQuietlyShape DEF FollowBreaks
<1>13. CASE RaiseForStatus
  BY <1>13, ConcludesShape DEF RaiseForStatus
<1>14. QED BY <1>1, <1>2, <1>3, <1>4, <1>5, <1>6, <1>7, <1>8, <1>9, <1>10, <1>11, <1>12, <1>13,
            DeliverTagsShape, DeliverManifestShape, DeliverDescShape, DeliverDescriptionShape,
            DeliverBlobShape DEF Client

LEMMA TargetType ==
    ASSUME NEW op \in Op, NEW t \in Target(op)
    PROVE  /\ t.get \in Resource /\ t.ref \in Refs
           /\ op = "check_tag_gone" => t.get = "tag"
           /\ op = "probe_ownership" => t.get = "desc"
           /\ op = "check_desc_change" => t.get = "desc"
           /\ t.get # "description" /\ (t.get = "blob" => op = "get_blob")
  BY DEF Target, Op, Resource, Refs

LEMMA HoldingsType ==
    ASSUME NEW get, NEW held \in Holdings(get)
    PROVE  held \in [held : BOOLEAN, desc : Refs]
  BY DEF Holdings, Refs

LEMMA StartEffect ==
    ASSUME NEW op \in Op, NEW repo \in Repos, Start(op, repo)
    PROVE  /\ req.stage = "idle"
           /\ req' \in Request /\ req'.stage = "send" /\ req'.op = op /\ req'.repo = repo
           /\ ~req'.authRetried /\ req'.attempt = 1
           /\ op = "check_tag_gone" => req'.get = "tag"
           /\ op = "probe_ownership" => req'.get = "desc"
           /\ op = "check_desc_change" => req'.get = "desc"
           /\ req'.get # "description" /\ (req'.get = "blob" => op = "get_blob")
           /\ truth' \in [held : BOOLEAN, desc : Refs]
           /\ log' = [faults |-> 0, asked |-> 0, waited |-> 0, absent |-> ~truth'.held,
                      descs |-> {truth'.desc}, lapsed |-> FALSE]
           /\ outcome' = NoOutcome /\ UNCHANGED <<tokens, got>>
<1>0. PICK t \in Target(op) : \E held \in Holdings(t.get) :
        \E committed \in IF op = "check_desc_change" THEN Digests \cup {NoDigest} ELSE {NoDigest} :
        /\ req' = [IdleRequest EXCEPT !.stage = "send", !.op = op, !.repo = repo,
                                      !.get = t.get, !.ref = t.ref, !.desc = committed]
        /\ truth' = held
        /\ log' = [EmptyLog EXCEPT !.absent = ~held.held, !.descs = {held.desc}]
  BY DEF Start
<1>1. PICK held \in Holdings(t.get),
           committed \in IF op = "check_desc_change" THEN Digests \cup {NoDigest} ELSE {NoDigest} :
        /\ req' = [IdleRequest EXCEPT !.stage = "send", !.op = op, !.repo = repo,
                                      !.get = t.get, !.ref = t.ref, !.desc = committed]
        /\ truth' = held
        /\ log' = [EmptyLog EXCEPT !.absent = ~held.held, !.descs = {held.desc}]
  BY <1>0
<1>2. /\ t.get \in Resource /\ t.ref \in Refs
      /\ op = "check_tag_gone" => t.get = "tag"
      /\ op = "probe_ownership" => t.get = "desc"
      /\ op = "check_desc_change" => t.get = "desc"
      /\ t.get # "description" /\ (t.get = "blob" => op = "get_blob")
  BY TargetType
<1>3. truth' \in [held : BOOLEAN, desc : Refs]
  BY <1>1, HoldingsType
<1>4. committed \in Refs
  BY DEF Refs
<1>5. req' \in Request
  BY <1>1, <1>2, <1>4, IdleType DEF Request, Refs
<1>6. /\ req'.stage = "send" /\ req'.op = op /\ req'.repo = repo /\ req'.get = t.get
      /\ req'.authRetried = IdleRequest.authRetried /\ req'.attempt = IdleRequest.attempt
  BY <1>1, IdleType DEF Request
<1>7. IdleRequest.attempt = 1
  BY DEF IdleRequest
<1>8. log' = [faults |-> 0, asked |-> 0, waited |-> 0, absent |-> ~truth'.held,
              descs |-> {truth'.desc}, lapsed |-> FALSE]
  BY <1>1 DEF EmptyLog
<1>9. ~req'.authRetried /\ req'.attempt = 1
  BY <1>6, <1>7, IdleFields
<1>10. QED BY <1>2, <1>3, <1>5, <1>6, <1>8, <1>9 DEF Start

LEMMA InitShape == Init => Shape
<1> SUFFICES ASSUME Init PROVE Shape
  OBVIOUS
<1>1. tokens \in [Repos -> {"none", "good", "lapsed"}] /\ truth \in [held : BOOLEAN, desc : Refs]
  BY DEF Init, Refs
<1>2. LogShape
  BY DEF Init, EmptyLog, LogShape, Refs
<1>3. QED BY <1>1, <1>2, IdleType, IdleFields DEF Init, Shape

LEMMA LapseEffect ==
    ASSUME Shape, TokenLapses
    PROVE  /\ \E r \in Repos :
                /\ tokens' = [tokens EXCEPT ![r] = "lapsed"]
                /\ req.stage # "idle" /\ r = req.repo => log'.lapsed
           /\ LogShape'
           /\ log'.faults = log.faults /\ log'.absent = log.absent /\ log'.descs = log.descs
           /\ log'.asked = log.asked /\ log'.waited = log.waited
           /\ log.lapsed => log'.lapsed
           /\ UNCHANGED <<req, got, truth, outcome>>
<1>1. PICK r \in Repos :
        /\ tokens' = [tokens EXCEPT ![r] = "lapsed"]
        /\ log' = [log EXCEPT !.lapsed = @ \/ (req.stage # "idle" /\ r = req.repo)]
  BY DEF TokenLapses
<1> DEFINE lapsed == log.lapsed \/ (req.stage # "idle" /\ r = req.repo)
<1>2. log' = [log EXCEPT !.lapsed = lapsed] /\ lapsed \in BOOLEAN
  BY <1>1 DEF Shape, LogShape
<1>3. log.lapsed => lapsed
  OBVIOUS
<1>4. req.stage # "idle" /\ r = req.repo => lapsed
  OBVIOUS
<1> HIDE DEF lapsed
<1>5. /\ LogShape' /\ log'.lapsed = lapsed
      /\ log'.faults = log.faults /\ log'.absent = log.absent /\ log'.descs = log.descs
      /\ log'.asked = log.asked /\ log'.waited = log.waited
  BY <1>2 DEF Shape, LogShape
<1>6. QED BY <1>1, <1>3, <1>4, <1>5 DEF TokenLapses

LEMMA PublishEffect ==
    ASSUME Shape, Publish
    PROVE  /\ truth' \in [held : BOOLEAN, desc : Refs]
           /\ LogShape'
           /\ log'.faults = log.faults /\ log'.lapsed = log.lapsed
           /\ log'.asked = log.asked /\ log'.waited = log.waited
           /\ log'.descs = log.descs \cup {truth'.desc}
           /\ log.absent => log'.absent
           /\ truth'.held \/ log'.absent
           /\ UNCHANGED <<tokens, req, got, outcome>>
<1>1. PICK held \in Holdings(req.get) :
        /\ truth' = held
        /\ log' = [log EXCEPT !.absent = @ \/ ~held.held, !.descs = @ \cup {held.desc}]
  BY DEF Publish
<1>2. held \in [held : BOOLEAN, desc : Refs]
  BY HoldingsType
<1> DEFINE absent == log.absent \/ ~held.held
           descs == log.descs \cup {held.desc}
<1>3. /\ log' = [log EXCEPT !.absent = absent, !.descs = descs]
      /\ absent \in BOOLEAN /\ descs \in SUBSET Refs
  BY <1>1, <1>2 DEF Shape, LogShape
<1>4. (log.absent => absent) /\ (held.held \/ absent)
  OBVIOUS
<1>5. truth'.desc = held.desc /\ truth'.held = held.held
  BY <1>1
<1>6. descs = log.descs \cup {truth'.desc}
  BY <1>5
<1> HIDE DEF absent, descs
<1>7. /\ LogShape' /\ log'.absent = absent /\ log'.descs = descs
      /\ log'.faults = log.faults /\ log'.lapsed = log.lapsed
      /\ log'.asked = log.asked /\ log'.waited = log.waited
  BY <1>3 DEF Shape, LogShape
<1>8. QED BY <1>1, <1>2, <1>4, <1>5, <1>6, <1>7 DEF Publish

LEMMA ShapeStep == ASSUME Shape, [Next]_vars PROVE Shape'
<1>1. CASE UNCHANGED vars
  BY <1>1 DEF vars, Shape, LogShape
<1>2. ASSUME NEW op \in Op, NEW repo \in Repos, Start(op, repo) PROVE Shape'
  <2>1. LogShape'
    <3>1. truth'.held \in BOOLEAN /\ truth'.desc \in Refs
      BY <1>2, StartEffect
    <3>2. (~truth'.held) \in BOOLEAN /\ {truth'.desc} \in SUBSET Refs
      BY <3>1
    <3> DEFINE absent == ~truth'.held
               descs == {truth'.desc}
    <3>3. log' = [faults |-> 0, asked |-> 0, waited |-> 0, absent |-> absent, descs |-> descs,
                  lapsed |-> FALSE]
      BY <1>2, StartEffect
    <3>4. absent \in BOOLEAN /\ descs \in SUBSET Refs
      BY <3>2
    <3> HIDE DEF absent, descs
    <3>5. QED BY <3>3, <3>4 DEF LogShape
  <2>2. QED BY <1>2, <2>1, StartEffect DEF Shape
<1>3. ASSUME NEW op \in Op, NEW repo \in Repos, Unrouted(op, repo) PROVE Shape'
  BY <1>3 DEF Unrouted, Shape, LogShape
<1>4. CASE TokenLapses
  BY <1>4, LapseEffect DEF Shape
<1>5. CASE Publish
  BY <1>5, PublishEffect DEF Shape
<1>6. QED BY <1>1, <1>2, <1>3, <1>4, <1>5, ClientShape DEF Next

-----------------------------------------------------------------------------
(* What a read can end in.                                                 *)

Whys == {"", "exhausted", "unauthorized", "basic", "redirects", "pages"}

LEMMA NoOutcomeType == NoOutcome \in Outcome
<1>1. "list_tags" \in Op /\ "pending" \in Results
  BY DEF Op, Results
<1>2. QED BY <1>1 DEF NoOutcome, Outcome

LEMMA SeenByType == ASSUME NEW op, NEW result \in Results PROVE SeenBy(op, result) \in Results
  BY DEF SeenBy, Results, IndexBotErrors

LEMMA EndsType ==
    ASSUME Shape, NEW result \in Results, NEW why \in Whys, Ends(result, why)
    PROVE  outcome' \in Outcome
<1> DEFINE of == CASE result \in {"confirmed", "mismatch"} -> got.body
                   [] result = "changed" -> req.seen
                   [] OTHER -> NoDigest
           digest == IF result = "changed" THEN req.desc ELSE NoDigest
           seen == SeenBy(req.op, result)
<1>1. /\ got.body \in Refs /\ req.seen \in Refs /\ req.desc \in Refs /\ NoDigest \in Refs
      /\ req.op \in Op
  BY DEF Shape, Response, Request, Refs
<1>2. of \in Refs /\ digest \in Refs
  BY <1>1
<1>3. seen \in Results
  BY SeenByType
<1>4. outcome' = [op |-> req.op, result |-> seen, why |-> why, of |-> of,
                digest |-> digest]
  BY DEF Ends
<1> HIDE DEF of, digest, seen
<1>5. QED BY <1>1, <1>2, <1>3, <1>4 DEF Outcome, Refs, Whys

LEMMA ConcludesType ==
    ASSUME Shape, NEW result \in Results, Concludes(result)
    PROVE  outcome' \in Outcome
<1>1. Ends(result, "") /\ "" \in Whys
  BY DEF Concludes, Whys
<1>2. QED BY <1>1, EndsType

LEMMA DeliverType ==
    ASSUME Shape, outcome \in Outcome,
           DeliverTags \/ DeliverManifest \/ DeliverDesc \/ DeliverDescription \/ DeliverBlob
    PROVE  outcome' \in Outcome
<1> DEFINE Ended == \E result \in Results : Concludes(result)
           Went == \E next : Another(next)
<1>1. ASSUME Ended PROVE outcome' \in Outcome
  BY <1>1, ConcludesType
<1>2. ASSUME Went PROVE outcome' \in Outcome
  BY <1>2 DEF Another
<1>3. /\ {"value", "absent", "unconfirmed", "unchanged", "changed", "ValueError", "KeyError",
           "AnomalyError", "ValidationError", "HTTPStatusError"} \subseteq Results
      /\ NotFound \in Results /\ \A name : Probed(name) \in Results \/ name \notin {"expected", "other", "none"}
  BY DEF Results, IndexBotErrors, BareErrors, NotFound, Probed
<1>4. ASSUME Sweep PROVE Ended \/ Went
  BY <1>3, <1>4 DEF Sweep
<1>5. ASSUME ObserveNext PROVE Ended \/ Went
  BY <1>3, <1>5 DEF ObserveNext
<1>6. ASSUME NEW digest, CheckDescChange(digest) PROVE Ended \/ Went
  BY <1>3, <1>6 DEF CheckDescChange
<1>7. ASSUME NEW seen, NEW left, FetchLayer(seen, left) PROVE Ended \/ Went
  BY <1>3, <1>7 DEF FetchLayer
<1>8. Probed(Names[got.body]) \in Results
  <2>1. Names[got.body] \in {"expected", "other", "none"}
    BY RegistryAssumption DEF Shape, Response
  <2>2. QED BY <1>3, <2>1
<1>9. ASSUME Ends("TransientError", "pages") PROVE outcome' \in Outcome
  BY <1>9, EndsType DEF Results, IndexBotErrors, Whys
<1>10. CASE DeliverTags
  <2>1. Ended \/ Went \/ Ends("TransientError", "pages")
    BY <1>3, <1>4, <1>10 DEF DeliverTags
  <2>2. QED BY <1>1, <1>2, <1>9, <2>1
<1> HIDE DEF Ended, Went
<1>11. CASE DeliverManifest
  <2>1. Ended \/ Went
    BY <1>3, <1>5, <1>8, <1>11 DEF DeliverManifest, Ended
  <2>2. QED BY <1>1, <1>2, <2>1
<1>12. CASE DeliverDesc
  <2>1. Ended \/ Went
    BY <1>3, <1>6, <1>12 DEF DeliverDesc, Ended, Went
  <2>2. QED BY <1>1, <1>2, <2>1
<1>13. CASE DeliverDescription
  <2>1. Ended \/ Went
    BY <1>3, <1>7, <1>13 DEF DeliverDescription, Ended
  <2>2. QED BY <1>1, <1>2, <2>1
<1>14. CASE DeliverBlob
  <2>1. Ended \/ Went
    BY <1>3, <1>7, <1>14 DEF DeliverBlob, Ended
  <2>2. QED BY <1>1, <1>2, <2>1
<1>15. QED BY <1>10, <1>11, <1>12, <1>13, <1>14

LEMMA OutcomeStep == ASSUME Shape, outcome \in Outcome, [Next]_vars PROVE outcome' \in Outcome
<1>1. CASE UNCHANGED vars \/ TokenLapses \/ Publish
  BY <1>1 DEF vars, TokenLapses, Publish
<1>2. ASSUME NEW op \in Op, NEW repo \in Repos, Start(op, repo) PROVE outcome' \in Outcome
  BY <1>2, NoOutcomeType DEF Start
<1>3. ASSUME NEW op \in Op, NEW repo \in Repos, Unrouted(op, repo) PROVE outcome' \in Outcome
  <2>1. "ValidationError" \in Results
    BY DEF Results, IndexBotErrors
  <2>2. SeenBy(op, "ValidationError") \in Results
    BY <2>1, SeenByType
  <2>3. QED BY <1>3, <2>2, NoOutcomeType DEF Unrouted, Outcome
<1>4. ASSUME NEW retryAfter, Retry(retryAfter) PROVE outcome' \in Outcome
  <2>1. CASE Ends("TransientError", "exhausted")
    BY <2>1, EndsType DEF Results, IndexBotErrors, Whys
  <2>2. QED BY <1>4, <2>1 DEF Retry
<1>5. CASE TransportFails \/ Retryable
  BY <1>4, <1>5 DEF TransportFails, Retryable
<1>6. CASE TokenIssued \/ Answered \/ Redirected \/ Follow
  BY <1>6 DEF TokenIssued, Answered, Redirected, Follow
<1>7. CASE Unauthorized
  <2>1. ASSUME NEW why \in {"basic", "unauthorized"}, Ends("TransientError", why)
        PROVE  outcome' \in Outcome
    BY <2>1, EndsType DEF Results, IndexBotErrors, Whys
  <2>2. QED BY <1>7, <2>1 DEF Unauthorized
<1>8. CASE TokenDenied \/ TokenRefused \/ Denied \/ FollowBreaks
  <2>1. PICK result \in {"ValidationError", "HTTPStatusError", "TransportError"} : Ends(result, "")
    BY <1>8 DEF TokenDenied, TokenRefused, Denied, FollowBreaks
  <2>2. result \in Results /\ "" \in Whys
    BY DEF Results, IndexBotErrors, BareErrors, Whys
  <2>3. QED BY <2>1, <2>2, EndsType
<1>9. CASE FollowEnds
  BY <1>9, EndsType DEF FollowEnds, Results, IndexBotErrors, Whys
<1>10. CASE RaiseForStatus
  BY <1>10, ConcludesType DEF RaiseForStatus, Results, BareErrors
<1>11. QED BY <1>1, <1>2, <1>3, <1>5, <1>6, <1>7, <1>8, <1>9, <1>10, DeliverType DEF Next, Client

\* The attempts of a request, the hops of a redirect and the pages of a tag list stay
\* within max_attempts, _MAX_REDIRECTS and max_pages, and a read ends in one of the
\* results its callers know (_send, _follow, list_tags).
THEOREM ClientTypeCorrect == Spec => []TypeOK
<1>1. Init => Shape /\ outcome \in Outcome
  <2>1. Init => outcome \in Outcome
    BY NoOutcomeType DEF Init
  <2>2. QED BY <2>1, InitShape
<1>2. Shape /\ outcome \in Outcome /\ [Next]_vars => (Shape /\ outcome \in Outcome)'
  BY ShapeStep, OutcomeStep
<1>3. Shape /\ outcome \in Outcome => TypeOK
  <2>1. LogShape => log \in Log
    BY DEF LogShape, Log, Refs
  <2>2. QED BY <2>1 DEF Shape, TypeOK, Refs
<1>4. QED BY <1>1, <1>2, <1>3, PTL DEF Spec

-----------------------------------------------------------------------------
(* The budget.                                                             *)

\* Each fault of the request at hand used one attempt.
Budget ==
    /\ req.stage \in {"send", "token"} =>
            log.faults = req.attempt - 1 /\ req.attempt \in 1 .. MaxAttempts
    /\ ExhaustedByFaults

LEMMA NothingSaid == NoOutcome.why = "" /\ NoOutcome.result = "pending"
  BY DEF NoOutcome

LEMMA FreshBudget ==
    ASSUME req'.attempt = 1, log'.faults = 0, outcome' = NoOutcome
    PROVE  Budget'
<1>1. ExhaustedByFaults'
  BY NothingSaid DEF ExhaustedByFaults
<1>2. log'.faults = req'.attempt - 1 /\ req'.attempt \in 1 .. MaxAttempts
  BY Ranges
<1>3. QED BY <1>1, <1>2 DEF Budget

LEMMA BudgetEnds ==
    ASSUME Shape, NEW result, NEW why, Ends(result, why),
           why = "exhausted" => log'.faults = MaxAttempts
    PROVE  Budget'
  BY EndsEffect DEF Budget, ExhaustedByFaults

LEMMA BudgetConcludes == ASSUME Shape, NEW result, Concludes(result) PROVE Budget'
<1>1. Ends(result, "")
  BY DEF Concludes
<1>2. QED BY <1>1, BudgetEnds

LEMMA BudgetAnother ==
    ASSUME Shape, NEW next \in Request, Another(next), req.stage # "idle" PROVE Budget'
<1>1. req'.attempt = 1 /\ log'.faults = 0 /\ outcome' = NoOutcome
  BY DEF Another, Shape, LogShape, Request
<1>2. QED BY <1>1, FreshBudget

LEMMA BudgetRetry ==
    ASSUME Shape, Budget, req.stage \in {"send", "token"}, NEW retryAfter \in Nat, Retry(retryAfter)
    PROVE  Budget'
<1>1. CASE Spent /\ log' = [log EXCEPT !.faults = @ + 1] /\ Ends("TransientError", "exhausted")
  <2>1. log'.faults = log.faults + 1
    BY <1>1 DEF Shape, LogShape
  <2>2. log'.faults = MaxAttempts
    BY <1>1, <2>1, RegistryAssumption DEF Budget, Spent
  <2>3. QED BY <1>1, <2>2, BudgetEnds
<1>2. CASE /\ ~Spent
           /\ \E jitter \in Jitters :
                 log' = [log EXCEPT !.faults = @ + 1, !.asked = @ + 100 * retryAfter,
                                    !.waited = @ + Delay(req.attempt, jitter, retryAfter)]
           /\ req' = [req EXCEPT !.stage = "send", !.attempt = @ + 1]
           /\ UNCHANGED <<got, outcome>>
  <2>1. log'.faults = log.faults + 1
    BY <1>2 DEF Shape, LogShape
  <2>2. req'.attempt = req.attempt + 1
    BY <1>2 DEF Shape, Request
  <2>3. req.attempt < MaxAttempts /\ log.faults = req.attempt - 1 /\ req.attempt \in Nat
    BY <1>2, RegistryAssumption DEF Budget, Spent
  <2>4. outcome' = NoOutcome
    BY <1>2 DEF Shape
  <2>5. ExhaustedByFaults'
    BY <2>4, NothingSaid DEF ExhaustedByFaults
  <2>6. log'.faults = req'.attempt - 1 /\ req'.attempt \in 1 .. MaxAttempts
    BY <2>1, <2>2, <2>3, Ranges
  <2>7. QED BY <2>5, <2>6 DEF Budget
<1>3. QED BY <1>1, <1>2 DEF Retry

LEMMA BudgetSweep == ASSUME Shape, req.stage # "idle", Sweep PROVE Budget'
<1>1. PICK n \in 0 .. MaxListed :
          IF n = 0 THEN Concludes("value") ELSE Another([req EXCEPT !.get = "tag", !.left = n - 1])
  BY DEF Sweep
<1>2. CASE n = 0
  BY <1>1, <1>2, BudgetConcludes
<1>3. CASE n # 0
  <2>1. n - 1 \in Nat
    BY <1>3, RegistryAssumption
  <2>2. QED BY <1>1, <1>3, <2>1, NextRequest, BudgetAnother
<1>4. QED BY <1>2, <1>3

LEMMA BudgetFetchLayer ==
    ASSUME Shape, req.stage # "idle", NEW seen \in Refs, NEW left \in Nat, FetchLayer(seen, left)
    PROVE  Budget'
<1>1. CASE left = 0
  BY <1>1, BudgetConcludes DEF FetchLayer
<1>2. CASE left # 0
  <2>1. PICK d \in Digests :
            Another([req EXCEPT !.get = "blob", !.ref = d, !.seen = seen, !.left = left - 1])
    BY <1>2 DEF FetchLayer
  <2>2. left - 1 \in Nat
    BY <1>2
  <2>3. QED BY <2>1, <2>2, NextRequest, BudgetAnother
<1>3. QED BY <1>1, <1>2

LEMMA BudgetDeliver ==
    ASSUME Shape, DeliverTags \/ DeliverManifest \/ DeliverDesc \/ DeliverDescription \/ DeliverBlob
    PROVE  Budget'
<1>1. /\ req.stage # "idle"
      /\ got.body \in Digests /\ got.body \in Refs /\ got.header \in Refs
      /\ Cardinality(Layers[got.body]) \in Nat
      /\ req.seen \in Refs /\ req.left \in Nat
  BY LayersCounted DEF Shape, Response, Request, Refs, DeliverTags, DeliverManifest, DeliverDesc,
                       DeliverDescription, DeliverBlob, Received
<1>2. CASE DeliverTags
  <2>1. ASSUME Ends("TransientError", "pages") PROVE Budget'
    BY <2>1, BudgetEnds
  <2>2. QED BY <1>1, <1>2, <2>1, BudgetSweep, BudgetConcludes, NextRequest, BudgetAnother DEF DeliverTags
<1>3. CASE DeliverManifest
  <2>1. ASSUME ObserveNext PROVE Budget'
    BY <1>1, <2>1, BudgetConcludes, NextRequest, BudgetAnother DEF ObserveNext
  <2>2. QED BY <1>3, <2>1, BudgetConcludes DEF DeliverManifest
<1>4. CASE DeliverDesc
  <2>0. NoDigest \in Refs
    BY DEF Refs
  <2>1. ASSUME NEW digest \in Refs, CheckDescChange(digest) PROVE Budget'
    BY <1>1, <2>1, BudgetConcludes, NextRequest, BudgetAnother DEF CheckDescChange
  <2>2. QED BY <1>1, <1>4, <2>0, <2>1, BudgetConcludes, NextRequest, BudgetAnother DEF DeliverDesc
<1>5. CASE DeliverDescription
  BY <1>1, <1>5, BudgetConcludes, BudgetFetchLayer DEF DeliverDescription
<1>6. CASE DeliverBlob
  BY <1>1, <1>6, BudgetConcludes, BudgetFetchLayer DEF DeliverBlob
<1>7. QED BY <1>2, <1>3, <1>4, <1>5, <1>6

LEMMA BudgetStep == ASSUME Shape, Budget, [Next]_vars PROVE Budget'
<1>0. req \in Request
  BY DEF Shape
<1>1. CASE UNCHANGED vars
  BY <1>1 DEF vars, Budget, ExhaustedByFaults
<1>2. ASSUME NEW op \in Op, NEW repo \in Repos, Start(op, repo) PROVE Budget'
  <2>1. req'.attempt = 1 /\ log'.faults = 0 /\ outcome' = NoOutcome
    BY <1>2, StartEffect
  <2>2. QED BY <2>1, FreshBudget
<1>3. ASSUME NEW op \in Op, NEW repo \in Repos, Unrouted(op, repo) PROVE Budget'
  BY <1>3 DEF Unrouted, Budget, ExhaustedByFaults, NoOutcome
<1>4. CASE TokenLapses
  BY <1>4, LapseEffect DEF Budget, ExhaustedByFaults
<1>5. CASE Publish
  BY <1>5, PublishEffect DEF Budget, ExhaustedByFaults
<1>6. CASE TransportFails
  BY <1>6, BudgetRetry DEF TransportFails
<1>7. CASE Retryable
  BY <1>7, BudgetRetry, RegistryAssumption DEF Retryable
<1>8. CASE Unauthorized
  <2>1. CASE req.authRetried \/ Basic
    <3>1. PICK why \in {"basic", "unauthorized"} : Ends("TransientError", why)
      BY <1>8, <2>1 DEF Unauthorized
    <3>2. QED BY <3>1, BudgetEnds
  <2>2. CASE ~(req.authRetried \/ Basic)
    <3>1. req' = [req EXCEPT !.stage = "token"] /\ req.stage = "send" /\ UNCHANGED <<outcome, log>>
      BY <1>8, <2>2 DEF Unauthorized
    <3>2. req'.attempt = req.attempt
      BY <1>0, <3>1 DEF Request
    <3>3. QED BY <3>1, <3>2 DEF Budget, ExhaustedByFaults
  <2>3. QED BY <2>1, <2>2
<1>9. CASE TokenIssued
  <2>1. req'.attempt = req.attempt /\ req.stage = "token" /\ UNCHANGED <<outcome, log>>
    BY <1>0, <1>9 DEF TokenIssued, Request
  <2>2. QED BY <2>1 DEF Budget, ExhaustedByFaults
<1>10. CASE TokenDenied \/ TokenRefused \/ Denied \/ FollowBreaks
  BY <1>10, BudgetEnds DEF TokenDenied, TokenRefused, Denied, FollowBreaks
<1>11. CASE FollowEnds
  BY <1>11, BudgetEnds DEF FollowEnds
<1>12. CASE RaiseForStatus
  BY <1>12, BudgetConcludes DEF RaiseForStatus
<1>13. CASE Answered \/ Redirected \/ Follow
  <2>1. req'.stage \in {"follow", "received"} /\ UNCHANGED <<outcome, log>>
    BY <1>0, <1>13 DEF Answered, Redirected, Follow, Request
  <2>2. QED BY <2>1 DEF Budget, ExhaustedByFaults
<1>14. QED BY <1>1, <1>2, <1>3, <1>4, <1>5, <1>6, <1>7, <1>8, <1>9, <1>10, <1>11, <1>12, <1>13,
              BudgetDeliver DEF Next, Client

LEMMA BudgetInit == Init => Budget
  BY IdleFields, NothingSaid DEF Init, Budget, ExhaustedByFaults

\* "A renewal is not counted against max_attempts": the budget of a request is
\* exhausted by nothing but its own faults, and by all of them (_send).
THEOREM ExhaustedOnlyByFaults == Spec => []ExhaustedByFaults
<1>1. Init => Shape /\ Budget
  BY InitShape, BudgetInit
<1>2. Shape /\ Budget /\ [Next]_vars => (Shape /\ Budget)'
  BY ShapeStep, BudgetStep
<1>3. Budget => ExhaustedByFaults
  BY DEF Budget
<1>4. QED BY <1>1, <1>2, <1>3, PTL DEF Spec

-----------------------------------------------------------------------------
(* How long a request waits.                                               *)

LEMMA AnyMore ==
    ASSUME NEW faults \in Nat
    PROVE  (faults + 1) * MaxDelay * 150 = faults * MaxDelay * 150 + MaxDelay * 150
  BY RegistryAssumption

LEMMA WaitsRetry ==
    ASSUME Shape, WaitsAsAsked, NEW retryAfter \in Nat, Retry(retryAfter)
    PROVE  WaitsAsAsked'
<1>0. log.faults \in Nat /\ log.asked \in Nat /\ log.waited \in Nat
  BY DEF Shape, LogShape
<1> DEFINE sum == log.faults * MaxDelay * 150
           cap == MaxDelay * 150
<1>1. sum \in Nat /\ cap \in Nat /\ (log.faults + 1) * MaxDelay * 150 = sum + cap
  BY <1>0, AnyMore, RegistryAssumption
<1>2. log.waited >= log.asked /\ log.waited <= log.asked + sum
  BY DEF WaitsAsAsked
<1>3. ASSUME log'.faults = log.faults + 1, NEW wait \in Nat, NEW more \in Nat,
             log'.asked = log.asked + more, log'.waited = log.waited + wait,
             wait >= more, wait <= more + cap
      PROVE  WaitsAsAsked'
  <2>1. log'.faults * MaxDelay * 150 = sum + cap
    BY <1>1, <1>3
  <2> HIDE DEF sum, cap
  <2>2. log'.waited >= log'.asked /\ log'.waited <= log'.asked + (sum + cap)
    BY <1>0, <1>1, <1>2, <1>3
  <2>3. QED BY <2>1, <2>2 DEF WaitsAsAsked
<1>4. CASE log' = [log EXCEPT !.faults = @ + 1]
  <2>1. /\ log'.faults = log.faults + 1 /\ log'.asked = log.asked + 0
        /\ log'.waited = log.waited + 0
    BY <1>0, <1>4 DEF Shape, LogShape
  <2>2. 0 \in Nat /\ 0 >= 0 /\ 0 <= 0 + cap
    BY <1>1
  <2> HIDE DEF cap
  <2>3. QED BY <1>3, <2>1, <2>2
<1>5. ASSUME NEW jitter \in Jitters,
             log' = [log EXCEPT !.faults = @ + 1, !.asked = @ + 100 * retryAfter,
                                !.waited = @ + Delay(req.attempt, jitter, retryAfter)]
      PROVE  WaitsAsAsked'
  <2> DEFINE wait == Delay(req.attempt, jitter, retryAfter)
             more == 100 * retryAfter
  <2>1. req.attempt \in Nat \ {0}
    BY Ranges DEF Shape, Request
  <2>2. wait \in Nat /\ more \in Nat /\ wait >= more /\ wait <= more + cap
    <3>1. /\ Delay(req.attempt, jitter, retryAfter) \in Nat
          /\ Delay(req.attempt, jitter, retryAfter) >= 100 * retryAfter
          /\ Delay(req.attempt, jitter, retryAfter) <= 100 * retryAfter + MaxDelay * 150
      BY <2>1, DelayBounds
    <3>2. 100 * retryAfter \in Nat
      OBVIOUS
    <3>3. QED BY <3>1, <3>2 DEF wait, more, cap
  <2>3. log' = [log EXCEPT !.faults = @ + 1, !.asked = @ + more, !.waited = @ + wait]
    BY <1>5
  <2> HIDE DEF wait, more, cap
  <2>4. /\ log'.faults = log.faults + 1 /\ log'.asked = log.asked + more
        /\ log'.waited = log.waited + wait
    BY <2>3 DEF Shape, LogShape
  <2>5. QED BY <1>3, <2>2, <2>4
<1>6. QED BY <1>4, <1>5 DEF Retry

\* Nothing else waits: a request starts with the counts at zero, and no other
\* step moves them.
SameCounts == log'.faults = log.faults /\ log'.asked = log.asked /\ log'.waited = log.waited
FreshCounts == log'.faults = 0 /\ log'.asked = 0 /\ log'.waited = 0

LEMMA AnotherCounts == ASSUME Shape, NEW next, Another(next) PROVE FreshCounts
  BY DEF Another, Shape, LogShape, FreshCounts

LEMMA DeliverCounts ==
    ASSUME Shape, DeliverTags \/ DeliverManifest \/ DeliverDesc \/ DeliverDescription \/ DeliverBlob
    PROVE  SameCounts \/ FreshCounts
<1>1. ASSUME NEW result, Concludes(result) PROVE SameCounts
  BY <1>1 DEF Concludes, SameCounts
<1>2. ASSUME UNCHANGED log PROVE SameCounts
  BY <1>2 DEF SameCounts
<1>3. CASE DeliverTags
  BY <1>1, <1>2, <1>3, AnotherCounts DEF DeliverTags, Sweep
<1>4. CASE DeliverManifest
  BY <1>1, <1>4, AnotherCounts DEF DeliverManifest, ObserveNext
<1>5. CASE DeliverDesc
  BY <1>1, <1>5, AnotherCounts DEF DeliverDesc, CheckDescChange
<1>6. CASE DeliverDescription
  BY <1>1, <1>6, AnotherCounts DEF DeliverDescription, FetchLayer
<1>7. CASE DeliverBlob
  BY <1>1, <1>7, AnotherCounts DEF DeliverBlob, FetchLayer
<1>8. QED BY <1>3, <1>4, <1>5, <1>6, <1>7

LEMMA WaitsStep == ASSUME Shape, WaitsAsAsked, [Next]_vars PROVE WaitsAsAsked'
<1>1. ASSUME SameCounts PROVE WaitsAsAsked'
  BY <1>1 DEF SameCounts, WaitsAsAsked
<1>2. ASSUME FreshCounts PROVE WaitsAsAsked'
  <2>1. 0 * MaxDelay * 150 = 0
    BY RegistryAssumption
  <2>2. QED BY <1>2, <2>1 DEF FreshCounts, WaitsAsAsked
<1>3. ASSUME UNCHANGED log PROVE SameCounts
  BY <1>3 DEF SameCounts
<1>4. ASSUME NEW op \in Op, NEW repo \in Repos, Start(op, repo) PROVE FreshCounts
  BY <1>4, StartEffect DEF FreshCounts
<1>5. CASE TokenLapses \/ Publish
  BY <1>1, <1>5, LapseEffect, PublishEffect DEF SameCounts
<1>6. CASE TransportFails
  BY <1>6, WaitsRetry DEF TransportFails
<1>7. CASE Retryable
  BY <1>7, WaitsRetry, RegistryAssumption DEF Retryable
<1>8. CASE \/ Unauthorized \/ TokenIssued \/ TokenDenied \/ TokenRefused \/ Denied \/ Answered
           \/ Redirected \/ FollowEnds \/ Follow \/ FollowBreaks \/ RaiseForStatus
  BY <1>1, <1>3, <1>8 DEF Unauthorized, TokenIssued, TokenDenied, TokenRefused, Denied, Answered,
         Redirected, FollowEnds, Follow, FollowBreaks, RaiseForStatus, Concludes
<1>9. ASSUME NEW op \in Op, NEW repo \in Repos, Unrouted(op, repo) PROVE SameCounts
  BY <1>3, <1>9 DEF Unrouted
<1>10. CASE UNCHANGED vars
  BY <1>1, <1>3, <1>10 DEF vars
<1>11. QED BY <1>1, <1>2, <1>4, <1>5, <1>6, <1>7, <1>8, <1>9, <1>10, DeliverCounts DEF Next, Client

\* "The server said exactly how long to wait" (delay_seconds): a request waits for
\* as long as the registry asked in all, and for no more than that and 1.5 times
\* max_delay_seconds for each fault, whichever attempts they came at.
THEOREM WaitsWithinBounds == Spec => []WaitsAsAsked
<1>1. Init => Shape /\ WaitsAsAsked
  <2>1. Init => WaitsAsAsked
    BY RegistryAssumption DEF Init, EmptyLog, WaitsAsAsked
  <2>2. QED BY <2>1, InitShape
<1>2. Shape /\ WaitsAsAsked /\ [Next]_vars => (Shape /\ WaitsAsAsked)'
  BY ShapeStep, WaitsStep
<1>3. QED BY <1>1, <1>2, PTL DEF Spec

-----------------------------------------------------------------------------
(* What is said of a token, of a tag and of a description.                  *)

Described == log.descs \ {NoDigest}

\* A renewed token is good until it lapses; a tag that is not there was absent;
\* and the digests carried from one request of a read to the next came from the
\* description tag.
Told ==
    /\ RenewalIsSpared /\ GoneIsProven /\ ProbeIsOfTheDesc
    /\ req.authRetried => tokens[req.repo] = "good" \/ log.lapsed
    /\ req.stage # "idle" => (truth.held \/ log.absent) /\ truth.desc \in log.descs
    /\ req.op = "check_tag_gone" => req.get = "tag"
    /\ req.get = "description" => req.op = "check_desc_change"
    /\ req.get = "blob" => req.op \in {"get_blob", "check_desc_change"}
    /\ req.op = "probe_ownership" => req.get = "desc" \/ (req.get = "digest" /\ req.ref \in Described)
    /\ req.op = "check_desc_change" =>
            \/ req.get = "desc"
            \/ req.get = "description" /\ req.desc \in Described
            \/ req.get = "blob" /\ {req.seen, req.desc} \subseteq Described
    /\ req.stage = "received" =>
            /\ req.get = "tag" /\ got.status = "missing" /\ got.unknown => log.absent
            /\ req.get = "desc" /\ got.status = "ok" => got.header \in log.descs \cup {NoDigest}
            /\ req.get = "description" /\ got.status = "ok" => got.body \in Described

SameHistory == log'.absent = log.absent /\ log'.descs = log.descs /\ log'.lapsed = log.lapsed

LEMMA EndsTold ==
    ASSUME Shape, Told, NEW result, NEW why, Ends(result, why), SameHistory,
           why = "unauthorized" => log.lapsed,
           result # "gone",
           req.op = "check_tag_gone" /\ result = "ManifestUnknown" => log.absent,
           result \in {"confirmed", "mismatch"} =>
                /\ got.body \in Described
                /\ Names[got.body] = IF result = "confirmed" THEN "expected" ELSE "other",
           result = "changed" => {req.seen, req.desc} \subseteq Described
    PROVE  Told'
<1>1. /\ req'.stage = "idle" /\ ~req'.authRetried /\ req'.op = "list_tags"
      /\ req'.get = "tags"
      /\ outcome'.why = why /\ outcome'.result = SeenBy(req.op, result)
      /\ result \in {"confirmed", "mismatch"} => outcome'.of = got.body
      /\ result = "changed" => outcome'.of = req.seen /\ outcome'.digest = req.desc
  BY EndsEffect, IdleFields
<1>2. RenewalIsSpared'
  BY <1>1 DEF RenewalIsSpared, SameHistory
<1>3. GoneIsProven'
  <2>1. SeenBy(req.op, result) = "gone" => req.op = "check_tag_gone" /\ result = "ManifestUnknown"
    BY DEF SeenBy
  <2>2. QED BY <1>1, <2>1 DEF GoneIsProven, SameHistory
<1>4. ProbeIsOfTheDesc'
  <2>1. SeenBy(req.op, result) \in {"confirmed", "mismatch", "changed"} => SeenBy(req.op, result) = result
    BY DEF SeenBy
  <2>2. QED BY <1>1, <2>1 DEF ProbeIsOfTheDesc, SameHistory, Described
<1>5. QED BY <1>1, <1>2, <1>3, <1>4 DEF Told

\* Most endings say nothing of these.
PlainResults == Results \ {"gone", "confirmed", "mismatch", "changed", "ManifestUnknown"}

LEMMA PlainEndsTold ==
    ASSUME Shape, Told, NEW result \in PlainResults, NEW why \in {"", "exhausted", "basic", "redirects", "pages"},
           Ends(result, why), SameHistory
    PROVE  Told'
  BY EndsTold DEF PlainResults

LEMMA PlainConcludesTold ==
    ASSUME Shape, Told, NEW result \in PlainResults, Concludes(result)
    PROVE  Told'
  BY PlainEndsTold DEF Concludes, SameHistory

LEMMA NothingTold ==
    ASSUME outcome' = NoOutcome
    PROVE  (RenewalIsSpared /\ GoneIsProven /\ ProbeIsOfTheDesc)'
  BY NothingSaid DEF RenewalIsSpared, GoneIsProven, ProbeIsOfTheDesc

LEMMA AnotherTold ==
    ASSUME Shape, Told, NEW next \in Request, Another(next), req.stage # "idle",
           UNCHANGED <<tokens, truth>>,
           next.op = "check_tag_gone" => next.get = "tag",
           next.get \in {"description", "blob"} => next.op = "check_desc_change",
           next.op = "probe_ownership" =>
                next.get = "desc" \/ (next.get = "digest" /\ next.ref \in Described),
           next.op = "check_desc_change" =>
                \/ next.get = "desc"
                \/ next.get = "description" /\ next.desc \in Described
                \/ next.get = "blob" /\ {next.seen, next.desc} \subseteq Described
    PROVE  Told'
<1>1. /\ req'.stage = "send" /\ ~req'.authRetried
      /\ req'.op = next.op /\ req'.get = next.get /\ req'.ref = next.ref /\ req'.seen = next.seen
      /\ req'.desc = next.desc
  BY DEF Another, Request
<1>2. SameHistory
  BY DEF Another, Shape, LogShape, SameHistory
<1>3. outcome' = NoOutcome
  BY DEF Another, Shape
<1>4. (RenewalIsSpared /\ GoneIsProven /\ ProbeIsOfTheDesc)'
  BY <1>3, NothingTold
<1>5. QED BY <1>1, <1>2, <1>4 DEF Told, SameHistory, Described

\* What an answer says of the tag and of the description.
LEMMA AnswersTold ==
    ASSUME Shape,
           NEW r \in Contents \cup Missing \cup Redirects
                     \cup Refusals({"unauthorized", "denied", "retryable", "refused"})
    PROVE  /\ req.get = "tag" /\ r.status = "missing" /\ r.unknown => ~truth.held
           /\ req.get = "desc" /\ r.status = "ok" => r.header \in {truth.desc, NoDigest}
           /\ req.get = "description" /\ r.status = "ok" => r.body = truth.desc /\ r.body \in Digests
<1>0. NoResponse \in Response /\ NoResponse.status = "ok" /\ truth.held \in BOOLEAN
  BY IdleType, IdleFields DEF Shape
<1>1. CASE r \in Missing
  <2>1. PICK u \in IF req.get = "tag" /\ truth.held THEN {FALSE} ELSE BOOLEAN :
            r = [NoResponse EXCEPT !.status = "missing", !.unknown = u]
    BY <1>1 DEF Missing
  <2>2. r.status = "missing" /\ r.unknown = u
    BY <1>0, <2>1 DEF Response
  <2>3. QED BY <1>0, <2>1, <2>2
<1>2. CASE r \in Redirects
  <2>1. r.status = "redirect"
    BY <1>0, <1>2 DEF Redirects, Response
  <2>2. QED BY <2>1
<1>3. CASE r \in Refusals({"unauthorized", "denied", "retryable", "refused"})
  <2>1. r.status \in {"unauthorized", "denied", "retryable", "refused"}
    BY <1>0, <1>3 DEF Refusals, Response
  <2>2. QED BY <2>1
<1>4. CASE r \in Contents
  <2>1. CASE req.get = "tag"
    <3>1. r \in Bodies
      BY <1>4, <2>1 DEF Contents
    <3>2. PICK b \in Digests : \E h \in Digests \cup {NoDigest} :
              r = [NoResponse EXCEPT !.body = b, !.header = h]
      BY <3>1 DEF Bodies
    <3>3. r.status = "ok"
      BY <1>0, <3>2 DEF Response
    <3>4. QED BY <2>1, <3>3
  <2>2. CASE req.get = "desc"
    <3>1. PICK h \in {truth.desc, NoDigest} : r = [NoResponse EXCEPT !.header = h]
      BY <1>4, <2>2 DEF Contents
    <3>2. r.header = h
      BY <1>0, <3>1 DEF Response
    <3>3. QED BY <2>2, <3>1, <3>2
  <2>3. CASE req.get = "description"
    <3>1. r \in Bodies /\ r.body = truth.desc
      BY <1>4, <2>3 DEF Contents
    <3>2. PICK b \in Digests : \E h \in Digests \cup {NoDigest} :
              r = [NoResponse EXCEPT !.body = b, !.header = h]
      BY <3>1 DEF Bodies
    <3>3. r.body = b
      BY <1>0, <3>2 DEF Response
    <3>4. QED BY <2>3, <3>1, <3>3
  <2>4. QED BY <2>1, <2>2, <2>3
<1>5. QED BY <1>1, <1>2, <1>3, <1>4

LEMMA ToldDeliverTags == ASSUME Shape, Told, DeliverTags PROVE Told'
<1>0. /\ req.stage # "idle" /\ req.get = "tags" /\ UNCHANGED <<tokens, truth>> /\ req \in Request
      /\ req.op \notin {"check_tag_gone", "probe_ownership", "check_desc_change"}
  BY DEF DeliverTags, Received, Told, Shape
<1>1. ASSUME NEW result \in {"value", "absent", "ValueError"}, Concludes(result) PROVE Told'
  BY <1>1, PlainConcludesTold DEF PlainResults, Results, IndexBotErrors, BareErrors
<1>2. ASSUME NEW next \in Request, Another(next), next.op = req.op, next.get \in {"tags", "tag"}
      PROVE  Told'
  BY <1>0, <1>2, AnotherTold
<1>3. ASSUME Sweep PROVE Told'
  <2>1. PICK n \in 0 .. MaxListed :
            IF n = 0 THEN Concludes("value") ELSE Another([req EXCEPT !.get = "tag", !.left = n - 1])
    BY <1>3 DEF Sweep
  <2>2. CASE n = 0
    BY <1>1, <2>1, <2>2
  <2>3. CASE n # 0
    <3>1. n - 1 \in Nat
      BY <2>3, RegistryAssumption
    <3>2. [req EXCEPT !.get = "tag", !.left = n - 1] \in Request
      BY <3>1, NextRequest
    <3>3. /\ [req EXCEPT !.get = "tag", !.left = n - 1].op = req.op
          /\ [req EXCEPT !.get = "tag", !.left = n - 1].get = "tag"
      BY <1>0 DEF Request
    <3>4. QED BY <1>2, <2>1, <2>3, <3>2, <3>3
  <2>4. QED BY <2>2, <2>3
<1>4. ASSUME Ends("TransientError", "pages"), UNCHANGED log PROVE Told'
  BY <1>4, PlainEndsTold DEF PlainResults, Results, IndexBotErrors, SameHistory
<1>5. /\ req.page < MaxPages => [req EXCEPT !.page = @ + 1] \in Request
      /\ [req EXCEPT !.page = @ + 1].op = req.op /\ [req EXCEPT !.page = @ + 1].get = "tags"
  BY <1>0, NextRequest DEF Request
<1>6. QED BY <1>1, <1>2, <1>3, <1>4, <1>5 DEF DeliverTags

LEMMA ToldDeliverManifest == ASSUME Shape, Told, DeliverManifest PROVE Told'
<1>0. /\ req.stage = "received" /\ req.get \in {"tag", "digest"} /\ UNCHANGED <<tokens, truth>>
      /\ req \in Request /\ req.op # "check_desc_change"
  BY DEF DeliverManifest, Received, Told, Shape
<1>1. ASSUME NEW result \in {"value", "KeyError", "AnomalyError", "ValidationError", "unconfirmed"},
             Concludes(result)
      PROVE  Told'
  BY <1>1, PlainConcludesTold DEF PlainResults, Results, IndexBotErrors, BareErrors
<1>2. ASSUME ObserveNext, req.op = "observe" PROVE Told'
  <2>1. CASE req.left = 0
    BY <1>1, <1>2, <2>1 DEF ObserveNext
  <2>2. CASE req.left # 0
    <3>1. /\ [req EXCEPT !.left = @ - 1] \in Request
          /\ [req EXCEPT !.left = @ - 1].op = req.op /\ [req EXCEPT !.left = @ - 1].get = req.get
      BY <1>0, <2>2, NextRequest DEF Request
    <3>2. QED BY <1>0, <1>2, <2>2, <3>1, AnotherTold DEF ObserveNext
  <2>3. QED BY <2>1, <2>2
<1>3. ASSUME Concludes(NotFound), got.status = "missing" PROVE Told'
  <2>1. CASE got.unknown
    <3>1. Ends("ManifestUnknown", "") /\ SameHistory
      BY <1>3, <2>1 DEF Concludes, NotFound, SameHistory
    <3>2. req.op = "check_tag_gone" => log.absent
      BY <1>0, <1>3, <2>1 DEF Told
    <3>3. QED BY <3>1, <3>2, EndsTold
  <2>2. CASE ~got.unknown
    BY <1>1, <1>3, <2>2 DEF NotFound
  <2>3. QED BY <2>1, <2>2
<1>4. ASSUME Concludes(Probed(Names[got.body])), req.op = "probe_ownership", Matches(got) PROVE Told'
  <2>1. req.ref \in Described
    BY <1>0, <1>4 DEF Told
  <2>2. got.body = req.ref
    BY <1>4, <2>1 DEF Matches, Described
  <2>3. Names[got.body] \in {"expected", "other", "none"}
    BY RegistryAssumption DEF Shape, Response
  <2>4. CASE Names[got.body] = "none"
    BY <1>1, <1>4, <2>4 DEF Probed
  <2>5. CASE Names[got.body] # "none"
    <3>1. PICK result \in {"confirmed", "mismatch"} :
            /\ result = Probed(Names[got.body])
            /\ Names[got.body] = IF result = "confirmed" THEN "expected" ELSE "other"
      BY <2>3, <2>5 DEF Probed
    <3>2. Ends(result, "") /\ SameHistory
      BY <1>4, <3>1 DEF Concludes, SameHistory
    <3>3. QED BY <2>1, <2>2, <3>1, <3>2, EndsTold
  <2>6. QED BY <2>4, <2>5
<1>5. QED BY <1>1, <1>2, <1>3, <1>4 DEF DeliverManifest

LEMMA ToldDeliverDesc == ASSUME Shape, Told, DeliverDesc PROVE Told'
<1>0. /\ req.stage = "received" /\ req.get = "desc" /\ UNCHANGED <<tokens, truth>>
      /\ req \in Request /\ req.op # "check_tag_gone"
  BY DEF DeliverDesc, Received, Told, Shape
<1>1. ASSUME NEW result \in {"value", "absent", "KeyError", "ValueError", "unchanged", "unconfirmed"},
             Concludes(result)
      PROVE  Told'
  BY <1>1, PlainConcludesTold DEF PlainResults, Results, IndexBotErrors, BareErrors
<1>2. ASSUME NEW digest \in Described \cup {NoDigest}, CheckDescChange(digest),
             req.op = "check_desc_change"
      PROVE  Told'
  <2> DEFINE next == [req EXCEPT !.get = "description", !.desc = digest]
  <2>1. CASE digest # NoDigest /\ Another(next)
    <3>1. digest \in Described /\ digest \in Refs
      BY <2>1 DEF Described, Shape, LogShape
    <3>2. next \in Request /\ next.op = req.op /\ next.get = "description" /\ next.desc = digest
      BY <1>0, <3>1, NextRequest DEF Request
    <3>3. QED BY <1>0, <1>2, <2>1, <3>1, <3>2, AnotherTold
  <2>2. CASE ~(digest # NoDigest /\ Another(next))
    BY <1>1, <1>2, <2>2 DEF CheckDescChange
  <2>3. QED BY <2>1, <2>2
<1>3. ASSUME Another([req EXCEPT !.get = "digest", !.ref = got.header]), got.status = "ok",
             got.header # NoDigest, req.op = "probe_ownership"
      PROVE  Told'
  <2> DEFINE next == [req EXCEPT !.get = "digest", !.ref = got.header]
  <2>1. got.header \in Refs
    BY DEF Shape, Response, Refs
  <2>2. next \in Request /\ next.op = req.op /\ next.get = "digest" /\ next.ref = got.header
    BY <1>0, <2>1, NextRequest DEF Request
  <2>3. got.header \in Described
    BY <1>0, <1>3 DEF Told, Described
  <2>4. QED BY <1>0, <1>3, <2>2, <2>3, AnotherTold
<1>4. got.status = "ok" => got.header \in Described \cup {NoDigest}
  BY <1>0 DEF Told, Described
<1>5. QED BY <1>1, <1>2, <1>3, <1>4 DEF DeliverDesc

LEMMA ToldFetchLayer ==
    ASSUME Shape, Told, req.stage # "idle", req.op = "check_desc_change",
           UNCHANGED <<tokens, truth>>,
           NEW seen \in Described, NEW left \in Nat, FetchLayer(seen, left),
           req.desc \in Described,
           req.get = "blob" => seen = req.seen,
           left = 0 /\ req.get # "blob" => "readme" \notin Layers[seen]
    PROVE  Told'
<1>1. CASE left = 0
  <2>1. CASE Concludes("changed") /\ req.get = "blob"
    <3>1. Ends("changed", "") /\ SameHistory
      BY <2>1 DEF Concludes, SameHistory
    <3>2. QED BY <2>1, <3>1, EndsTold
  <2>2. CASE Concludes("ValueError")
    BY <2>2, PlainConcludesTold DEF PlainResults, Results
  <2>3. QED BY <1>1, <2>1, <2>2 DEF FetchLayer
<1>2. CASE left # 0
  <2>1. PICK d \in Digests :
            Another([req EXCEPT !.get = "blob", !.ref = d, !.seen = seen, !.left = left - 1])
    BY <1>2 DEF FetchLayer
  <2> DEFINE next == [req EXCEPT !.get = "blob", !.ref = d, !.seen = seen, !.left = left - 1]
  <2>2. left - 1 \in Nat /\ seen \in Refs /\ req \in Request
    <3>1. left - 1 \in Nat
      BY <1>2
    <3>2. log.descs \in SUBSET Refs /\ req \in Request
      BY DEF Shape, LogShape
    <3>3. QED BY <3>1, <3>2 DEF Described
  <2>3. /\ next \in Request /\ next.op = req.op /\ next.get = "blob" /\ next.seen = seen
        /\ next.desc = req.desc
    <3>1. next \in Request
      BY <2>2, NextRequest
    <3>2. /\ next.op = req.op /\ next.get = "blob" /\ next.seen = seen
          /\ next.desc = req.desc
      BY <2>2 DEF Request
    <3>3. QED BY <3>1, <3>2
  <2>4. QED BY <2>1, <2>3, AnotherTold
<1>3. QED BY <1>1, <1>2

LEMMA NoLayers == ASSUME NEW d \in Digests, Cardinality(Layers[d]) = 0 PROVE Layers[d] = {}
<1>1. Layers[d] \in SUBSET {"readme", "logo"}
  BY RegistryAssumption
<1>2. IsFiniteSet({"readme"}) /\ {"readme", "logo"} = {"readme"} \cup {"logo"}
  BY FS_Singleton
<1>3. IsFiniteSet({"readme", "logo"})
  BY <1>2, FS_AddElement
<1>4. IsFiniteSet(Layers[d])
  BY <1>1, <1>3, FS_Subset
<1>5. QED BY <1>4, FS_EmptySet

LEMMA ToldDeliverDescription == ASSUME Shape, Told, DeliverDescription PROVE Told'
<1>0. /\ req.stage = "received" /\ req.get = "description" /\ UNCHANGED <<tokens, truth>>
      /\ req.op = "check_desc_change" /\ req.desc \in Described
  BY DEF DeliverDescription, Received, Told
<1>1. ASSUME Concludes("AnomalyError") PROVE Told'
  BY <1>1, PlainConcludesTold DEF PlainResults, Results, IndexBotErrors
<1>2. ASSUME Concludes(NotFound) PROVE Told'
  <2>1. PICK result \in {"ManifestUnknown", "KeyError"} : Ends(result, "") /\ SameHistory
    BY <1>2 DEF Concludes, NotFound, SameHistory
  <2>2. QED BY <1>0, <2>1, EndsTold
<1>3. ASSUME FetchLayer(got.body, Cardinality(Layers[got.body])), got.status = "ok" PROVE Told'
  <2>1. got.body \in Described /\ got.body \in Digests
    BY <1>0, <1>3 DEF Told, Shape, Response
  <2>2. Cardinality(Layers[got.body]) \in Nat
    BY <2>1, LayersCounted
  <2>3. Cardinality(Layers[got.body]) = 0 => "readme" \notin Layers[got.body]
    BY <2>1, NoLayers
  <2>4. QED BY <1>0, <1>3, <2>1, <2>2, <2>3, ToldFetchLayer
<1>4. QED BY <1>0, <1>1, <1>2, <1>3 DEF DeliverDescription

LEMMA ToldDeliverBlob == ASSUME Shape, Told, DeliverBlob PROVE Told'
<1>0. /\ req.stage = "received" /\ req.get = "blob" /\ UNCHANGED <<tokens, truth>>
      /\ req.op \in {"get_blob", "check_desc_change"}
  BY DEF DeliverBlob, Received, Told
<1>1. ASSUME NEW result \in {"value", "KeyError", "AnomalyError"}, Concludes(result) PROVE Told'
  BY <1>1, PlainConcludesTold DEF PlainResults, Results, IndexBotErrors
<1>2. ASSUME FetchLayer(req.seen, req.left), req.op = "check_desc_change" PROVE Told'
  <2>1. req.seen \in Described /\ req.desc \in Described /\ req.left \in Nat
    BY <1>0, <1>2 DEF Told, Shape, Request
  <2>2. QED BY <1>0, <1>2, <2>1, ToldFetchLayer
<1>3. QED BY <1>0, <1>1, <1>2 DEF DeliverBlob

LEMMA ToldAnswered == ASSUME Shape, Told, Answered \/ Redirected \/ Follow PROVE Told'
<1>1. /\ req.stage \in {"send", "follow"} /\ req'.stage \in {"follow", "received"}
      /\ req'.op = req.op /\ req'.get = req.get /\ req'.ref = req.ref /\ req'.seen = req.seen
      /\ req'.repo = req.repo /\ req'.authRetried = req.authRetried /\ req'.desc = req.desc
  BY DEF Answered, Redirected, Follow, Shape, Request
<1>2. got' \in Contents \cup Missing \cup Redirects
               \cup Refusals({"unauthorized", "denied", "retryable", "refused"})
  BY DEF Answered, Redirected, Follow, Refusals
<1>3. /\ req.get = "tag" /\ got'.status = "missing" /\ got'.unknown => ~truth.held
      /\ req.get = "desc" /\ got'.status = "ok" => got'.header \in {truth.desc, NoDigest}
      /\ req.get = "description" /\ got'.status = "ok" => got'.body = truth.desc /\ got'.body \in Digests
  BY <1>2, AnswersTold
<1>4. UNCHANGED <<tokens, truth, outcome, log>>
  BY DEF Answered, Redirected, Follow
<1>5. (RenewalIsSpared /\ GoneIsProven /\ ProbeIsOfTheDesc)'
  BY <1>1, <1>4, NothingTold DEF Shape
<1>6. NoDigest \notin Digests
  BY RegistryAssumption
<1>7. QED BY <1>1, <1>3, <1>4, <1>5, <1>6 DEF Told, Described

\* A fault changes nothing but the counts.
LEMMA ToldRetry ==
    ASSUME Shape, Told, req.stage \in {"send", "token"}, NEW retryAfter \in Nat, Retry(retryAfter),
           UNCHANGED <<tokens, truth>>
    PROVE  Told'
<1>1. CASE Spent /\ log' = [log EXCEPT !.faults = @ + 1] /\ Ends("TransientError", "exhausted")
  <2>1. SameHistory
    BY <1>1 DEF Shape, LogShape, SameHistory
  <2>2. QED BY <1>1, <2>1, PlainEndsTold DEF PlainResults, Results, IndexBotErrors
<1>2. CASE /\ ~Spent
           /\ \E jitter \in Jitters :
                 log' = [log EXCEPT !.faults = @ + 1, !.asked = @ + 100 * retryAfter,
                                    !.waited = @ + Delay(req.attempt, jitter, retryAfter)]
           /\ req' = [req EXCEPT !.stage = "send", !.attempt = @ + 1]
           /\ UNCHANGED <<got, outcome>>
  <2>1. SameHistory
    BY <1>2 DEF Shape, LogShape, SameHistory
  <2>2. /\ req'.op = req.op /\ req'.get = req.get /\ req'.ref = req.ref /\ req'.seen = req.seen
        /\ req'.repo = req.repo /\ req'.authRetried = req.authRetried /\ req'.stage = "send"
        /\ req'.desc = req.desc
    BY <1>2 DEF Shape, Request
  <2>3. (RenewalIsSpared /\ GoneIsProven /\ ProbeIsOfTheDesc)'
    BY <1>2, NothingTold DEF Shape
  <2>4. QED BY <2>1, <2>2, <2>3 DEF Told, SameHistory, Described
<1>3. QED BY <1>1, <1>2 DEF Retry

LEMMA ToldUnauthorized == ASSUME Shape, Told, Unauthorized PROVE Told'
<1>0. req.stage = "send" /\ (Basic \/ tokens[req.repo] # "good") /\ UNCHANGED <<tokens, truth, log>>
  BY DEF Unauthorized
<1>1. SameHistory
  BY <1>0 DEF SameHistory
<1>2. CASE Basic
  <2>1. Ends("TransientError", "basic")
    BY <1>2 DEF Unauthorized
  <2>2. QED BY <1>1, <2>1, PlainEndsTold DEF PlainResults, Results, IndexBotErrors
<1>3. CASE ~Basic /\ req.authRetried
  <2>1. Ends("TransientError", "unauthorized") /\ log.lapsed
    BY <1>0, <1>3 DEF Unauthorized, Told
  <2>2. QED BY <1>1, <2>1, EndsTold
<1>4. CASE ~Basic /\ ~req.authRetried
  <2>1. req' = [req EXCEPT !.stage = "token"] /\ UNCHANGED <<got, outcome>>
    BY <1>4 DEF Unauthorized
  <2>2. /\ req'.op = req.op /\ req'.get = req.get /\ req'.ref = req.ref /\ req'.seen = req.seen
        /\ req'.repo = req.repo /\ req'.authRetried = req.authRetried /\ req'.stage = "token"
        /\ req'.desc = req.desc
    BY <2>1 DEF Shape, Request
  <2>3. (RenewalIsSpared /\ GoneIsProven /\ ProbeIsOfTheDesc)'
    BY <1>0, <2>1, NothingTold DEF Shape
  <2>4. QED BY <1>0, <2>2, <2>3 DEF Told, Described
<1>5. QED BY <1>2, <1>3, <1>4

LEMMA ToldTokenIssued == ASSUME Shape, Told, TokenIssued PROVE Told'
<1>1. /\ req.stage = "token" /\ tokens' = [tokens EXCEPT ![req.repo] = "good"]
      /\ req' = [req EXCEPT !.stage = "send", !.authRetried = TRUE]
      /\ UNCHANGED <<got, truth, outcome, log>>
  BY DEF TokenIssued
<1>2. /\ req'.op = req.op /\ req'.get = req.get /\ req'.ref = req.ref /\ req'.seen = req.seen
      /\ req'.repo = req.repo /\ req'.stage = "send" /\ req.repo \in Repos /\ req'.desc = req.desc
  BY <1>1 DEF Shape, Request
<1>3. tokens'[req'.repo] = "good"
  BY <1>1, <1>2 DEF Shape
<1>4. (RenewalIsSpared /\ GoneIsProven /\ ProbeIsOfTheDesc)'
  BY <1>1, NothingTold DEF Shape
<1>5. QED BY <1>1, <1>2, <1>3, <1>4 DEF Told, Described

LEMMA ToldStep == ASSUME Shape, Told, [Next]_vars PROVE Told'
<1>1. CASE UNCHANGED vars
  BY <1>1 DEF vars, Told, Described, RenewalIsSpared, GoneIsProven, ProbeIsOfTheDesc
<1>2. ASSUME NEW op \in Op, NEW repo \in Repos, Start(op, repo) PROVE Told'
  <2>1. (RenewalIsSpared /\ GoneIsProven /\ ProbeIsOfTheDesc)'
    BY <1>2, StartEffect, NothingTold
  <2>2. /\ req'.stage = "send" /\ req'.op = op /\ ~req'.authRetried
        /\ op = "check_tag_gone" => req'.get = "tag"
        /\ op = "probe_ownership" => req'.get = "desc"
        /\ op = "check_desc_change" => req'.get = "desc"
        /\ req'.get # "description" /\ (req'.get = "blob" => op = "get_blob")
    BY <1>2, StartEffect
  <2>3. log'.absent = ~truth'.held /\ log'.descs = {truth'.desc}
    BY <1>2, StartEffect
  <2>4. (truth'.held \/ log'.absent) /\ truth'.desc \in log'.descs
    BY <2>3
  <2>5. QED BY <2>1, <2>2, <2>4 DEF Told
<1>3. ASSUME NEW op \in Op, NEW repo \in Repos, Unrouted(op, repo) PROVE Told'
  <2>1. outcome'.why = "" /\ outcome'.result = SeenBy(op, "ValidationError")
    BY <1>3 DEF Unrouted, NoOutcome
  <2>2. SeenBy(op, "ValidationError") \notin {"gone", "confirmed", "mismatch", "changed"}
    BY DEF SeenBy, IndexBotErrors
  <2>3. (RenewalIsSpared /\ GoneIsProven /\ ProbeIsOfTheDesc)'
    BY <2>1, <2>2 DEF RenewalIsSpared, GoneIsProven, ProbeIsOfTheDesc
  <2>4. QED BY <1>3, <2>3 DEF Unrouted, Told, Described
<1>4. CASE TokenLapses
  <2>1. PICK r \in Repos :
            /\ tokens' = [tokens EXCEPT ![r] = "lapsed"]
            /\ req.stage # "idle" /\ r = req.repo => log'.lapsed
    BY <1>4, LapseEffect
  <2>2. /\ log'.absent = log.absent /\ log'.descs = log.descs
        /\ log.lapsed => log'.lapsed
        /\ UNCHANGED <<req, got, truth, outcome>>
    BY <1>4, LapseEffect
  <2>3. req.authRetried => tokens'[req.repo] = "good" \/ log'.lapsed
    BY <2>1, <2>2, IdleFields DEF Told, Shape
  <2>4. (RenewalIsSpared /\ GoneIsProven /\ ProbeIsOfTheDesc)'
    BY <2>2 DEF Told, RenewalIsSpared, GoneIsProven, ProbeIsOfTheDesc
  <2>5. QED BY <2>2, <2>3, <2>4 DEF Told, Described
<1>5. CASE Publish
  <2>1. /\ log'.lapsed = log.lapsed /\ log'.descs = log.descs \cup {truth'.desc}
        /\ (log.absent => log'.absent) /\ (truth'.held \/ log'.absent)
        /\ UNCHANGED <<tokens, req, got, outcome>>
    BY <1>5, PublishEffect
  <2>2. (RenewalIsSpared /\ GoneIsProven /\ ProbeIsOfTheDesc)'
    BY <2>1 DEF Told, RenewalIsSpared, GoneIsProven, ProbeIsOfTheDesc
  <2>3. QED BY <2>1, <2>2 DEF Told, Described
<1>6. CASE TransportFails
  BY <1>6, ToldRetry DEF TransportFails
<1>7. CASE Retryable
  BY <1>7, ToldRetry, RegistryAssumption DEF Retryable
<1>8. CASE TokenDenied \/ TokenRefused \/ Denied \/ FollowBreaks
  <2>1. PICK result \in {"ValidationError", "HTTPStatusError", "TransportError"} :
            Ends(result, "") /\ UNCHANGED log
    BY <1>8 DEF TokenDenied, TokenRefused, Denied, FollowBreaks
  <2>2. QED BY <2>1, PlainEndsTold DEF PlainResults, Results, IndexBotErrors, BareErrors, SameHistory
<1>9. CASE FollowEnds
  BY <1>9, PlainEndsTold DEF FollowEnds, PlainResults, Results, IndexBotErrors, SameHistory
<1>10. CASE RaiseForStatus
  BY <1>10, PlainConcludesTold DEF RaiseForStatus, PlainResults, Results, BareErrors
<1>11. QED BY <1>1, <1>2, <1>3, <1>4, <1>5, <1>6, <1>7, <1>8, <1>9, <1>10, ToldUnauthorized,
              ToldTokenIssued, ToldAnswered, ToldDeliverTags, ToldDeliverManifest, ToldDeliverDesc,
              ToldDeliverDescription, ToldDeliverBlob DEF Next, Client

LEMMA ToldInit == Init => Told
<1> SUFFICES ASSUME Init PROVE Told
  OBVIOUS
<1>1. RenewalIsSpared /\ GoneIsProven /\ ProbeIsOfTheDesc
  BY NothingSaid DEF Init, RenewalIsSpared, GoneIsProven, ProbeIsOfTheDesc
<1>2. QED BY <1>1, IdleFields DEF Init, Told

LEMMA AlwaysTold == Spec => []Told
<1>1. Init => Shape /\ Told
  BY InitShape, ToldInit
<1>2. Shape /\ Told /\ [Next]_vars => (Shape /\ Told)'
  BY ShapeStep, ToldStep
<1>3. QED BY <1>1, <1>2, PTL DEF Spec

\* A read fails for a refused token only when the token lapsed under it, whatever
\* became of the fetches that should have renewed it (_send, _fetch_token).
THEOREM RenewalAlwaysSpared == Spec => []RenewalIsSpared
<1>1. Told => RenewalIsSpared
  BY DEF Told
<1>2. QED BY <1>1, AlwaysTold, PTL

\* check_tag_gone says gone of nothing that was there all the while it asked,
\* through retries, renewals and redirects.
THEOREM GoneAlwaysProven == Spec => []GoneIsProven
<1>1. Told => GoneIsProven
  BY DEF Told
<1>2. QED BY <1>1, AlwaysTold, PTL

\* probe_ownership judges a manifest the description tag pointed at while it read,
\* whatever was published between its two requests.  check_desc_change asks twice by
\* the tag: the digest it returns and the manifest it took the content from are each
\* one the tag pointed at in that time, and need not be the same one.
THEOREM ProbeAlwaysOfTheDesc == Spec => []ProbeIsOfTheDesc
<1>1. Told => ProbeIsOfTheDesc
  BY DEF Told
<1>2. QED BY <1>1, AlwaysTold, PTL

-----------------------------------------------------------------------------
(* Every read runs out of requests: each step of the client comes nearer to *)
(* its end, in an order no read can descend forever.                        *)

LexBelow(n, a, b) == \E k \in 1 .. n : a[k] < b[k] /\ \A i \in 1 .. k - 1 : a[i] = b[i]
Lex(n) == {pair \in [1 .. n -> Nat] \X [1 .. n -> Nat] : LexBelow(n, pair[1], pair[2])}

LEMMA LeastNumber ==
    ASSUME NEW V, V \subseteq Nat, V # {} PROVE \E v \in V : \A w \in V : v <= w
<1> DEFINE Below == OpToRel(<, Nat)
<1>1. IsWellFoundedOn(Below, Nat)
  BY NatLessThanWellFounded
<1>2. \A m, n \in Nat : m < n => <<m, n>> \in Below
  BY DEF OpToRel
<1> HIDE DEF Below
<1>3. PICK v \in V : \A w \in V : <<w, v>> \notin Below
  BY <1>1, WFMin
<1>4. ASSUME NEW w \in V PROVE v <= w
  <2>1. v \in Nat /\ w \in Nat /\ ~(w < v)
    BY <1>2, <1>3
  <2>2. QED BY <2>1
<1>5. QED BY <1>4

\* Minimal in the first k places, place after place.
Minimal(k, x, T) ==
    \A y \in T : \A j \in 1 .. k : (\A i \in 1 .. j - 1 : y[i] = x[i]) => x[j] <= y[j]

LEMMA LexMinimal ==
    ASSUME NEW n \in Nat, NEW T, T \subseteq [1 .. n -> Nat], T # {}
    PROVE  \E x \in T : Minimal(n, x, T)
<1> DEFINE S == {k \in Nat : k <= n => \E x \in T : Minimal(k, x, T)}
<1>1. 0 \in S
  BY DEF Minimal
<1>2. ASSUME NEW k \in Nat, k \in S PROVE k + 1 \in S
  <2> SUFFICES ASSUME k + 1 <= n PROVE \E z \in T : Minimal(k + 1, z, T)
    OBVIOUS
  <2>1. PICK x \in T : Minimal(k, x, T)
    BY <1>2
  <2> DEFINE U == {y \in T : \A i \in 1 .. k : y[i] = x[i]}
             V == {y[k + 1] : y \in U}
  <2>2. V \subseteq Nat /\ V # {}
    <3>1. x \in U
      OBVIOUS
    <3>2. \A y \in T : y[k + 1] \in Nat
      OBVIOUS
    <3>3. QED BY <3>1, <3>2
  <2>3. PICK v \in V : \A w \in V : v <= w
    <3> HIDE DEF V
    <3>1. QED BY <2>2, LeastNumber
  <2>4. PICK z \in U : z[k + 1] = v
    BY <2>3
  <2>5. z \in T /\ \A i \in 1 .. k : z[i] = x[i]
    BY <2>4
  <2>6. \A y \in U : z[k + 1] <= y[k + 1]
    BY <2>3, <2>4
  <2>7. ASSUME NEW y \in T, NEW j \in 1 .. k + 1, \A i \in 1 .. j - 1 : y[i] = z[i]
        PROVE  z[j] <= y[j]
    <3>1. CASE j = k + 1
      <4>1. y \in U
        BY <2>5, <2>7, <3>1
      <4> HIDE DEF U
      <4>2. QED BY <2>6, <3>1, <4>1
    <3>2. CASE j \in 1 .. k
      <4>1. \A i \in 1 .. j - 1 : y[i] = x[i]
        BY <2>5, <2>7, <3>2
      <4>2. x[j] <= y[j]
        BY <2>1, <3>2, <4>1 DEF Minimal
      <4>3. QED BY <2>5, <3>2, <4>2
    <3>3. QED BY <3>1, <3>2
  <2>8. Minimal(k + 1, z, T)
    BY <2>7 DEF Minimal
  <2>9. QED BY <2>5, <2>8
<1>3. n \in S
  <2> HIDE DEF S
  <2>1. QED BY <1>1, <1>2, Induction
<1>4. QED BY <1>3

LEMMA LexWellFounded == ASSUME NEW n \in Nat PROVE IsWellFoundedOn(Lex(n), [1 .. n -> Nat])
<1>1. ASSUME NEW T \in SUBSET [1 .. n -> Nat], T # {}
      PROVE  \E x \in T : \A y \in T : <<y, x>> \notin Lex(n)
  <2>1. PICK x \in T : Minimal(n, x, T)
    BY <1>1, LexMinimal
  <2>2. ASSUME NEW y \in T, <<y, x>> \in Lex(n) PROVE FALSE
    <3>1. PICK k \in 1 .. n : y[k] < x[k] /\ \A i \in 1 .. k - 1 : y[i] = x[i]
      BY <2>2 DEF Lex, LexBelow
    <3>2. x[k] <= y[k]
      BY <2>1, <3>1 DEF Minimal
    <3>3. QED BY <3>1, <3>2
  <2>3. QED BY <2>2
<1>2. QED BY <1>1, MinWF

\* How many kinds of request may still follow one for this.
Ahead(get) ==
    CASE get = "tags" -> 3
      [] get \in {"tag", "desc"} -> 2
      [] get \in {"digest", "description"} -> 1
      [] get = "blob" -> 0

Unfinished(stage) ==
    CASE stage = "send" -> 2
      [] stage \in {"token", "follow"} -> 1
      [] stage \in {"received", "idle"} -> 0

\* What a read still has before it, the weightiest first: kinds of request, pages,
\* tags or layers, attempts, the renewal, what is left of the attempt, redirects.
ToGo(r) ==
    [i \in 1 .. 7 |->
        CASE i = 1 -> Ahead(r.get)
          [] i = 2 -> MaxPages - r.page
          [] i = 3 -> r.left
          [] i = 4 -> MaxAttempts - r.attempt
          [] i = 5 -> IF r.authRetried THEN 0 ELSE 1
          [] i = 6 -> Unfinished(r.stage)
          [] i = 7 -> MaxRedirects - r.hops]

Nearer(r, s) == LexBelow(7, ToGo(s), ToGo(r))

LEMMA ToGoType == ASSUME NEW r \in Request PROVE ToGo(r) \in [1 .. 7 -> Nat]
<1>1. Ahead(r.get) \in Nat
  BY DEF Request, Resource, Ahead
<1>2. MaxPages - r.page \in Nat /\ MaxAttempts - r.attempt \in Nat /\ MaxRedirects - r.hops \in Nat
  BY Ranges DEF Request
<1>3. r.left \in Nat /\ Unfinished(r.stage) \in Nat
  BY DEF Request, Unfinished
<1>4. \A i \in 1 .. 7 : i \in {1, 2, 3, 4, 5, 6, 7}
  OBVIOUS
<1>5. QED BY <1>1, <1>2, <1>3, <1>4 DEF ToGo

\* No read comes nearer to its end forever (core/backoff.py, adapters/registry_v2.py:
\* attempts, renewals, redirects, pages, tags and layers are all bounded).
THEOREM ReadsRunOut == IsWellFoundedOn({pair \in Request \X Request : Nearer(pair[2], pair[1])}, Request)
<1> DEFINE Before == {pair \in Request \X Request : Nearer(pair[2], pair[1])}
<1>1. SUFFICES ASSUME NEW f \in [Nat -> Request], \A n \in Nat : <<f[n + 1], f[n]>> \in Before
               PROVE  FALSE
  BY DEF IsWellFoundedOn
<1> DEFINE g == [n \in Nat |-> ToGo(f[n])]
<1>2. g \in [Nat -> [1 .. 7 -> Nat]]
  BY ToGoType
<1>3. ASSUME NEW n \in Nat PROVE <<g[n + 1], g[n]>> \in Lex(7)
  <2>1. Nearer(f[n], f[n + 1])
    BY <1>1
  <2>2. LexBelow(7, g[n + 1], g[n])
    BY <2>1 DEF Nearer
  <2>3. g[n + 1] \in [1 .. 7 -> Nat] /\ g[n] \in [1 .. 7 -> Nat]
    BY <1>2
  <2> HIDE DEF g
  <2>4. QED BY <2>2, <2>3 DEF Lex
<1> HIDE DEF g
<1>4. IsWellFoundedOn(Lex(7), [1 .. 7 -> Nat])
  BY LexWellFounded
<1>5. QED BY <1>2, <1>3, <1>4 DEF IsWellFoundedOn

\* Coming nearer, place by place.
LEMMA NearerBy ==
    ASSUME NEW r \in Request, NEW s \in Request
    PROVE  /\ Ahead(s.get) < Ahead(r.get) => Nearer(r, s)
           /\ s.get = r.get /\ r.page < s.page => Nearer(r, s)
           /\ s.get = r.get /\ s.page = r.page /\ s.left < r.left => Nearer(r, s)
           /\ s.get = r.get /\ s.page = r.page /\ s.left = r.left /\ r.attempt < s.attempt
                 => Nearer(r, s)
           /\ s.get = r.get /\ s.page = r.page /\ s.left = r.left /\ s.attempt = r.attempt
                 /\ ~r.authRetried /\ s.authRetried => Nearer(r, s)
           /\ s.get = r.get /\ s.page = r.page /\ s.left = r.left /\ s.attempt = r.attempt
                 /\ s.authRetried = r.authRetried /\ Unfinished(s.stage) < Unfinished(r.stage)
                 => Nearer(r, s)
           /\ s.get = r.get /\ s.page = r.page /\ s.left = r.left /\ s.attempt = r.attempt
                 /\ s.authRetried = r.authRetried /\ s.stage = r.stage /\ r.hops < s.hops
                 => Nearer(r, s)
<1> DEFINE a == ToGo(s)
           b == ToGo(r)
<1>1. /\ a[1] = Ahead(s.get) /\ b[1] = Ahead(r.get)
      /\ a[2] = MaxPages - s.page /\ b[2] = MaxPages - r.page
      /\ a[3] = s.left /\ b[3] = r.left
      /\ a[4] = MaxAttempts - s.attempt /\ b[4] = MaxAttempts - r.attempt
      /\ a[5] = (IF s.authRetried THEN 0 ELSE 1) /\ b[5] = (IF r.authRetried THEN 0 ELSE 1)
      /\ a[6] = Unfinished(s.stage) /\ b[6] = Unfinished(r.stage)
      /\ a[7] = MaxRedirects - s.hops /\ b[7] = MaxRedirects - r.hops
  BY DEF ToGo
<1>2. /\ MaxPages \in Nat /\ MaxAttempts \in Nat /\ MaxRedirects \in Nat
      /\ s.page \in Nat /\ r.page \in Nat /\ s.attempt \in Nat /\ r.attempt \in Nat
      /\ s.hops \in Nat /\ r.hops \in Nat
  BY Ranges DEF Request
<1> HIDE DEF a, b
<1>3. ASSUME NEW k \in 1 .. 7, a[k] < b[k], \A i \in 1 .. k - 1 : a[i] = b[i] PROVE Nearer(r, s)
  BY <1>3 DEF Nearer, LexBelow, a, b
<1>4. Ahead(s.get) < Ahead(r.get) => Nearer(r, s)
  BY <1>1, <1>3
<1>5. s.get = r.get /\ r.page < s.page => Nearer(r, s)
  <2> SUFFICES ASSUME s.get = r.get, r.page < s.page PROVE Nearer(r, s)
    OBVIOUS
  <2>1. a[2] < b[2] /\ a[1] = b[1]
    BY <1>1, <1>2
  <2>2. QED BY <1>3, <2>1
<1>6. s.get = r.get /\ s.page = r.page /\ s.left < r.left => Nearer(r, s)
  <2> SUFFICES ASSUME s.get = r.get, s.page = r.page, s.left < r.left PROVE Nearer(r, s)
    OBVIOUS
  <2>1. a[3] < b[3] /\ \A i \in 1 .. 2 : a[i] = b[i]
    BY <1>1
  <2>2. QED BY <1>3, <2>1
<1> DEFINE same == s.get = r.get /\ s.page = r.page /\ s.left = r.left
<1>7. same => \A i \in 1 .. 3 : a[i] = b[i]
  BY <1>1
<1>8. same /\ s.attempt = r.attempt => \A i \in 1 .. 4 : a[i] = b[i]
  BY <1>1
<1>9. same /\ s.attempt = r.attempt /\ s.authRetried = r.authRetried => \A i \in 1 .. 5 : a[i] = b[i]
  BY <1>1
<1>10. same /\ s.attempt = r.attempt /\ s.authRetried = r.authRetried /\ s.stage = r.stage
          => \A i \in 1 .. 6 : a[i] = b[i]
  BY <1>1
<1>11. r.attempt < s.attempt => a[4] < b[4]
  BY <1>1, <1>2
<1>12. ~r.authRetried /\ s.authRetried => a[5] < b[5]
  BY <1>1
<1>13. Unfinished(s.stage) < Unfinished(r.stage) => a[6] < b[6]
  BY <1>1
<1>14. r.hops < s.hops => a[7] < b[7]
  BY <1>1, <1>2
<1> HIDE DEF same
<1>15. /\ same /\ r.attempt < s.attempt => Nearer(r, s)
       /\ same /\ s.attempt = r.attempt /\ ~r.authRetried /\ s.authRetried => Nearer(r, s)
  <2>1. ASSUME same, r.attempt < s.attempt PROVE Nearer(r, s)
    <3>1. 4 \in 1 .. 7 /\ 4 - 1 = 3
      OBVIOUS
    <3>2. QED BY <1>3, <1>7, <1>11, <2>1, <3>1
  <2>2. ASSUME same, s.attempt = r.attempt, ~r.authRetried, s.authRetried PROVE Nearer(r, s)
    <3>1. 5 \in 1 .. 7 /\ 5 - 1 = 4
      OBVIOUS
    <3>2. QED BY <1>3, <1>8, <1>12, <2>2, <3>1
  <2>3. QED BY <2>1, <2>2
<1>16. /\ same /\ s.attempt = r.attempt /\ s.authRetried = r.authRetried
             /\ Unfinished(s.stage) < Unfinished(r.stage) => Nearer(r, s)
       /\ same /\ s.attempt = r.attempt /\ s.authRetried = r.authRetried /\ s.stage = r.stage
             /\ r.hops < s.hops => Nearer(r, s)
  <2>1. ASSUME same, s.attempt = r.attempt, s.authRetried = r.authRetried,
               Unfinished(s.stage) < Unfinished(r.stage)
        PROVE  Nearer(r, s)
    <3>1. 6 \in 1 .. 7 /\ 6 - 1 = 5
      OBVIOUS
    <3>2. QED BY <1>3, <1>9, <1>13, <2>1, <3>1
  <2>2. ASSUME same, s.attempt = r.attempt, s.authRetried = r.authRetried, s.stage = r.stage,
               r.hops < s.hops
        PROVE  Nearer(r, s)
    <3>1. 7 \in 1 .. 7 /\ 7 - 1 = 6
      OBVIOUS
    <3>2. QED BY <1>3, <1>10, <1>14, <2>2, <3>1
  <2>3. QED BY <2>1, <2>2
<1>17. QED BY <1>4, <1>5, <1>6, <1>15, <1>16 DEF same

LEMMA AnotherNearer ==
    ASSUME Shape, NEW next \in Request, Another(next),
           \/ Ahead(next.get) < Ahead(req.get)
           \/ next.get = req.get /\ req.page < next.page
           \/ next.get = req.get /\ next.page = req.page /\ next.left < req.left
    PROVE  Nearer(req, req')
<1>1. req \in Request
  BY DEF Shape
<1>2. /\ req' \in Request
      /\ req'.get = next.get /\ req'.page = next.page /\ req'.left = next.left
  BY Ranges DEF Another, Request
<1>3. QED BY <1>1, <1>2, NearerBy

\* A step that ends the read, or brings it nearer to its end.
Closer == req'.stage = "idle" \/ Nearer(req, req')

LEMMA EndsCloser == ASSUME NEW result, NEW why, Ends(result, why) PROVE Closer
  BY EndsEffect DEF Closer

LEMMA ConcludesCloser == ASSUME NEW result, Concludes(result) PROVE Closer
  BY EndsCloser DEF Concludes

\* A request that has been given its new token is not renewed again.
TokenFresh == req.stage = "token" => ~req.authRetried

LEMMA RetryCloser ==
    ASSUME Shape, Shape', NEW retryAfter, Retry(retryAfter) PROVE Closer
<1>1. CASE Ends("TransientError", "exhausted")
  BY <1>1, EndsCloser
<1>2. CASE req' = [req EXCEPT !.stage = "send", !.attempt = @ + 1]
  <2>1. req \in Request /\ req' \in Request
    BY DEF Shape
  <2>2. /\ req'.get = req.get /\ req'.page = req.page /\ req'.left = req.left
        /\ req'.attempt = req.attempt + 1
    BY <1>2, <2>1 DEF Request
  <2>3. req.attempt < req'.attempt
    BY <2>1, <2>2, Ranges DEF Request
  <2>4. QED BY <2>1, <2>2, <2>3, NearerBy DEF Closer
<1>3. QED BY <1>1, <1>2 DEF Retry

\* What happens to one request of a read.
LEMMA RequestCloser ==
    ASSUME Shape, Shape', TokenFresh,
           Unauthorized \/ TokenIssued \/ Answered \/ Redirected \/ Follow
    PROVE  Closer
<1>1. req \in Request /\ req' \in Request
  BY DEF Shape
<1>2. CASE Unauthorized
  <2>1. CASE req.authRetried \/ Basic
    BY <1>2, <2>1, EndsCloser DEF Unauthorized
  <2>2. CASE ~(req.authRetried \/ Basic)
    <3>1. req' = [req EXCEPT !.stage = "token"] /\ req.stage = "send"
      BY <1>2, <2>2 DEF Unauthorized
    <3>2. /\ req'.get = req.get /\ req'.page = req.page /\ req'.left = req.left
          /\ req'.attempt = req.attempt /\ req'.authRetried = req.authRetried
          /\ Unfinished(req'.stage) < Unfinished(req.stage)
      BY <1>1, <3>1 DEF Request, Unfinished
    <3>3. QED BY <1>1, <3>2, NearerBy DEF Closer
  <2>3. QED BY <2>1, <2>2
<1>3. CASE TokenIssued
  <2>1. req' = [req EXCEPT !.stage = "send", !.authRetried = TRUE] /\ ~req.authRetried
    BY <1>3 DEF TokenIssued, TokenFresh
  <2>2. /\ req'.get = req.get /\ req'.page = req.page /\ req'.left = req.left
        /\ req'.attempt = req.attempt /\ ~req.authRetried /\ req'.authRetried
    BY <1>1, <2>1 DEF Request
  <2>3. QED BY <1>1, <2>2, NearerBy DEF Closer
<1>4. CASE Answered \/ Redirected
  <2>1. PICK stage \in {"received", "follow"} :
            req' = [req EXCEPT !.stage = stage] \/ req' = [req EXCEPT !.stage = stage, !.hops = 0]
    BY <1>4 DEF Answered, Redirected
  <2>2. req.stage = "send"
    BY <1>4 DEF Answered, Redirected
  <2>3. /\ req'.get = req.get /\ req'.page = req.page /\ req'.left = req.left
        /\ req'.attempt = req.attempt /\ req'.authRetried = req.authRetried
        /\ req'.stage = stage
    BY <1>1, <2>1 DEF Request
  <2>4. Unfinished(req'.stage) < Unfinished(req.stage)
    BY <2>2, <2>3 DEF Unfinished
  <2>5. QED BY <1>1, <2>3, <2>4, NearerBy DEF Closer
<1>5. CASE Follow
  <2>1. PICK stage \in {"follow", "received"} : req' = [req EXCEPT !.stage = stage, !.hops = @ + 1]
    BY <1>5 DEF Follow
  <2>2. req.stage = "follow"
    BY <1>5 DEF Follow
  <2>3. /\ req'.get = req.get /\ req'.page = req.page /\ req'.left = req.left
        /\ req'.attempt = req.attempt /\ req'.authRetried = req.authRetried
        /\ req'.stage = stage /\ req'.hops = req.hops + 1
    BY <1>1, <2>1 DEF Request
  <2>4. CASE stage = "follow"
    <3>1. req.hops < req'.hops
      BY <1>1, <2>3, Ranges DEF Request
    <3>2. req'.stage = req.stage
      BY <2>2, <2>3, <2>4
    <3>3. QED BY <1>1, <2>3, <3>1, <3>2, NearerBy DEF Closer
  <2>5. CASE stage = "received"
    <3>1. Unfinished(req'.stage) < Unfinished(req.stage)
      BY <2>2, <2>3, <2>5 DEF Unfinished
    <3>2. QED BY <1>1, <2>3, <3>1, NearerBy DEF Closer
  <2>6. QED BY <2>4, <2>5
<1>6. QED BY <1>2, <1>3, <1>4, <1>5

LEMMA FetchLayerCloser ==
    ASSUME Shape, NEW seen \in Refs, NEW left \in Nat, FetchLayer(seen, left),
           (req.get = "blob" /\ left = req.left) \/ req.get = "description"
    PROVE  Closer
<1>1. CASE left = 0
  BY <1>1, ConcludesCloser DEF FetchLayer
<1>2. CASE left # 0
  <2>1. PICK d \in Digests :
            Another([req EXCEPT !.get = "blob", !.ref = d, !.seen = seen, !.left = left - 1])
    BY <1>2 DEF FetchLayer
  <2> DEFINE next == [req EXCEPT !.get = "blob", !.ref = d, !.seen = seen, !.left = left - 1]
  <2>2. left - 1 \in Nat /\ req \in Request
    BY <1>2 DEF Shape
  <2>3. next \in Request
    BY <2>2, NextRequest
  <2>4. next.get = "blob" /\ next.page = req.page /\ next.left = left - 1
    BY <2>2 DEF Request
  <2>5. Another(next)
    BY <2>1
  <2> HIDE DEF next
  <2>6. \/ Ahead(next.get) < Ahead(req.get)
        \/ next.get = req.get /\ next.page = req.page /\ next.left < req.left
    <3>1. CASE req.get = "blob" /\ left = req.left
      BY <2>2, <2>4, <3>1
    <3>2. CASE req.get = "description"
      BY <2>4, <3>2 DEF Ahead
    <3>3. QED BY <3>1, <3>2
  <2>7. QED BY <2>3, <2>5, <2>6, AnotherNearer DEF Closer
<1>3. QED BY <1>1, <1>2

LEMMA DeliverTagsCloser == ASSUME Shape, DeliverTags PROVE Closer
<1>1. req.get = "tags" /\ req \in Request
  BY DEF DeliverTags, Received, Shape
<1>2. ASSUME Sweep PROVE Closer
  <2>1. PICK n \in 0 .. MaxListed :
            IF n = 0 THEN Concludes("value") ELSE Another([req EXCEPT !.get = "tag", !.left = n - 1])
    BY <1>2 DEF Sweep
  <2>2. CASE n = 0
    BY <2>1, <2>2, ConcludesCloser
  <2>3. CASE n # 0
    <3> DEFINE next == [req EXCEPT !.get = "tag", !.left = n - 1]
    <3>1. n - 1 \in Nat
      BY <2>3, RegistryAssumption
    <3>2. next \in Request
      BY <3>1, NextRequest
    <3>3. Ahead(next.get) < Ahead(req.get)
      BY <1>1 DEF Ahead, Request
    <3>4. Another(next)
      BY <2>1, <2>3
    <3> HIDE DEF next
    <3>5. QED BY <3>2, <3>3, <3>4, AnotherNearer DEF Closer
  <2>4. QED BY <2>2, <2>3
<1>3. ASSUME req.page < MaxPages, Another([req EXCEPT !.page = @ + 1]) PROVE Closer
  <2> DEFINE next == [req EXCEPT !.page = @ + 1]
  <2>1. next \in Request /\ next.get = req.get /\ req.page < next.page
    <3>1. next \in Request
      BY <1>3, NextRequest
    <3>2. next.get = req.get /\ next.page = req.page + 1
      BY <1>1 DEF Request
    <3>3. req.page \in Nat
      BY <1>1, Ranges DEF Request
    <3> HIDE DEF next
    <3>4. QED BY <3>1, <3>2, <3>3
  <2>2. Another(next)
    BY <1>3
  <2> HIDE DEF next
  <2>3. QED BY <2>1, <2>2, AnotherNearer DEF Closer
<1>4. QED BY <1>2, <1>3, ConcludesCloser, EndsCloser DEF DeliverTags

LEMMA DeliverManifestCloser == ASSUME Shape, DeliverManifest PROVE Closer
<1>1. ASSUME ObserveNext PROVE Closer
  <2>1. CASE req.left = 0
    BY <1>1, <2>1, ConcludesCloser DEF ObserveNext
  <2>2. CASE req.left # 0
    <3> DEFINE next == [req EXCEPT !.left = @ - 1]
    <3>1. req \in Request
      BY DEF Shape
    <3>2. /\ next \in Request /\ next.get = req.get /\ next.page = req.page
          /\ next.left < req.left
      <4>1. next \in Request
        BY <2>2, NextRequest
      <4>2. next.get = req.get /\ next.page = req.page /\ next.left = req.left - 1
        BY <3>1 DEF Request
      <4>3. req.left \in Nat
        BY <3>1 DEF Request
      <4> HIDE DEF next
      <4>4. QED BY <4>1, <4>2, <4>3
    <3>3. Another(next)
      BY <1>1, <2>2 DEF ObserveNext
    <3> HIDE DEF next
    <3>4. QED BY <3>2, <3>3, AnotherNearer DEF Closer
  <2>3. QED BY <2>1, <2>2
<1>2. QED BY <1>1, ConcludesCloser DEF DeliverManifest

LEMMA DeliverDescCloser == ASSUME Shape, DeliverDesc PROVE Closer
<1>1. req.get = "desc" /\ req \in Request
  BY DEF DeliverDesc, Received, Shape
<1>2. ASSUME NEW next \in Request, next.get \in {"digest", "description"}, Another(next) PROVE Closer
  <2>1. Ahead(next.get) < Ahead(req.get)
    BY <1>1, <1>2 DEF Ahead
  <2>2. QED BY <1>2, <2>1, AnotherNearer DEF Closer
<1>3. ASSUME NEW d \in Refs
      PROVE  /\ [req EXCEPT !.get = "description", !.desc = d] \in Request
             /\ [req EXCEPT !.get = "description", !.desc = d].get = "description"
  BY <1>1, NextRequest DEF Request
<1>4. ASSUME NEW digest \in Refs, CheckDescChange(digest) PROVE Closer
  BY <1>2, <1>3, <1>4, ConcludesCloser DEF CheckDescChange
<1>5. /\ [req EXCEPT !.get = "digest", !.ref = got.header] \in Request
      /\ [req EXCEPT !.get = "digest", !.ref = got.header].get = "digest"
  <2>1. got.header \in Refs
    BY DEF Shape, Response, Refs
  <2>2. QED BY <1>1, <2>1, NextRequest DEF Request
<1>6. got.header \in Refs /\ NoDigest \in Refs
  BY DEF Shape, Response, Refs
<1>7. QED BY <1>2, <1>4, <1>5, <1>6, ConcludesCloser DEF DeliverDesc

LEMMA DeliverDescriptionCloser == ASSUME Shape, DeliverDescription PROVE Closer
<1>1. req.get = "description"
  BY DEF DeliverDescription, Received
<1>2. got.body \in Digests /\ got.body \in Refs /\ Cardinality(Layers[got.body]) \in Nat
  BY LayersCounted DEF Shape, Response, Refs
<1>3. QED BY <1>1, <1>2, ConcludesCloser, FetchLayerCloser DEF DeliverDescription

LEMMA DeliverBlobCloser == ASSUME Shape, DeliverBlob PROVE Closer
<1>1. req.get = "blob" /\ req.seen \in Refs /\ req.left \in Nat
  BY DEF DeliverBlob, Received, Shape, Request, Refs
<1>2. QED BY <1>1, ConcludesCloser, FetchLayerCloser DEF DeliverBlob

LEMMA ClientCloser == ASSUME Shape, TokenFresh, Client PROVE Closer
<1>1. Shape'
  BY ClientShape
<1>2. CASE TransportFails \/ Retryable
  BY <1>1, <1>2, RetryCloser DEF TransportFails, Retryable
<1>3. CASE TokenDenied \/ TokenRefused \/ Denied \/ FollowEnds \/ FollowBreaks
  BY <1>3, EndsCloser DEF TokenDenied, TokenRefused, Denied, FollowEnds, FollowBreaks
<1>4. CASE RaiseForStatus
  BY <1>4, ConcludesCloser DEF RaiseForStatus
<1>5. QED BY <1>1, <1>2, <1>3, <1>4, RequestCloser, DeliverTagsCloser, DeliverManifestCloser,
             DeliverDescCloser, DeliverDescriptionCloser, DeliverBlobCloser DEF Client

LEMMA AnotherFresh == ASSUME Shape', NEW next, Another(next) PROVE TokenFresh'
<1>1. req' = [next EXCEPT !.stage = "send", !.attempt = 1, !.authRetried = FALSE, !.hops = 0]
  BY DEF Another
<1>2. req' \in Request
  BY DEF Shape
<1>3. "stage" \in DOMAIN req'
  BY <1>2 DEF Request
<1>4. DOMAIN req' = DOMAIN next
  BY <1>1
<1>5. req'.stage = "send"
  BY <1>1, <1>3, <1>4
<1>6. QED BY <1>5 DEF TokenFresh

LEMMA FreshStep == ASSUME Shape, TokenFresh, [Next]_vars PROVE TokenFresh'
<1>0. req \in Request /\ Shape'
  BY ShapeStep DEF Shape
<1>1. ASSUME NEW result, NEW why, Ends(result, why) PROVE TokenFresh'
  BY <1>1, EndsEffect DEF TokenFresh
<1>2. ASSUME NEW result, Concludes(result) PROVE TokenFresh'
  BY <1>1, <1>2 DEF Concludes
<1>3. ASSUME req'.stage # "token" PROVE TokenFresh'
  BY <1>3 DEF TokenFresh
<1>4. CASE UNCHANGED vars \/ TokenLapses \/ Publish
  BY <1>4 DEF vars, TokenLapses, Publish, TokenFresh
<1>5. ASSUME NEW op \in Op, NEW repo \in Repos, Start(op, repo) \/ Unrouted(op, repo)
      PROVE  TokenFresh'
  BY <1>5, StartEffect DEF Unrouted, TokenFresh
<1>6. ASSUME NEW retryAfter, Retry(retryAfter) PROVE TokenFresh'
  <2>1. CASE Ends("TransientError", "exhausted")
    BY <1>1, <2>1
  <2>2. CASE req' = [req EXCEPT !.stage = "send", !.attempt = @ + 1]
    <3>1. req'.stage = "send"
      BY <1>0, <2>2 DEF Request
    <3>2. QED BY <1>3, <3>1
  <2>3. QED BY <1>6, <2>1, <2>2 DEF Retry
<1>7. CASE Unauthorized
  <2>1. CASE req.authRetried \/ Basic
    BY <1>1, <1>7, <2>1 DEF Unauthorized
  <2>2. CASE ~(req.authRetried \/ Basic)
    <3>1. req'.authRetried = req.authRetried
      BY <1>0, <1>7, <2>2 DEF Unauthorized, Request
    <3>2. QED BY <2>2, <3>1 DEF TokenFresh
  <2>3. QED BY <2>1, <2>2
<1>8. CASE TokenIssued \/ Answered \/ Redirected \/ Follow
  <2>1. req'.stage # "token"
    BY <1>0, <1>8 DEF TokenIssued, Answered, Redirected, Follow, Request
  <2>2. QED BY <1>3, <2>1
<1>9. CASE TransportFails \/ Retryable
  BY <1>6, <1>9 DEF TransportFails, Retryable
<1>10. CASE TokenDenied \/ TokenRefused \/ Denied \/ FollowEnds \/ FollowBreaks \/ RaiseForStatus
  BY <1>1, <1>2, <1>10 DEF TokenDenied, TokenRefused, Denied, FollowEnds, FollowBreaks, RaiseForStatus
<1>11. CASE DeliverTags
  BY <1>0, <1>1, <1>2, <1>11, AnotherFresh DEF DeliverTags, Sweep
<1>12. CASE DeliverManifest
  BY <1>0, <1>2, <1>12, AnotherFresh DEF DeliverManifest, ObserveNext
<1>13. CASE DeliverDesc
  BY <1>0, <1>2, <1>13, AnotherFresh DEF DeliverDesc, CheckDescChange
<1>14. CASE DeliverDescription \/ DeliverBlob
  BY <1>0, <1>2, <1>14, AnotherFresh DEF DeliverDescription, DeliverBlob, FetchLayer
<1>15. QED BY <1>4, <1>5, <1>7, <1>8, <1>9, <1>10, <1>11, <1>12, <1>13, <1>14 DEF Next, Client

\* While a read is under way, every step of the client ends it or brings it nearer
\* to its end, and nothing else touches it: the registry cannot set it back.
ReadsGetOn == req.stage # "idle" => \/ Client /\ Closer
                                    \/ ~Client /\ UNCHANGED req

\* Every step of a read brings it nearer to its end (_send, _follow, list_tags,
\* observe, check_desc_change), which by ReadsRunOut no read can do forever.
THEOREM EveryStepNearer == Spec => [][ReadsGetOn]_vars
<1>1. Init => Shape /\ TokenFresh
  BY InitShape, IdleFields DEF Init, TokenFresh
<1>2. Shape /\ TokenFresh /\ [Next]_vars => (Shape /\ TokenFresh)'
  BY ShapeStep, FreshStep
<1>3. Shape /\ TokenFresh /\ [Next]_vars => [ReadsGetOn]_vars
  <2> SUFFICES ASSUME Shape, TokenFresh, [Next]_vars, ~UNCHANGED vars, req.stage # "idle"
               PROVE  (Client /\ Closer) \/ (~Client /\ UNCHANGED req)
    BY DEF ReadsGetOn
  <2>1. CASE Client
    BY <2>1, ClientCloser
  <2>2. CASE TokenLapses \/ Publish
    BY <2>1, <2>2 DEF TokenLapses, Publish
  <2>3. ASSUME NEW op \in Op, NEW repo \in Repos, Start(op, repo) \/ Unrouted(op, repo) PROVE FALSE
    BY <2>3 DEF Start, Unrouted
  <2>4. QED BY <2>1, <2>2, <2>3 DEF Next
<1>4. QED BY <1>1, <1>2, <1>3, PTL DEF Spec
=============================================================================
