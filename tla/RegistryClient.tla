---------------------------- MODULE RegistryClient ----------------------------
(***************************************************************************)
(* The registry client (adapters/registry_v2.py): one logical read is a     *)
(* loop of requests in which a token renewal, a retry budget, redirects and  *)
(* pages meet, and what leaves it is an answer or an exception.  On top of   *)
(* it the checks of core/registry_checks.py, and core/backoff.py, which      *)
(* says how long a retry waits; and the two readers that make one answer of   *)
(* many reads, core/observe.py and core/desc.py.                              *)
(*                                                                         *)
(* The registries, their token endpoints and the storage they redirect to   *)
(* are modelled from how the client uses them: any request can be answered   *)
(* with any status or not at all, a token can lapse at any time, and what a  *)
(* tag points at can change between two requests.  They are honest in two    *)
(* things: a request with a good token is not answered 401, and              *)
(* MANIFEST_UNKNOWN is only said of a tag that is not there.                 *)
(***************************************************************************)
EXTENDS Integers, FiniteSets

CONSTANTS
    Repos,          \* oci://<host>/<path> repositories
    Hosts,          \* their registry hosts
    HostOf,         \* [Repos -> Hosts]
    Clients,        \* the hosts RoutedRegistry has a client for
    Auth,           \* [Hosts -> {"token", "basic"}]
    Digests,        \* manifest digests
    NoDigest,       \* no Docker-Content-Digest, or no __ocx.desc tag
    Names,          \* [Digests -> what the manifest says it is named]
    Indices,        \* digests of image indexes within the size ceiling
    Layers,         \* [Digests -> which layers a description manifest lists]
    MaxListed,      \* bound: tags of a repository that observe looks at
    MaxAttempts,    \* BackoffPolicy.max_attempts
    BaseDelay,      \* BackoffPolicy.base_delay_seconds
    MaxDelay,       \* BackoffPolicy.max_delay_seconds
    Jitters,        \* bound: values of random.random(), in hundredths
    RetryAfters,    \* bound: values of Retry-After in seconds, 0 for none
    MaxRedirects,   \* _MAX_REDIRECTS
    MaxPages        \* RegistryV2.max_pages

ASSUME RegistryAssumption ==
    /\ HostOf \in [Repos -> Hosts] /\ Repos # {}
    /\ Clients \subseteq Hosts
    /\ Auth \in [Hosts -> {"token", "basic"}]
    /\ Digests # {} /\ NoDigest \notin Digests
    /\ Names \in [Digests -> {"expected", "other", "none"}]
    /\ Indices \subseteq Digests
    /\ Layers \in [Digests -> SUBSET {"readme", "logo"}]
    /\ MaxListed \in Nat
    /\ MaxAttempts \in Nat \ {0} /\ BaseDelay \in Nat /\ MaxDelay \in Nat
    /\ Jitters \subseteq 0 .. 99 /\ RetryAfters \subseteq Nat
    /\ MaxRedirects \in Nat /\ MaxPages \in Nat \ {0}

VARIABLES
    tokens,         \* the pull token cached for each repository, and if it is still good
    req,            \* the logical read in progress and the request it is at
    got,            \* the response being looked at
    truth,          \* what the registry holds of that repository
    outcome,        \* how the last read ended
    log             \* history of the read: what it met on the way

vars == <<tokens, req, got, truth, outcome, log>>

\* The reads: the RegistryPort methods, the two checks on top of get_manifest that
\* turn its exceptions into something else, and the two readers of many requests.
Op == {"list_tags", "get_manifest", "get_desc_tag_digest", "get_blob", "probe_ownership",
       "check_tag_gone", "check_digest_in_scope", "observe", "check_desc_change"}

\* What the URL names: the tag list, a tag, the desc tag (HEAD, then GET), a manifest
\* by digest, a blob.
Resource == {"tags", "tag", "desc", "description", "digest", "blob"}

Status == {"ok", "missing", "unauthorized", "denied", "retryable", "refused", "redirect"}

IndexBotErrors == {"ValidationError", "AnomalyError", "TransientError"}
BareErrors == {"HTTPStatusError", "TransportError"}
Results == {"pending", "value", "absent", "confirmed", "mismatch", "unconfirmed", "gone", "kept",
            "unchanged", "changed", "ManifestUnknown", "KeyError", "ValueError"} \cup IndexBotErrors \cup BareErrors

Request == [stage : {"idle", "send", "token", "follow", "received"},
            op : Op, repo : Repos, get : Resource,
            ref : Digests \cup {NoDigest},  \* the digest asked for, if any
            attempt : 1 .. MaxAttempts, authRetried : BOOLEAN,
            hops : 0 .. MaxRedirects, page : 1 .. MaxPages,
            desc : Digests \cup {NoDigest},     \* of check_desc_change: the committed Desc.digest,
                                            \* and once the HEAD differs, the observed one
            seen : Digests \cup {NoDigest},     \* the description manifest it then got
            left : Nat]                     \* further tags or layers to read

\* What _parse_next_link finds: no next page, one, or one on another host.
NextLinks == {"none", "same", "cross"}

Response == [status : Status,
             located : BOOLEAN,             \* a redirect has a Location
             body : Digests,                \* what the bytes served hash to
             header : Digests \cup {NoDigest},
             unknown : BOOLEAN,             \* the OCI code is MANIFEST_UNKNOWN
             next : NextLinks]

Outcome == [op : Op, result : Results,
            of : Digests \cup {NoDigest},      \* the description manifest an answer is read from
            digest : Digests \cup {NoDigest},  \* Desc.digest as check_desc_change returns it
            why : {"", "exhausted", "unauthorized", "basic", "redirects", "pages"}]

Log == [faults : Nat,                       \* of the request: retryable answers, transport failures
        asked : Nat, waited : Nat,          \* of the request, in hundredths of a second
        absent : BOOLEAN,                   \* the tag was not there at some time
        descs : SUBSET (Digests \cup {NoDigest}),   \* where the desc tag pointed
        lapsed : BOOLEAN]                   \* a token lapsed meanwhile

TypeOK ==
    /\ tokens \in [Repos -> {"none", "good", "lapsed"}]
    /\ req \in Request
    /\ got \in Response
    /\ truth \in [held : BOOLEAN, desc : Digests \cup {NoDigest}]
    /\ outcome \in Outcome
    /\ log \in Log

-----------------------------------------------------------------------------
(* core/backoff.py, in hundredths of a second.                             *)

Smaller(a, b) == IF a < b THEN a ELSE b

\* 2 ** n
Doubled[n \in Nat] == IF n = 0 THEN 1 ELSE 2 * Doubled[n - 1]

\* Mutant: the cap is put on what the registry asked for, too.
DelayCapped(attempt, jitter, retryAfter) ==
    IF retryAfter > 0
    THEN 100 * Smaller(MaxDelay, retryAfter)
    ELSE Smaller(MaxDelay, BaseDelay * Doubled[attempt - 1]) * (50 + jitter)

\* A positive Retry-After wins outright.
Delay(attempt, jitter, retryAfter) ==
    IF retryAfter > 0
    THEN 100 * retryAfter
    ELSE Smaller(MaxDelay, BaseDelay * Doubled[attempt - 1]) * (50 + jitter)

-----------------------------------------------------------------------------
IdleRequest ==
    [stage |-> "idle", op |-> "list_tags", repo |-> CHOOSE r \in Repos : TRUE, get |-> "tags",
     ref |-> NoDigest, attempt |-> 1, authRetried |-> FALSE, hops |-> 0, page |-> 1,
     desc |-> NoDigest, seen |-> NoDigest, left |-> 0]

NoResponse ==
    [status |-> "ok", located |-> FALSE, body |-> CHOOSE d \in Digests : TRUE, header |-> NoDigest,
     unknown |-> FALSE, next |-> "none"]

NoOutcome == [op |-> "list_tags", result |-> "pending", of |-> NoDigest, digest |-> NoDigest, why |-> ""]

EmptyLog == [faults |-> 0, asked |-> 0, waited |-> 0, absent |-> FALSE, descs |-> {},
             lapsed |-> FALSE]

Init ==
    /\ tokens = [r \in Repos |-> "none"]
    /\ req = IdleRequest /\ got = NoResponse
    /\ truth = [held |-> TRUE, desc |-> NoDigest]
    /\ outcome = NoOutcome
    /\ log = EmptyLog

Basic == Auth[HostOf[req.repo]] = "basic"

\* What each method asks for first.
Target(op) ==
    CASE op \in {"list_tags", "observe"} -> {[get |-> "tags", ref |-> NoDigest]}
      [] op = "get_manifest" -> {[get |-> "tag", ref |-> NoDigest]}
                                \cup {[get |-> "digest", ref |-> d] : d \in Digests}
      [] op \in {"get_desc_tag_digest", "probe_ownership", "check_desc_change"} -> {[get |-> "desc", ref |-> NoDigest]}
      [] op = "get_blob" -> {[get |-> "blob", ref |-> d] : d \in Digests}
      [] op = "check_tag_gone" -> {[get |-> "tag", ref |-> NoDigest]}
      [] op = "check_digest_in_scope" -> {[get |-> "digest", ref |-> d] : d \in Digests}

\* Mutant: every way of not finding the tag is taken for a proof that it is gone.
SeenByAnyMissing(op, result) ==
    IF op = "check_tag_gone" /\ result \in {"ManifestUnknown", "KeyError"} THEN "gone" ELSE result

\* What the caller of op sees when the read underneath ends in result: the checks
\* catch what the port raises.
SeenBy(op, result) ==
    CASE op = "check_tag_gone" /\ result = "ManifestUnknown" -> "gone"
      [] op = "check_tag_gone" /\ result \in {"value", "KeyError"} \cup IndexBotErrors -> "kept"
      [] op = "check_digest_in_scope" /\ result \in {"ManifestUnknown", "KeyError"}
            -> "ValidationError"
      [] OTHER -> result

Ends(result, why) ==
    /\ outcome' = [op |-> req.op, result |-> SeenBy(req.op, result), why |-> why,
                   of |-> CASE result \in {"confirmed", "mismatch"} -> got.body
                            [] result = "changed" -> req.seen
                            [] OTHER -> NoDigest,
                   digest |-> IF result = "changed" THEN req.desc ELSE NoDigest]
    /\ req' = IdleRequest /\ got' = NoResponse

\* What the registry may hold, as far as a read of get can tell.
Holdings(get) ==
    [held : IF get = "tag" THEN BOOLEAN ELSE {TRUE},
     desc : IF get \in {"desc", "description"} THEN Digests \cup {NoDigest} ELSE {NoDigest}]

\* RoutedRegistry._client, then the method itself.
Start(op, repo) ==
    /\ req.stage = "idle"
    /\ HostOf[repo] \in Clients
    /\ \E t \in Target(op) : \E held \in Holdings(t.get) :
       \E committed \in IF op = "check_desc_change" THEN Digests \cup {NoDigest} ELSE {NoDigest} :
        /\ req' = [IdleRequest EXCEPT !.stage = "send", !.op = op, !.repo = repo,
                                      !.get = t.get, !.ref = t.ref, !.desc = committed]
        /\ truth' = held
        /\ log' = [EmptyLog EXCEPT !.absent = ~held.held, !.descs = {held.desc}]
    /\ outcome' = NoOutcome
    /\ UNCHANGED <<tokens, got>>

\* A host with no client fails the way one outside the policy does.
Unrouted(op, repo) ==
    /\ req.stage = "idle"
    /\ HostOf[repo] \notin Clients
    /\ outcome' = [NoOutcome EXCEPT !.op = op, !.result = SeenBy(op, "ValidationError")]
    /\ UNCHANGED <<tokens, req, got, truth, log>>

-----------------------------------------------------------------------------
(* _send.                                                                  *)

Spent == req.attempt >= MaxAttempts

\* A retry waits, and counts; the budget is one for both kinds of fault.
Retry(retryAfter) ==
    \/ /\ Spent
       /\ log' = [log EXCEPT !.faults = @ + 1]
       /\ Ends("TransientError", "exhausted")
    \/ /\ ~Spent
       /\ \E jitter \in Jitters :
            log' = [log EXCEPT !.faults = @ + 1, !.asked = @ + 100 * retryAfter,
                               !.waited = @ + Delay(req.attempt, jitter, retryAfter)]
       /\ req' = [req EXCEPT !.stage = "send", !.attempt = @ + 1]
       /\ UNCHANGED <<got, outcome>>

\* A timeout, a reset or a protocol error, of the request or of the token fetch
\* inside the same try.
TransportFails ==
    /\ req.stage \in {"send", "token"}
    /\ Retry(0)
    /\ UNCHANGED <<tokens, truth>>

\* 429 or 5xx
Retryable ==
    /\ req.stage = "send"
    /\ \E retryAfter \in RetryAfters : Retry(retryAfter)
    /\ UNCHANGED <<tokens, truth>>

\* Mutant: the renewal counts as done before it is, so a fetch that dies disarms it.
UnauthorizedDisarms ==
    /\ req.stage = "send"
    /\ Basic \/ tokens[req.repo] # "good"
    /\ IF req.authRetried \/ Basic
       THEN Ends("TransientError", IF Basic THEN "basic" ELSE "unauthorized")
       ELSE /\ req' = [req EXCEPT !.stage = "token", !.authRetried = TRUE]
            /\ UNCHANGED <<got, outcome>>
    /\ UNCHANGED <<tokens, truth, log>>

\* A registry with basic credentials has nothing to refresh.
Unauthorized ==
    /\ req.stage = "send"
    /\ Basic \/ tokens[req.repo] # "good"
    /\ IF req.authRetried \/ Basic
       THEN Ends("TransientError", IF Basic THEN "basic" ELSE "unauthorized")
       ELSE req' = [req EXCEPT !.stage = "token"] /\ UNCHANGED <<got, outcome>>
    /\ UNCHANGED <<tokens, truth, log>>

\* Mutant: the renewal is spent on an attempt.
TokenIssuedCounted ==
    /\ req.stage = "token"
    /\ tokens' = [tokens EXCEPT ![req.repo] = "good"]
    /\ req' = [req EXCEPT !.stage = "send", !.authRetried = TRUE, !.attempt = @ + 1]
    /\ UNCHANGED <<got, truth, outcome, log>>

\* Mutant: nothing remembers that the token was renewed.
TokenIssuedForgotten ==
    /\ req.stage = "token"
    /\ tokens' = [tokens EXCEPT ![req.repo] = "good"]
    /\ req' = [req EXCEPT !.stage = "send"]
    /\ UNCHANGED <<got, truth, outcome, log>>

\* _fetch_token
TokenIssued ==
    /\ req.stage = "token"
    /\ tokens' = [tokens EXCEPT ![req.repo] = "good"]
    /\ req' = [req EXCEPT !.stage = "send", !.authRetried = TRUE]
    /\ UNCHANGED <<got, truth, outcome, log>>

TokenDenied ==
    /\ req.stage = "token"
    /\ Ends("ValidationError", "")
    /\ UNCHANGED <<tokens, truth, log>>

\* Any other status of the token endpoint, 429 and 5xx included: raise_for_status.
TokenRefused ==
    /\ req.stage = "token"
    /\ Ends("HTTPStatusError", "")
    /\ UNCHANGED <<tokens, truth, log>>

\* 403 is permanent.
Denied ==
    /\ req.stage = "send"
    /\ Ends("ValidationError", "")
    /\ UNCHANGED <<tokens, truth, log>>

Redirects == {[NoResponse EXCEPT !.status = "redirect", !.located = l] : l \in BOOLEAN}

Bodies ==
    UNION {{[NoResponse EXCEPT !.body = b, !.header = h] : h \in Digests \cup {NoDigest}} :
               b \in Digests}

\* What a server can say once it looks at the resource: 200 of what is there, 404
\* always, MANIFEST_UNKNOWN only of a tag that is not.
Contents ==
    CASE req.get = "tags" -> {[NoResponse EXCEPT !.next = n] : n \in NextLinks}
      [] req.get = "tag" -> IF truth.held THEN Bodies ELSE {}
      [] req.get = "digest" -> Bodies
      [] req.get = "desc" -> IF truth.desc = NoDigest THEN {}
                             ELSE {[NoResponse EXCEPT !.header = h] : h \in {truth.desc, NoDigest}}
      [] req.get = "description" ->
            {r \in Bodies : r.body = truth.desc}
      [] req.get = "blob" -> {[NoResponse EXCEPT !.body = b] : b \in Digests}

Missing ==
    {[NoResponse EXCEPT !.status = "missing", !.unknown = u] :
        u \in IF req.get = "tag" /\ truth.held THEN {FALSE} ELSE BOOLEAN}

Refusals(statuses) == {[NoResponse EXCEPT !.status = s] : s \in statuses}

\* Any other status is the method's to look at.
Answered ==
    /\ req.stage = "send"
    /\ got' \in Contents \cup Missing \cup Refusals({"refused"})
    /\ req' = [req EXCEPT !.stage = "received"]
    /\ UNCHANGED <<tokens, truth, outcome, log>>

Redirected ==
    /\ req.stage = "send"
    /\ got' \in Redirects
    /\ req' = [req EXCEPT !.stage = "follow", !.hops = 0]
    /\ UNCHANGED <<tokens, truth, outcome, log>>

-----------------------------------------------------------------------------
(* _follow: outside the loop, and so outside its budget and its try.        *)

\* A 3xx with no Location, or one hop too many.
FollowEnds ==
    /\ req.stage = "follow"
    /\ req.hops = MaxRedirects \/ ~got.located
    /\ Ends("TransientError", "redirects")
    /\ UNCHANGED <<tokens, truth, log>>

\* The hop's answer is the method's unless it redirects again: no retry, no renewal.
Follow ==
    /\ req.stage = "follow"
    /\ req.hops < MaxRedirects /\ got.located
    /\ got' \in Contents \cup Missing \cup Redirects
                \cup Refusals({"unauthorized", "denied", "retryable", "refused"})
    /\ req' = [req EXCEPT !.stage = IF got'.status = "redirect" THEN "follow" ELSE "received",
                           !.hops = @ + 1]
    /\ UNCHANGED <<tokens, truth, outcome, log>>

FollowBreaks ==
    /\ req.stage = "follow"
    /\ req.hops < MaxRedirects /\ got.located
    /\ Ends("TransportError", "")
    /\ UNCHANGED <<tokens, truth, log>>

-----------------------------------------------------------------------------
(* What each method makes of the response.                                 *)

Received(get) == req.stage = "received" /\ req.get = get
Concludes(result) == Ends(result, "") /\ UNCHANGED log

\* raise_for_status: any status left over.
RaiseForStatus ==
    /\ req.stage = "received"
    /\ got.status \in {"unauthorized", "denied", "retryable", "refused"}
    /\ Concludes("HTTPStatusError")
    /\ UNCHANGED <<tokens, truth>>

\* The next request of the same read starts afresh, with a budget of its own.
Another(next) ==
    /\ req' = [next EXCEPT !.stage = "send", !.attempt = 1, !.authRetried = FALSE, !.hops = 0]
    /\ got' = NoResponse
    /\ log' = [log EXCEPT !.faults = 0, !.asked = 0, !.waited = 0]
    /\ UNCHANGED outcome

\* The tags of a repository that observe does not pass over as reserved: none, or
\* the first of them.
Sweep ==
    \E n \in 0 .. MaxListed :
        IF n = 0 THEN Concludes("value")
        ELSE Another([req EXCEPT !.get = "tag", !.left = n - 1])

\* A page: the last one, one more of at most MaxPages, or one on another host.  A
\* repository that is not there has no tags.
DeliverTags ==
    /\ Received("tags")
    /\ CASE got.status = "missing" -> Concludes(IF req.op = "observe" THEN "value" ELSE "absent")
         [] got.status = "ok" /\ got.next = "none" ->
                IF req.op = "observe" THEN Sweep ELSE Concludes("value")
         [] got.status = "ok" /\ got.next = "cross" -> Concludes("ValueError")
         [] got.status = "ok" /\ got.next = "same" /\ req.page = MaxPages
                -> Ends("TransientError", "pages") /\ UNCHANGED log
         [] got.status = "ok" /\ got.next = "same" /\ req.page < MaxPages
                -> Another([req EXCEPT !.page = @ + 1])
         [] OTHER -> FALSE
    /\ UNCHANGED <<tokens, truth>>

\* Mutant: a manifest asked for by digest is taken as served.
MatchesHeader(response) == response.header \in {NoDigest, response.body}

\* The header is only cross-checked; a digest asked for is a demand.
Matches(response) ==
    /\ response.header \in {NoDigest, response.body}
    /\ req.ref \in {NoDigest, response.body}

\* What probe_ownership reads in the desc manifest.
Probed(name) ==
    CASE name = "expected" -> "confirmed" [] name = "other" -> "mismatch" [] name = "none" -> "unconfirmed"

NotFound == IF got.unknown THEN "ManifestUnknown" ELSE "KeyError"

ObserveNext ==
    IF req.left = 0 THEN Concludes("value") ELSE Another([req EXCEPT !.left = @ - 1])

\* observe passes over a tag that is gone, and stops at one that is no image index.
DeliverManifest ==
    /\ Received("tag") \/ Received("digest")
    /\ CASE got.status = "missing" ->
                IF req.op = "observe" THEN ObserveNext ELSE Concludes(NotFound)
         [] got.status = "ok" /\ ~Matches(got) -> Concludes("AnomalyError")
         [] got.status = "ok" /\ Matches(got) ->
                CASE req.op = "probe_ownership" -> Concludes(Probed(Names[got.body]))
                  [] req.op = "observe" ->
                        IF got.body \in Indices THEN ObserveNext ELSE Concludes("ValidationError")
                  [] OTHER -> Concludes("value")
         [] OTHER -> FALSE
    /\ UNCHANGED <<tokens, truth>>

\* What check_desc_change makes of where the desc tag points: a description that was
\* there may not disappear; one that differs is the digest returned in the end, and
\* its content is asked for by the tag.
CheckDescChange(digest) ==
    CASE digest = req.desc -> Concludes("unchanged")
      [] digest # req.desc /\ digest = NoDigest -> Concludes("ValueError")
      [] digest # req.desc /\ digest # NoDigest ->
            Another([req EXCEPT !.get = "description", !.desc = digest])

\* A HEAD of __ocx.desc.  A registry that omits the digest is a KeyError.  The
\* probe goes on to the manifest of that digest.
DeliverDesc ==
    /\ Received("desc")
    /\ CASE got.status = "missing" ->
                CASE req.op = "probe_ownership" -> Concludes("unconfirmed")
                  [] req.op = "check_desc_change" -> CheckDescChange(NoDigest)
                  [] OTHER -> Concludes("absent")
         [] got.status = "ok" /\ got.header = NoDigest -> Concludes("KeyError")
         [] got.status = "ok" /\ got.header # NoDigest ->
                CASE req.op = "probe_ownership" ->
                        Another([req EXCEPT !.get = "digest", !.ref = got.header])
                  [] req.op = "check_desc_change" -> CheckDescChange(got.header)
                  [] OTHER -> Concludes("value")
         [] OTHER -> FALSE
    /\ UNCHANGED <<tokens, truth>>

\* The layers one after the other, and then the one that must be among them.
FetchLayer(seen, left) ==
    IF left = 0
    THEN Concludes(IF "readme" \in Layers[seen] THEN "changed" ELSE "ValueError")
    ELSE \E declared \in Digests :
            Another([req EXCEPT !.get = "blob", !.ref = declared, !.seen = seen, !.left = left - 1])

DeliverDescription ==
    /\ Received("description")
    /\ CASE got.status = "missing" -> Concludes(NotFound)
         [] got.status = "ok" /\ ~Matches(got) -> Concludes("AnomalyError")
         [] got.status = "ok" /\ Matches(got) -> FetchLayer(got.body, Cardinality(Layers[got.body]))
         [] OTHER -> FALSE
    /\ UNCHANGED <<tokens, truth>>

\* Only the bytes of a layer are compared with what was asked for.
DeliverBlob ==
    /\ Received("blob")
    /\ CASE got.status = "missing" -> Concludes("KeyError")
         [] got.status = "ok" /\ req.op = "get_blob" -> Concludes("value")
         [] got.status = "ok" /\ req.op # "get_blob" ->
                IF got.body # req.ref THEN Concludes("AnomalyError")
                ELSE FetchLayer(req.seen, req.left)
         [] OTHER -> FALSE
    /\ UNCHANGED <<tokens, truth>>

-----------------------------------------------------------------------------
(* The registry meanwhile.                                                 *)

TokenLapses ==
    \E r \in Repos :
        /\ tokens[r] = "good"
        /\ tokens' = [tokens EXCEPT ![r] = "lapsed"]
        /\ log' = [log EXCEPT !.lapsed = @ \/ (req.stage # "idle" /\ r = req.repo)]
        /\ UNCHANGED <<req, got, truth, outcome>>

Publish ==
    /\ req.stage # "idle"
    /\ \E held \in Holdings(req.get) :
        /\ truth' = held
        /\ log' = [log EXCEPT !.absent = @ \/ ~held.held, !.descs = @ \cup {held.desc}]
    /\ UNCHANGED <<tokens, req, got, outcome>>

-----------------------------------------------------------------------------
Client ==
    \/ TransportFails \/ Retryable \/ Unauthorized \/ TokenIssued \/ TokenDenied \/ TokenRefused
    \/ Denied \/ Answered \/ Redirected \/ FollowEnds \/ Follow \/ FollowBreaks
    \/ RaiseForStatus \/ DeliverTags \/ DeliverManifest \/ DeliverDesc
    \/ DeliverDescription \/ DeliverBlob

Next ==
    \/ \E op \in Op, repo \in Repos : Start(op, repo) \/ Unrouted(op, repo)
    \/ Client \/ TokenLapses \/ Publish

Spec == Init /\ [][Next]_vars

\* A request returns, one way or another.
FairSpec == Spec /\ WF_vars(Client)

-----------------------------------------------------------------------------
(* Properties.                                                             *)

\* "A second consecutive 401 is a persistent auth failure": with an honest
\* registry, a read fails for a refused token only when the token lapsed under
\* it; a token fetch that died on the way never costs the renewal.
RenewalIsSpared == outcome.why = "unauthorized" => log.lapsed

\* A renewal is "not counted against max_attempts": the budget is exhausted only
\* by as many retryable answers and transport failures of that one request.
ExhaustedByFaults == outcome.why = "exhausted" => log.faults = MaxAttempts

\* "The server said exactly how long to wait": a request never waits less than
\* the registry asked for in all, nor more than that and its own capped, jittered
\* delays.
WaitsAsAsked ==
    /\ log.waited >= log.asked
    /\ log.waited <= log.asked + log.faults * MaxDelay * 150

\* check_tag_gone lets a removal merge with nobody looking: it says so only of a
\* tag that really was not there while it asked.
GoneIsProven == outcome.result = "gone" => log.absent

\* The ownership probe reads the desc tag and then the manifest of that digest:
\* whatever is republished in between, it speaks for one the tag did point at.
\* check_desc_change reads the tag twice, so all it can say is that the digest it
\* returns and the manifest it read the content from were both the tag's, perhaps
\* one after the other; neither is one the registry never had there.
ProbeIsOfTheDesc ==
    /\ outcome.result \in {"confirmed", "mismatch"} =>
          /\ outcome.of \in log.descs \ {NoDigest}
          /\ outcome.result = "confirmed" => Names[outcome.of] = "expected"
          /\ outcome.result = "mismatch" => Names[outcome.of] = "other"
    /\ outcome.result = "changed" =>
          {outcome.of, outcome.digest} \subseteq log.descs \ {NoDigest}

\* Renewals, retries, redirects and pages in one loop: every read ends.
EveryReadEnds == []<>(req.stage = "idle")

\* "A bare httpx exception must never escape this module."
NothingBareEscapes == outcome.result \notin BareErrors
=============================================================================
