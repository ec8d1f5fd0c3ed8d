-------------------------------- MODULE Router --------------------------------
(***************************************************************************)
(* The axum router of create_app (server/app.rs): the stack of layers every *)
(* request goes through, and the requests the server makes to itself.  An  *)
(* /image request whose source or overlay is on SELF_HOST re-enters the    *)
(* stack over 127.0.0.1 (a hop) while its own handler waits for the reply. *)
(* main.rs stops the server: the listener closes and what runs is finished. *)
(*                                                                         *)
(* A request is named by its path through the server: <<c>> is caller c's,  *)
(* <<c, l>> the hop its leg l makes.                                       *)
(***************************************************************************)
EXTENDS SignedUrl

CONSTANTS
  Callers,    \* requests from outside
  Legs,       \* what an /image request fetches: its source and its overlays
  Source,     \* the leg it cannot do without
  Keys,       \* API keys
  Addresses,  \* as extract_client_ip finds them
  Configs,    \* the configurations
  Requests,   \* what callers send
  Loopback,   \* 127.0.0.1
  Now         \* the clock; nothing waits from signing a hop to checking it

Clients == Keys \cup Addresses

Methods == {"GET", "OPTIONS"}

\* A URL on SELF_HOST.
SelfUrls == [path: Paths, query: Queries \cup {None}]

\* Origins and referers are none, on the configured list, or not on it; targets
\* are none (no such leg), a URL on SELF_HOST, or a URL `far` away.
RequestType ==
  [path: Paths, query: Queries \cup {None}, method: Methods,
   bearer: Keys \cup {None}, xkey: Keys \cup {None},
   origin: {"none", "listed", "other"}, referer: {"none", "listed", "other"},
   from: Addresses, targets: [Legs -> {"none", "far", "self"}], url: SelfUrls]

\* REQUIRE_AUTH, HMAC_SECRET (set or not), API_KEYS, CORS_ENABLED,
\* REFERER_CHECK_ENABLED with a list, RATE_LIMIT_BY_KEY, RATE_LIMIT_PER_MINUTE.
ConfigType ==
  [auth: BOOLEAN, secret: BOOLEAN, keys: SUBSET Keys, cors: BOOLEAN,
   referers: BOOLEAN, byKey: BOOLEAN, limit: Nat \ {0}]

ASSUME NameAssumption ==
  /\ IsFiniteSet(Callers) /\ IsFiniteSet(Legs)
  /\ Source \in Legs /\ Loopback \in Addresses
  /\ None \notin Clients /\ Keys \cap Addresses = {}
  /\ Now \in Nat

ASSUME InputAssumption == Configs \subseteq ConfigType /\ Requests \subseteq RequestType

VARIABLES
  config,   \* the Config the process runs with
  open,     \* the listener accepts connections
  req,      \* req[r]: the request r, None until it arrives
  at,       \* at[r]: the layer r is about to enter, or what has become of it
  legs,     \* legs[r][l]: how far leg l of r's handler is
  answer,   \* answer[r]: the response r got
  left,     \* left[c]: requests client c may still make
  earned    \* history: requests client c has earned back

vars == <<config, open, req, at, legs, answer, left, earned>>

\* A hop of a hop is named so that it can be said that there is none.
Ids == {<<c>> : c \in Callers} \cup (Callers \X Legs) \cup (Callers \X Legs \X Legs)

IsHop(r) == Len(r) > 1
Hop(r, l) == IF IsHop(r) THEN <<r[1], r[2], l>> ELSE <<r[1], l>>
Outer(r) == IF Len(r) = 3 THEN <<r[1], r[2]>> ELSE <<r[1]>>
LegOf(r) == IF Len(r) = 3 THEN r[3] ELSE r[2]

-----------------------------------------------------------------------------
(* The stack.                                                              *)

\* Variants of Layers: requests are metered when they have been let in;
\* authentication runs before CORS.
LayersMeteredLast ==
  <<"logging", "cors", "auth", "referer", "limit", "timeout", "security", "handler">>

LayersAuthFirst ==
  <<"logging", "limit", "auth", "cors", "referer", "timeout", "security", "handler">>

Layers ==
  <<"logging", "limit", "cors", "auth", "referer", "timeout", "security", "handler">>

LayerNames == {Layers[i] : i \in 1..Len(Layers)}

Depth(layer) == CHOOSE i \in 1..Len(Layers) : Layers[i] = layer

\* What a request meets next.
Inward(layer) == Layers[Depth(layer) + 1]

\* Layer m sees the response layer l makes.
Wraps(m, l) == Depth(m) < Depth(l)

-----------------------------------------------------------------------------
(* What the layers look at.                                                *)

\* extract_api_key of rate_limit.rs.
LimitKey(q) == IF q.xkey # None THEN q.xkey ELSE q.bearer

\* extract_api_key of auth.rs.
AuthKey(q) ==
  IF q.bearer # None THEN q.bearer ELSE IF q.xkey # None THEN q.xkey ELSE QueryKey(q.query)

Client(cf, q) == IF cf.byKey /\ LimitKey(q) # None THEN LimitKey(q) ELSE q.from

Metered(q) == q.path # "/health"

Authentic(cf, q) ==
  \/ q.path = "/health"
  \/ ~cf.auth
  \/ AuthKey(q) \in cf.keys
  \/ cf.secret /\ Verifies(q.path, q.query, Now)

Welcome(cf, q) == q.path = "/health" \/ ~cf.referers \/ q.referer \in {"none", "listed"}

IsPreflight(cf, q) == cf.cors /\ q.method = "OPTIONS"

\* The headers of the response layer l makes to q.
Headers(cf, q, l) ==
  {"x-request-id"}
  \cup (IF (Wraps("cors", l) \/ l = "cors") /\ cf.cors /\ q.origin = "listed"
        THEN {"access-control-allow-origin"} ELSE {})
  \cup (IF Wraps("security", l) THEN {"x-content-type-options"} ELSE {})

-----------------------------------------------------------------------------
NoLegs == [l \in Legs |-> "none"]

Init ==
  /\ config \in Configs
  /\ open = TRUE
  /\ req = [r \in Ids |-> None]
  /\ at = [r \in Ids |-> "none"]
  /\ legs = [r \in Ids |-> NoLegs]
  /\ answer = [r \in Ids |-> None]
  /\ left = [c \in Clients |-> config.limit]
  /\ earned = [c \in Clients |-> 0]

Proceed(r) ==
  /\ at' = [at EXCEPT ![r] = Inward(at[r])]
  /\ UNCHANGED <<config, open, req, legs, answer, earned>>

\* A variant of Answer: the handler's future lives on.
AnswerOnly(r, l, status) ==
  /\ at' = [at EXCEPT ![r] = "done"]
  /\ answer' = [answer EXCEPT ![r] = [status |-> status, by |-> l, headers |-> Headers(config, req[r], l)]]
  /\ UNCHANGED <<config, open, req, legs, left, earned>>

\* Layer l answers r; nothing is awaited on the way out.
Answer(r, l, status) ==
  /\ at' = [at EXCEPT ![r] = "done"]
  /\ answer' = [answer EXCEPT ![r] = [status |-> status, by |-> l, headers |-> Headers(config, req[r], l)]]
  /\ legs' = [legs EXCEPT ![r] = NoLegs]
  /\ UNCHANGED <<config, open, req, left, earned>>

-----------------------------------------------------------------------------
(* The layers on the way in.                                               *)

\* request_logging_middleware gives the request its id.
Arrive(c) ==
  /\ open
  /\ at[<<c>>] = "none"
  /\ \E q \in Requests : req' = [req EXCEPT ![<<c>>] = q]
  /\ at' = [at EXCEPT ![<<c>>] = Inward("logging")]
  /\ UNCHANGED <<config, open, legs, answer, left, earned>>

\* A variant of Authenticate: what comes from 127.0.0.1 is trusted.
AuthenticateLoopback(r) ==
  /\ at[r] = "auth"
  /\ Authentic(config, req[r]) \/ req[r].from = Loopback
  /\ Proceed(r) /\ UNCHANGED left

Admit(r) ==
  /\ at[r] = "limit"
  /\ IF Metered(req[r])
     THEN /\ left[Client(config, req[r])] > 0
          /\ left' = [left EXCEPT ![Client(config, req[r])] = @ - 1]
     ELSE UNCHANGED left
  /\ Proceed(r)

Throttle(r) ==
  /\ at[r] = "limit"
  /\ Metered(req[r]) /\ left[Client(config, req[r])] = 0
  /\ Answer(r, "limit", 429)

\* The limiter of c earns a request back (RateLimiter says when).
Refill(c) ==
  /\ left[c] < config.limit
  /\ left' = [left EXCEPT ![c] = @ + 1]
  /\ earned' = [earned EXCEPT ![c] = @ + 1]
  /\ UNCHANGED <<config, open, req, at, legs, answer>>

Preflight(r) ==
  /\ at[r] = "cors"
  /\ IsPreflight(config, req[r])
  /\ Answer(r, "cors", 204)

PassCors(r) ==
  /\ at[r] = "cors"
  /\ ~IsPreflight(config, req[r])
  /\ Proceed(r) /\ UNCHANGED left

Authenticate(r) ==
  /\ at[r] = "auth"
  /\ Authentic(config, req[r])
  /\ Proceed(r) /\ UNCHANGED left

Unauthorized(r) ==
  /\ at[r] = "auth"
  /\ ~Authentic(config, req[r])
  /\ Answer(r, "auth", 401)

PassReferer(r) ==
  /\ at[r] = "referer"
  /\ Welcome(config, req[r])
  /\ Proceed(r) /\ UNCHANGED left

Forbid(r) ==
  /\ at[r] = "referer"
  /\ ~Welcome(config, req[r])
  /\ Answer(r, "referer", 403)

\* The timeout layer starts its clock, the security layer only looks at
\* responses.
Enter(r) ==
  /\ at[r] \in {"timeout", "security"}
  /\ Proceed(r) /\ UNCHANGED left

\* A variant of Expire: the clock stops when the handler begins to fetch.
ExpireBeforeFetch(r) ==
  /\ at[r] = "handler"
  /\ Answer(r, "timeout", 408)

\* REQUEST_TIMEOUT_MS: the handler's future is dropped.
Expire(r) ==
  /\ at[r] \in {"handler", "fetching"}
  /\ Answer(r, "timeout", 408)

-----------------------------------------------------------------------------
(* The handlers.                                                           *)

\* What a handler may answer without waiting for a fetch: a bad query or an
\* output cache hit, for /image.
Statuses(q) ==
  CASE q.path = "elsewhere" -> {404}
    [] q.path # "elsewhere" /\ q.method = "OPTIONS" -> {405}
    [] q.path \in {"/health", "/robots.txt"} /\ q.method = "GET" -> {200}
    [] q.path = "/favicon.ico" /\ q.method = "GET" -> {204}
    [] q.path \in {"/image", "/gradient"} /\ q.method = "GET" ->
         IF q.query # None THEN {200, 400, 500} ELSE {400}

Respond(r) ==
  /\ at[r] = "handler"
  /\ \E status \in Statuses(req[r]) : Answer(r, "handler", status)

\* A variant of LegStarts: maybe_rewrite_self without its recursion guard.
LegStartsUnguarded(q, l) ==
  CASE q.targets[l] = "none" -> {"ok"}
    [] q.targets[l] = "far" -> {"ok", "failed", "fetching"}
    [] q.targets[l] = "self" -> {"ok", "failed", "connecting"}

\* How leg l of q begins: there is nothing to fetch or the caches have it, the
\* URL is not valid, a fetch begins, or maybe_rewrite_self refuses to fetch
\* /image from itself.
LegStarts(q, l) ==
  CASE q.targets[l] = "none" -> {"ok"}
    [] q.targets[l] = "far" -> {"ok", "failed", "fetching"}
    [] q.targets[l] = "self" ->
         IF q.url.path = "/image" THEN {"failed"} ELSE {"ok", "failed", "connecting"}

StartFetches(r) ==
  /\ at[r] = "handler"
  /\ req[r].path = "/image" /\ req[r].method = "GET" /\ req[r].query # None
  /\ \E start \in [Legs -> {"ok", "failed", "fetching", "connecting"}] :
       /\ \A l \in Legs : start[l] \in LegStarts(req[r], l)
       /\ legs' = [legs EXCEPT ![r] = start]
  /\ at' = [at EXCEPT ![r] = "fetching"]
  /\ UNCHANGED <<config, open, req, answer, left, earned>>

SetLeg(r, l, to) ==
  /\ legs' = [legs EXCEPT ![r][l] = to]
  /\ UNCHANGED <<config, open, answer, left, earned>>

\* A fetch from elsewhere ends (Fetch says how).
FarEnds(r, l) ==
  /\ legs[r][l] = "fetching"
  /\ \E to \in {"ok", "failed"} : SetLeg(r, l, to)
  /\ UNCHANGED <<req, at>>

\* The request made of a URL on SELF_HOST, signed if there is a secret and the
\* URL has a query.  (What it asks for in turn would be the same again.)
HopRequest(cf, q) ==
  [path |-> q.url.path, method |-> "GET", bearer |-> None, xkey |-> None,
   query |-> IF cf.auth /\ cf.secret /\ q.url.query # None
             THEN Sign(q.url.path, q.url.query, Now) ELSE q.url.query,
   origin |-> "none", referer |-> "none", from |-> Loopback,
   targets |-> q.targets, url |-> q.url]

HopArrives(r, l) ==
  /\ legs[r][l] = "connecting"
  /\ open
  /\ SetLeg(r, l, "waiting")
  /\ req' = [req EXCEPT ![Hop(r, l)] = HopRequest(config, req[r])]
  /\ at' = [at EXCEPT ![Hop(r, l)] = Inward("logging")]

\* The server is shutting down: its own listener refuses the connection.
HopRefused(r, l) ==
  /\ legs[r][l] = "connecting"
  /\ ~open
  /\ SetLeg(r, l, "failed")
  /\ UNCHANGED <<req, at>>

\* A variant of HopAnswered: an answer is taken when nobody waits any more.
HopAnsweredLate(r, l) ==
  /\ legs[r][l] \in {"waiting", "failed"}
  /\ at[Hop(r, l)] = "done"
  /\ SetLeg(r, l, IF answer[Hop(r, l)].status = 200 /\ req[Hop(r, l)].path = "/gradient"
                  THEN "ok" ELSE "failed")
  /\ UNCHANGED <<req, at>>

\* Only /gradient has a picture to give; there are no retries.
HopAnswered(r, l) ==
  /\ legs[r][l] = "waiting"
  /\ at[Hop(r, l)] = "done"
  /\ SetLeg(r, l, IF answer[Hop(r, l)].status = 200 /\ req[Hop(r, l)].path = "/gradient"
                  THEN "ok" ELSE "failed")
  /\ UNCHANGED <<req, at>>

\* FETCH_TIMEOUT_MAIN or FETCH_TIMEOUT_OVERLAY.
HopTimesOut(r, l) ==
  /\ legs[r][l] \in {"connecting", "waiting"}
  /\ SetLeg(r, l, "failed")
  /\ UNCHANGED <<req, at>>

\* join! returns and the picture is made, or not.
Compose(r) ==
  /\ at[r] = "fetching"
  /\ \A l \in Legs : legs[r][l] \in {"ok", "failed"}
  /\ \E status \in (IF legs[r][Source] = "ok" THEN {200, 400, 500} ELSE {400, 404}) :
       Answer(r, "handler", status)

-----------------------------------------------------------------------------
(* Around the router.                                                      *)

\* A client goes away and hyper drops the request: a caller may at any time, a
\* leg when it has stopped waiting.
Disconnect(r) ==
  /\ at[r] \notin {"none", "done", "dropped"}
  /\ IsHop(r) => legs[Outer(r)][LegOf(r)] # "waiting"
  /\ at' = [at EXCEPT ![r] = "dropped"]
  /\ legs' = [legs EXCEPT ![r] = NoLegs]
  /\ UNCHANGED <<config, open, req, answer, left, earned>>

\* shutdown_signal: SIGTERM or Ctrl+C.
Shutdown ==
  /\ open
  /\ open' = FALSE
  /\ UNCHANGED <<config, req, at, legs, answer, left, earned>>

Inbound(r) ==
  \/ Admit(r) \/ Throttle(r) \/ Preflight(r) \/ PassCors(r) \/ Authenticate(r)
  \/ Unauthorized(r) \/ PassReferer(r) \/ Forbid(r) \/ Enter(r)

Handler(r) == Respond(r) \/ StartFetches(r) \/ Compose(r)

LegStep(r, l) ==
  FarEnds(r, l) \/ HopArrives(r, l) \/ HopRefused(r, l) \/ HopAnswered(r, l) \/ HopTimesOut(r, l)

Next ==
  \/ \E c \in Callers : Arrive(c)
  \/ \E r \in Ids : Inbound(r) \/ Handler(r) \/ Expire(r) \/ Disconnect(r)
  \/ \E r \in Ids, l \in Legs : LegStep(r, l)
  \/ \E c \in Clients : Refill(c)
  \/ Shutdown

Spec == Init /\ [][Next]_vars

\* Tasks are scheduled, and timers that are due fire.  Nothing is assumed of
\* servers elsewhere.
Fairness ==
  \A r \in Ids : WF_vars(Inbound(r)) /\ WF_vars(Handler(r)) /\ WF_vars(Expire(r))

FairSpec == Spec /\ Fairness

-----------------------------------------------------------------------------
(* Properties                                                              *)

StatusCodes == {200, 204, 400, 401, 403, 404, 405, 408, 429, 500}
HeaderNames == {"x-request-id", "access-control-allow-origin", "x-content-type-options"}
LegStates == {"none", "ok", "failed", "fetching", "connecting", "waiting"}
Responses == [status: StatusCodes, by: LayerNames, headers: SUBSET HeaderNames]

TypeOK ==
  /\ config \in Configs
  /\ open \in BOOLEAN
  /\ req \in [Ids -> RequestType \cup {None}]
  /\ at \in [Ids -> (LayerNames \ {"logging"}) \cup {"none", "fetching", "done", "dropped"}]
  /\ legs \in [Ids -> [Legs -> LegStates]]
  /\ answer \in [Ids -> Responses \cup {None}]
  /\ left \in [Clients -> 0..config.limit]
  /\ earned \in [Clients -> Nat]

\* A handler has seen r.
Handled(r) ==
  \/ at[r] \in {"handler", "fetching"}
  \/ answer[r] # None /\ answer[r].by \in {"handler", "timeout"}

\* A handler works only for requests that authentication and the referer check
\* have let through; what the server fetches from itself passes them like any
\* other request, and is fetched only for an /image request that has.
OnlyAdmitted ==
  \A r \in Ids :
    /\ Handled(r) => Authentic(config, req[r]) /\ Welcome(config, req[r]) /\ ~IsPreflight(config, req[r])
    /\ IsHop(r) /\ at[r] # "none" =>
         LET q == req[Outer(r)]
         IN  q.path = "/image" /\ Authentic(config, q) /\ Welcome(config, q) /\ ~IsPreflight(config, q)

\* Requests of the server to itself make no such requests: whoever waits for a
\* hop waits for one that waits for nobody, and the server cannot be made to
\* wait for itself in a circle.
AtMostOneHop ==
  \A r \in Ids :
    /\ Len(r) = 3 => at[r] = "none"
    /\ IsHop(r) => at[r] # "fetching"

\* A browser can read whatever the server says to a page on the list, refusals
\* and timeouts included; only the rate limiter answers outside CORS.
ReadableAnswers ==
  \A r \in Ids : answer[r] # None =>
    /\ "x-request-id" \in answer[r].headers
    /\ config.cors /\ req[r].origin = "listed" =>
         ("access-control-allow-origin" \in answer[r].headers <=> answer[r].by # "limit")

\* Whoever has a leg under way is still at work; a hop that a leg waits for has
\* been made, and none is made before.
LegsAgree ==
  \A r \in Ids :
    /\ at[r] # "fetching" => legs[r] = NoLegs
    /\ \A l \in Legs :
         /\ legs[r][l] \in {"connecting", "waiting"} => req[r].url.path # "/image"
         /\ legs[r][l] = "waiting" => at[Hop(r, l)] # "none"
         /\ legs[r][l] = "connecting" \/ at[r] \notin {"fetching", "done", "dropped"} =>
              at[Hop(r, l)] = "none"

\* What is known of a request on its way: it has passed the layers outside and
\* has no answer yet, and a hop asks for anything but /image.
OnItsWay ==
  \A r \in Ids :
    /\ at[r] # "none" => req[r] \in RequestType
    /\ answer[r] # None => at[r] = "done"
    /\ at[r] \in {"auth", "referer", "timeout", "security"} => ~IsPreflight(config, req[r])
    /\ at[r] \in {"referer", "timeout", "security"} => Authentic(config, req[r])
    /\ at[r] \in {"timeout", "security"} => Welcome(config, req[r])
    /\ at[r] = "fetching" => req[r].path = "/image"
    /\ IsHop(r) /\ at[r] # "none" => req[r].path # "/image"

IInv == TypeOK /\ OnlyAdmitted /\ AtMostOneHop /\ ReadableAnswers /\ LegsAgree /\ OnItsWay

\* Requests of client c, as the limiter finds it, that it may have charged: all
\* but health probes and what it has refused or not seen yet.
Charged(c) ==
  {r \in Ids :
     /\ at[r] \notin {"none", "limit"}
     /\ Metered(req[r]) /\ Client(config, req[r]) = c
     /\ at[r] = "done" => answer[r].by # "limit"}

\* What it has charged for certain: they have got an answer, of whichever layer.
Served(c) == {r \in Charged(c) : at[r] = "done"}

Spent(c) == (config.limit + earned[c]) - left[c]

\* The limiter's place in the stack: whatever a client gets besides 429 has
\* cost it a request, a preflight, a 401, a 403, a timeout and the hops made
\* over 127.0.0.1 included; and no client pays for another, for what was
\* refused, or twice.
Accounts ==
  \A c \in Clients :
    Cardinality(Served(c)) <= Spent(c) /\ Spent(c) <= Cardinality(Charged(c))

\* How far a request has come, and a leg of it.
Place(p) ==
  CASE p = "none" -> 0 [] p \in LayerNames -> Depth(p) [] p = "fetching" -> 9
    [] p \in {"done", "dropped"} -> 10

LegPlace(st) ==
  CASE st = "none" -> 0 [] st \in {"connecting", "fetching"} -> 1 [] st = "waiting" -> 2
    [] st \in {"ok", "failed"} -> 3

GoesOn(r) ==
  /\ at[r] # "none" => req'[r] = req[r]
  /\ \/ Place(at[r]) < Place(at'[r])
     \/ /\ at'[r] = at[r] /\ answer'[r] = answer[r]
        /\ \A l \in Legs : \/ legs'[r][l] = legs[r][l]
                          \/ LegPlace(legs[r][l]) < LegPlace(legs'[r][l])

\* No request goes back: each layer sees it once on its way in, it is answered
\* once or dropped, and a leg that has ended, by its timeout say, takes no
\* answer that comes later.
NoWayBack == [][\A r \in Ids : GoesOn(r)]_vars

\* Every request that arrives is answered or dropped by its client, also when
\* servers elsewhere never reply and the process is shutting down.
EveryRequestEnds ==
  \A r \in Ids : at[r] # "none" ~> at[r] \in {"done", "dropped"}

\* What sign_loopback_url signs, auth_middleware accepts, whatever else is in
\* the URL, a "sig" of its own included: with a secret, a hop with a query is
\* refused only if that query has the text "expires=" in it.
HopsVerify ==
  \A r \in Ids :
    IsHop(r) /\ answer[r] # None /\ answer[r].status = 401 =>
      LET query == req[Outer(r)].url.query
      IN  ~config.secret \/ query = None \/ ~Plain(query)

\* A hop asks for what its leg wanted, and only authentication answers 401.
HopsAgree ==
  \A r \in Ids :
    /\ IsHop(r) /\ at[r] # "none" => req[r] = HopRequest(config, req[Outer(r)])
    /\ answer[r] # None /\ answer[r].status = 401 => ~Authentic(config, req[r])

\* Whatever the server may ask itself for can be signed: there is a secret if
\* authentication is on, and the URLs have a query without "expires=".
Signable ==
  /\ config.auth => config.secret
  /\ \A r \in Ids : ~IsHop(r) /\ at[r] # "none" =>
       req[r].url.query # None /\ Plain(req[r].url.query)

\* "so REQUIRE_AUTH=true doesn't 401 our own internal hop" (client.rs:201).
HopsAuthorised ==
  \A r \in Ids : IsHop(r) /\ answer[r] # None => answer[r].status # 401
=============================================================================
