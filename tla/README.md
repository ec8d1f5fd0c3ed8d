# ReImage in TLA+

ReImage is an image server written in Rust (axum, tokio, moka, governor,
reqwest, rayon). `GET /image?url=...` fetches a source and up to a handful of
overlays, renders them into one WebP picture and keeps results in memory. This
directory holds TLA+ models of its parts, the configurations that check them
with TLC on small instances, and theorems about them that TLAPS proves for every
value of the constants. Line numbers refer to the files below `src/src/`.

    cd tla
    tlc -workers 2 -config RouterLayers.cfg MCRouter     # a run (PROJECT.json lists them)
    tlapm RouterProofs.tla                                # the proofs of a module

## 1. Inventory

| Component | Source | State it keeps | Operations | Correct when |
|---|---|---|---|---|
| /image handler and overlay pipeline | `server/routes/image.rs`, `image/overlay.rs` | per request: phase, source leg, overlay legs, rendered body | validate, look up, join fetches, decode, render, store, reply; fail; be cancelled | every 200 answer renders the query it answers, failed overlays leave out themselves and nothing else, every request is answered |
| Caches | `cache/mod.rs` | output, source, overlay (and an unused mask) cache | get, insert, expiry, eviction | an entry is right for every query that can look it up |
| Fetching | `http_client/{client,retry,dns}.rs` | DNS cache, pinned clients; per call: address, attempt, timers | validate, resolve, send, read, back off, retry, abandon | ends within its budget, settles on an address it has checked and leaves it only where redirected or unpinned, its result has a cause in a reply |
| Rate limiting | `server/middleware/rate_limit.rs` | two caches of limiters, one GCRA state each | find the client, get its limiter, check, forget idle ones | forgetting a limiter gives nobody a second budget |
| Compositing | `image/processor.rs` | canvas, rows still to do | scale, crop, round corners, decorate, place, draw rows | pictures fit their bounds undistorted; each pixel holds the overlays asked for, in order; no index leaves a buffer |
| Layer stack, self-requests, shutdown | `server/app.rs`, `server/middleware/*`, `server/error.rs`, `main.rs` | per request: the layer it is at; listener open or closed; budgets | pass or answer at each layer, hop over loopback, expire, disconnect, shut down | only admitted requests are worked for, hops make no hops, answers are readable, everything ends |
| Authentication | `server/middleware/auth.rs` | none | find the key, verify the signature and its expiry; sign the server's own requests | what the server signs it accepts, what nobody signed it refuses |
| Small routes | `server/routes/{gradient,health,static_routes}.rs` | /gradient uses the output cache | answer | as above |
| Text layout | `image/text.rs` | the line being filled | wrap, break long words, cut to the box, ellipsize, draw | lines fit, break only where they must, and nothing is lost before the ellipsis |
| URL policy | `security/{url_validator,ssrf}.rs` | none | judge URLs, names and addresses | no private address passes in any form |
| Content checks | `image/validation.rs` | none | judge content type and magic bytes | |
| Text sanitising | `security/sanitize.rs` | none | cut and clean strings | it does not cut what layout made fit |
| Fonts | `image/fonts.rs` | loaded once | load | |
| Configuration | `config.rs` | read once | read the environment | |

How they interact. A connection enters the layer stack of `create_app`: logging,
rate limit, CORS, authentication, referer check, timeout, security headers, and
then a handler. `handle_image` looks its query up in the output cache and, on a
miss, joins one source future and one future per overlay; each looks into the
shared caches, calls `fetch_image` and stores what it gets. Decoding, resizing
and drawing run on tokio's blocking pool, and drawing hands rows to rayon's
threads. `fetch_image` resolves through a DNS cache and sends through a client
pinned to the resolved address, both shared by all calls. A URL on `SELF_HOST`
is sent to 127.0.0.1 instead and so enters the layer stack of the same process
while its own request waits for it.

What is hard about it. Tasks interleave at every await and share the caches. The
timeout layer, or a client that goes away, drops a handler at any await. The
release profile aborts on a panic, so a panic in one render ends all requests.
Timers and retries nest: DNS, headers, total, backoff, request. Records, cache
entries and pinned clients change between the check of an address and its use, and
the library follows redirects to addresses nobody has checked.
The server can be its own client, during shutdown too. Limiters are forgotten
when idle and pushed out when their cache is full, by threads that race. Offsets
are 64 bits wide and cut to 32. Rows are drawn in any order. `PROJECT.json`
lists each of these hazards at its line, with the properties that watch it.

## 2. Modules

| Module | What it is | Extends / instantiates |
|---|---|---|
| `ImageData` | queries, overlays, validation, abstract images, "is a render of" | |
| `ImagePromise` | abstract: /image with no cache, legs or concurrency | `ImageData` |
| `ImageService` | detailed: handler, legs, caches, failures, crash | `ImageData`; `Promise == INSTANCE ImagePromise` |
| `FetchContract` | abstract: what a caller may expect of one fetch | |
| `Fetch` | detailed: `fetch_image` with DNS, pinning, timers, retries | `Contract == INSTANCE FetchContract` |
| `UrlPolicy` | which URLs and addresses may be fetched | |
| `FetchPolicy` | `Fetch` under that policy | `Fetch`; `Policy == INSTANCE UrlPolicy` |
| `RateLimiter` | limiters, their caches, GCRA | |
| `Compositor` | corner mask and overlay drawing, row by row | |
| `Render` | the sizes, cuts and shadows those drawings are given | `Compositor` |
| `TextWrap` | the lines a text becomes | |
| `SignedUrl` | signing and verifying a query | |
| `Router` | layer stack, hops, request timeout, shutdown | `SignedUrl` |
| `MC...` | the instances for TLC of the module named | it |
| `...Proofs` | the theorems about the module named (`CompositorProofs`: `Render` too) | it and `TLAPS` |

The modules meet at their interfaces, each standing for the others by what they
promise: `ImageService` fetches in one step what `FetchContract` allows a fetch
to return and relies on `Fetch`'s budget for its fairness; `Router` ends a fetch
from elsewhere in one step, and its `Refill` stands for `RateLimiter`'s clock;
`ImageService` renders in one step what `Render` sizes and `Compositor` draws row
by row; the text layer that `TextWrap` lays out is to `Compositor` an overlay that
is transparent but for the text.

### ImageService

| Code | Model |
|---|---|
| `ImageQuery::validate`, image.rs | `Valid`, `Reject` |
| `get_cache_key` | `HashedFields`, `CacheKey` |
| output cache `get` / `insert` | `Hit`, `Start` / `StoreOutput` |
| `source_fut` | `SourceLookup`, `SourceFetch`, `SourceFetchFails`, `SourceStore` |
| `process_overlay` | `OverlayHit`, `OverlayMiss`, `OverlaySource`, `OverlayFetch`, `OverlayStore`, `OverlayDecode`, `OverlayKeep`, `OverlayDecorate`, `OverlayFails` |
| `tokio::join!` and what follows | `JoinFails`, `Join`, `Render`, `RenderFails`, `RenderDies`, `Reply` |
| moka's TTL and size limits | `EvictOutput`, `EvictSource`, `EvictOverlay`, at any time |
| timeout layer, client gone | `Cancel`, at any await |
| `panic = "abort"`, restart | `Crash` |

There is one action per stretch of code between two awaits. An image is a record
of what shaped it (content, box, radius; then place and decoration), a render a
record of look, source and slots: exactly what the properties tell apart. The
query parameters the handler only hands on are one value, `look`, texts included. A
text layer that does not parse is dropped without an error (image.rs:545; for
instance for a control character, which sanitize.rs:113-125 lets through): `TextLost`
is the set of looks and contents of which that is true, a body says whether its
`text` was drawn, and a render is right if the text is missing exactly then.
`apply_overlay_decorations` has no failing path (processor.rs:558-620), so the
fallback around it (overlay.rs:171-181) is never taken and has no action. `published`
and `failed` are history variables for the properties. `Hash` is assumed to have
no collisions among the queries of an instance, which 64 bits make likely and
not certain. Two assumptions name what the code leaves to its configuration:
`MinDimensionAssumption` (with `MIN_DIMENSION=0` two overlay keys coincide that
should not) and `None` being no value of anything.

### Fetch

Each await of `fetch_image` is a phase: `lookup`, `resolving`, `caching`,
`sending`, `reading`, `sleeping`. `StartAttempt` is the code from
`fetch_once_with_resolved_ip`'s entry to its first await, with
`get_pinned_client`; `AttemptFails` is the retry decision; `Headers`,
`SendFails`, `SendTimesOut`, `Body`, `BodyFails`, `Retry` are the ways an await
ends. `Abandon` drops the call at any await. `Rebind`, `ExpireDns` and
`EvictClient` are the world. A tick is possible only when no timer is due, so
timers fire on time (`Tick`); the code's tasks take no time of their own.
The verdicts on content types and magic bytes are data of the replies.

An exchange (`conn`) has a client, an address and a number of redirects. The clients
are built without a redirect policy (client.rs:84-94, 152-164), so reqwest follows up
to ten redirects by itself, to any host, which it resolves by itself: `Redirect` moves
the exchange to any address, inside the same `send` and under the same timers.
`.resolve()` pins the URL's own host only. If the pinned client cannot be built, the
unpinned one goes into the pool under the pinned key (client.rs:164): `Client` chooses
either, and `Reaches` lets the unpinned one connect to any address the host may have.
What is checked, and what is proved, is therefore about the address a call *settles
on*, and about exchanges that are pinned and not redirected; where a redirect leads
nothing in the code looks at, and nothing here promises. How many redirects reqwest
follows is the constant `MaxRedirects`. Our own routes never redirect, and a loopback
URL has its address in it, so that hops stay at 127.0.0.1 with either client.

### UrlPolicy and FetchPolicy

An address is its octets or segments, a name its labels, a URL what `Url::parse`
made of it. `Valid` has the checks of `validate_url_format_with_options` in its
order, `InList` and `IsWildcard` are `is_domain_in_list`, `PrivateV4` and
`PrivateV6` are `PRIVATE_RANGES`, `Effective` is the unwrapping in `is_private_ip`.
`Fetch` takes the refused URLs and public addresses as sets; `PolicyAssumption`
says that in `FetchPolicy` they are the ones `UrlPolicy` computes. Its reference is
`Carried`, the IPv4 addresses to which a packet for an IPv6 address may be handed
on.

### RateLimiter

`ClientIp` and `ChargedKey` are `extract_client_ip` and the choice of the key.
`Get` is moka's `get_with`, `Accept` and `Refuse` are governor's `check`, which
follows without an await: threads interleave between the two, but no time passes
there. `EvictIdle` is the caches' `time_to_idle`, `EvictOverflow` their
`max_capacity`, which may push out any entry. The limiter is governor's GCRA with
one number, the theoretical arrival time; `CountedAhead` covers both readings of
what a new limiter owes, and the theorems hold for both. `accepted` and
`displaced` are history.

### Compositor

`ClipRow` and `DrawRow` do one row of `apply_rounded_corners_inplace` and of
`composite_overlay`; rows go in any order above the threshold for rayon, top to
bottom below it. `WindowStart`, `WindowEnd`, `CanvasStart` keep the code's casts
to `u32` (`% Word`), and so the wrap-around. `Pad`, `ImageX`, `ImageY` are the
padding `finalize_overlay` adds and takes back. A pixel is the sequence of marks
left on it. The text layer is drawn by the same code as an overlay at (0, 0). A
job of the instances is what `Render` makes of a request. Offsets at the very ends
of `i64` are left out.

### Render

`CalculateDimensions` and `Cover` with `Crops` are `calculate_dimensions` and
`resize_crop_cover`, `Frames` the choice `handle_image` makes between them, `Resolve`
the shadow's parameters with the room its blur takes. The code divides in `f64` and
rounds; the operators are sets of sizes, with two members where the exact quotient
lies half way, because the error of `f64` can turn such a tie either way and reaches
no further at sizes below 2^25. The focus is `f32` there, exact enough for
overflows below some 40,000 rows. Sizes are taken to stay below `Word`: past `u32`
the casts saturate, which needs a source thinner than 1 to some 10^5. Not modelled:
decoding, resampling, blur as arithmetic, brightness, colours. How far a blur reaches is
taken from the padding the code makes for it, so that it fits is assumed; what is checked
is that the padding cancels out.

### TextWrap

A line is a span of the text. `Verbatim`, `WordStarts`, `WordJoins`, `LongWord`,
`BreakGlyph` and `EndParagraph` are the branches of `wrap_lines`, `wrap_paragraph`
and `break_word`, each taking one word, glyph or paragraph; `Truncate`, `Shorten`
and `Ellipsize` are the vertical fit and `ellipsize`; `Draw` writes the elements
of one line, `Baselines` with the wrap-around of `i64` and the unit that cutting
`1.2 * size * index` may lose in `f64`. Widths are differences of a monotone
offset along the text, integers instead of `f64`: both measures of the code, by
the font and by the heuristic, are instances of it, but for rounding. Spaces are
counted once per run, which is what `split_whitespace` and joining with `' '` do.
Without a box width the code keeps runs of spaces, whose width nothing then asks
for. `Shown` cuts a line at drawing by the characters it then has (`Length`): a run of
spaces is one in a wrapped line and all of them in one left as it was, and an ellipsis
is one more. The markup of an element is left out.

### SignedUrl

A query is the sequence of its parameters, each with the text behind the first
`expires=` in it, since the verifier looks for that text anywhere (auth.rs:121).
`Sign` is `sign_loopback_url`, `Verifies` is `verify_hmac_signature`; a stable sort by
key is a set of pairs numbered within their key. An HMAC is its string: it is taken
to tell strings apart. The key of the HMAC is one and the same on both sides.

### Router

A request is named by its path through the server, `<<c>>` for a caller's and
`<<c, l>>` for the hop of its leg `l`; names of length three exist so that it can
be said that none is used. `Layers` is the order of `create_app`; who wraps whom
(`Wraps`) decides which headers an answer carries. `Authentic`, `Welcome`,
`IsPreflight`, `Metered` and `Client` are the layers' conditions. `StartFetches`,
`HopArrives`, `HopRefused`, `HopAnswered`, `HopTimesOut` are the loopback path of
`maybe_rewrite_self` and `sign_loopback_url`; `Compose` is the handler's end;
`Expire` is the timeout layer, `Disconnect` hyper dropping a request whose client
is gone, `Shutdown` the graceful shutdown of main.rs.
`Authentic` and `HopRequest` use `SignedUrl` for what a signature says; time stands
still while a request is answered (`Now`). HEAD is left out; idle
keep-alive connections are closed at shutdown, so a later hop is refused; budgets
refill one by one at any time, and `earned`, a history variable, counts that. A server
elsewhere that redirects back to our own public /image is a new caller to this model,
so `AtMostOneHop` is about requests made by way of `SELF_HOST` only. `/gradient`'s own use of the output cache is not
modelled: its keys begin with `gradient:` and never meet /image's.

## 3. Runs

All runs say `CHECK_DEADLOCK FALSE`: each request or call of an instance is used
once, a rendering job ends, and then nothing more need happen. Every passing run
takes less than three minutes with two workers.
Types are a conjunct of the `IInv` that `ImageLegs`, `FetchRetries`, `RateLimits` and
`RouterLayers` check; `Compositor`'s are proved (`TypeCorrect`).

| Run | Question | Distinct states |
|---|---|---|
| `ImageCaches` | Do two concurrent requests that share keys, with an origin that changes, evictions, failures, timeouts and a crash, leave anything wrong in a cache or an answer (`CachesSound`, `AnswersSound`)? | 1,142k |
| `ImageLegs` | Does a request with a source and two overlays implement `ImagePromise` (`Promised`), with failing overlays leaving the others in their slots, and always end without the timeout layer (`EveryRequestAnswered`)? Is any of its work done twice (`NothingTwice`)? Is `IInv` invariant? | 76k |
| `FetchRetries` | One call with every kind of reply and two retries: does it go on and never back (`CallsGoOn`) and end in time (`EndsInBudget`, `EveryCallEnds`) with a result that has a cause (`KeepsContract`)? | 364k |
| `FetchAddresses` | Two calls share the DNS cache and the pool while records change: does each call settle on an address it has checked, and keep it for its retries (`OneAddressPerCall`), is an exchange elsewhere only by redirect or unpinned client (`AddressChecked`), and is no private IPv4 address settled on, in whichever form it comes (`SettlesOnPublic`)? | 538k |
| `RateLimits` | Three clients compete for caches of one entry over more than an idle period: can idling or crowding give one of them more (`BudgetKept`, `IInv`), or have one refused that has not used up its own (`RefusedRightly`)? | 1,228k |
| `Compositing` | Pictures of every small proportion in every small box: do they fit and cover it undistorted (`FitsItsBounds`, `CoversItsBox`)? Overlays on, over the edge of and off small canvases, every radius of canvases up to 7 x 6 and rows in any order: is each pixel what was asked for? | 17k |
| `RouterLayers` | Every kind of request under 16 configurations, with hops, timeouts, disconnects and shutdown: is only admitted work done, are answers readable, are hops single and accepted if signed (`HopsVerify`), has whatever a client was answered besides 429 cost it, and nobody else, one request (`Accounts`), and does no request or leg go back (`NoWayBack`)? | 309k |
| `RouterLiveness` | A request whose source and overlay are both on the server itself: does it end, during shutdown too? | 17k |
| `TextWrapping` | Every short text in boxes of several widths and heights: do lines fit (`LinesFit`), break only where they must (`BreaksForced`), lose nothing (`NothingLost`, `DrawnWhole`), stay in the box (`BaselinesInBox`), and does layout end (`EndsLayout`), each step leaving less to do (`MakesProgress`)? | 229k |
| `ImageImmutable` | violated: "immutable" answers (image.rs:358, 568) to one query differ, as an overlay failed for the first | |
| `CompositorOutside` | violated: "Early exit if overlay is completely outside" (processor.rs:374): 2^32 pixels further left it is drawn | |
| `RouterHops` | violated: a hop is signed "so REQUIRE_AUTH=true doesn't 401 our own internal hop" (client.rs:201); with API keys and no HMAC secret it is not | |

### Bounds, and why they are enough

- Images: two requests are enough for one to store what the other finds, and for
  either to be cancelled in between. `ImageCaches` has one content that decodes and
  one that does not, and one look whose texts do not parse. The queries of `SharedKeyQueries` meet in
  every way keys can: equal output keys of different queries, equal overlay keys
  of different overlays, the key of a rejected width, source and overlay of one
  URL. `ImageLegs` has one request with three legs, the case in which order
  matters; requests do not wait for each other, so one is enough for
  liveness. `Promised` is there checked for that one request; that two at once keep it,
  with the keys they share, is proved (`Implements`). `CachesSound` allows any
  content a URL has served: an older one that replaces a newer is not caught.
- Fetching: two retries tell first, middle and last attempts apart; timeouts of
  one to three ticks make every order of header timer, total timer and backoff
  happen. In `FetchAddresses` all timers are due at once, so any order of steps of
  two calls is reached; one host is enough, since keys of different hosts differ, and
  one kind of call (`OneKind`), since the kinds differ by a timer. Its addresses are a
  private one in compatible form and a public one as it is and mapped; its four URLs
  are let through, have a private literal, are on the block list and are our own. The
  other forms (NAT64, 6to4) and reasons are proved. One redirect is as good as ten: it
  leads anywhere already.
- Rate limits: one request per minute-tick and an idle time of two ticks, the
  smallest values `IdleAssumption` allows, so the edges coincide as early as they
  can; `MaxTime` lets an entry idle out and come back. A key stops asking when
  `MaxAccepted` of its requests passed (two threads can bring that to one more). With a
  burst of one and an interval of one, four are enough for a burst, the request of
  grace, what is earned until an entry idles out, and a second budget after that, which
  is what `BudgetKept` forbids; `FewRequests` keeps the requests of all keys together to
  one more than that.
- Compositing: widths and offsets from fully left of the canvas to fully right of
  it, odd and even sizes, holes in overlays, shadows on all sides; sources of one to
  nine pixels a side in boxes of one to five, with quotients above, at and below one
  half and below one pixel, and every kind of focus. `Word` is 64 in this run, above every offset, so nothing wraps around in it; what happens to
  indices when offsets do wrap is proved (`NoIndexLeaves`), and `CompositorOutside`
  has `Word = 8` and offsets beyond two words.
- Router: one caller with two legs, and so two hops at once, each under a budget
  of one, which `Refill` fills again; all credentials, origins, referers and paths; queries signed, signed for another
  path, expired, and with `sig`, `expires` or a key twice of their own. `RouterLiveness` has a
  budget of two, so that hops get through or not.

- Text: all strings of up to four characters out of a narrow, a wide and a
  zero-width glyph, space and newline, and of up to seven out of fewer, so that lines without a box, or in one six
  wide, come to `Limit` and over it, an ellipsis included; boxes
  narrower than a glyph, than the ellipsis, as wide as a line, of one or more lines;
  `Half` is 256, so that `y` near the end of `i64` wraps around.

Symmetry (threads and limiters, requests, calls) is used in runs without liveness
only, over sets no definition tells apart.

### Fairness

- `ImageService`: `WF(Handler(r))`. tokio schedules tasks that can run, and a
  fetch ends, which `Fetch` shows. Nothing is assumed of the timeout layer, of
  evictions, clients or origins.
- `Fetch`: `WF(Tick)` and `WF(OwnStep(c))`, where `OwnStep` holds only what the
  call does by itself or on a timer. No resolver and no server owes an answer.
- `TextWrap`: `WF(Next)`. The code is one loop after another in one thread.
- `Router`: for each request, weak fairness of its way in, its handler and its
  request timer. Nothing is assumed of servers elsewhere, and hops progress only
  because they are requests too.

## 4. Proofs

The assumptions are the named `ASSUME`s of the modules, which TLC evaluates in
every run; nothing else is taken for granted.

| Theorem | States | Along which argument |
|---|---|---|
| `ImageServiceProofs!TypeCorrect`, `Inductive`, `CachesCorrect`, `AnswersCorrect` | types, caches and answers of /image | `CachesSound` is not inductive: an entry is sound because what a leg carries towards it is. `IInv` adds what each leg and body holds in each state and what a phase says of the legs |
| `ImageServiceProofs!ImmutableUntilFailure` | `failed = {} => ImmutableAnswers` | from `IInv`: every part of an answer comes from something its origin has published, and with no overlay failed all parts are there. This is the violated property of `ImageImmutable` under the one condition it lacks: failed overlays are its only counterexamples |
| `ImageServiceProofs!NothingRepeated` | `NothingTwice` | phases and the states of legs are ordered, and each action moves one of them up and none down; with `IInv`, which says that a request that is done has no legs at work |
| `ImageServiceProofs!Implements` | `Spec => Promised` | from `IInv`, each step is a step of `ImagePromise` or leaves its variables alone; storing, fetching and eviction are stutters, a crash refuses all requests in flight at once |
| `FetchProofs!TypeCorrect`, `Inductive`, `AddressesCorrect`, `BudgetKept`, `OneAddress` | `TypeOK`, `IInv`, `AddressChecked`, `EndsInBudget`, `OneAddressPerCall` | a pooled client is pinned to the address of its key, if at all, cached addresses are public, an exchange is elsewhere only when `Astray`, and in each phase what is spent and what may still be spent add up to no more than the budget |
| `FetchProofs!NoCallStartsOver` | `CallsGoOn` | phases are ordered within an attempt, and only `Retry` goes back to sending, with one attempt more; a call that has not sent has made no attempt (`PhasesAgree`) |
| `FetchProofs!Implements` | `Spec => KeepsContract` | `RepliesAgree`: a call under way has seen only replies worth a retry, and fewer of them than attempts |
| `RateLimiterProofs!LimitersOweTheirGrants`, `NoSecondBudget` | `IInv`, `BudgetKept` | the limiter of a key that was not displaced owes all that was granted to it; a key without one has been idle long enough to owe nothing (`IdleAssumption`) |
| `RateLimiterProofs!NoneRefusedEarly` | `RefusedRightly` | `DebtsDue`: what a limiter still owes is at most what its own key was granted since some request, through whichever limiter. A grant adds the same to both sides, and time and eviction only take away |
| `RateLimiterProofs!TwiceInAMinute` | `AtMostTwice` | `BudgetKept` over one minute, where the limit divides the minute (`Minute = Earned(Burst)`; otherwise the rounded-down interval earns a little more) |
| `CompositorProofs!LoopsKept`, `TypeCorrect`, `NoIndexLeaves`, `MaskIsRound` | `Loops`, `TypeOK`, `IndicesInBounds`, `CornersRound` | for all sizes, offsets, radii and `Word`; the mask by monotonicity of the squared distance |
| `CompositorProofs!NothingDistorted`, `BoxCovered` | `FitsItsBounds`, `CoversItsBox` | a job is fixed, so that this is about `CalculateDimensions`, `Cover` and `Crops` for all sizes: a rounded quotient is within a half, and a quotient at most (at least) an integer is rounded to at most (at least) it, so the cross-multiplied comparison of aspects decides which side can leave the box |
| `CompositorProofs!RequestsHaveJobs` | every request has a job | a rounded quotient exists, so sizes, cuts and shadows do; without it the theorems about jobs could be about none |
| `CompositorProofs!DrawnAsAsked`, `StackKept`, `OutsideLeavesNothing` | `OverlaysInPlace`, `StackedInOrder`, `OutsideNotDrawn` | under `OffsetsFit`, offsets within 2^32 of the canvas: the wrap-around is the only cause of what `CompositorOutside` finds |
| `RouterProofs!Inductive`, `TypeCorrect`, `Admission`, `NoCircularWait`, `Readable` | `IInv`, `TypeOK`, `OnlyAdmitted`, `AtMostOneHop`, `ReadableAnswers` | where a request is says which checks it has passed (`OnItsWay`), and legs and hops agree (`LegsAgree`); for any configurations, requests and legs |
| `RouterProofs!EveryAnswerPaid` | `Accounts` | every action leaves who has been charged alone, or takes one request into `Charged` with the budget (`Admit`), or moves one on to an answer (`Served`); `Staying` says the first of most actions, so that the cardinalities change by one at most. `Refill` raises `left` and `earned` together |
| `RouterProofs!OneWay` | `NoWayBack` | the layers are ordered, and `IInv` says what answer and legs a request may have at each |
| `TextWrapProofs!Inductive`, `TypeCorrect`, `BoxRespected`, `TextKept`, `Greedy`, `CutOnce` | `IInv`, `TypeOK`, `LinesFit`, `NothingLost`, `BreaksForced`, `DrawnWhole` | `LinesAgree`: the lines done are chained, each followed by the next only where it had to be; the line being filled follows them and ends where reading has come to, with a word between words and inside one word while that is broken |
| `TextWrapProofs!DrawnInBox` | `BaselinesInBox` | `DrawnAgree`: nothing is drawn below where the next line goes. Quotients and products keep lines in order and as many as `MaxLines` above the bottom, and clear of the ends of `i64` (`Fits`) `AsI64` is the identity |
| `TextWrapProofs!Terminates` | `MakesProgress` | stages are ordered, and in each `Left` counts what is left of the text, the last line or the lines to draw; `IInv` keeps it a natural number |
| `SignedUrlProofs!SignedVerifies`, `RouterProofs!SignedHops` | `HopsVerify` | the two appended parameters are the last `expires` and `sig`, the first and only `expires=`, and leave the signed pairs and their ranks alone; the router's answers of 401 come from authentication, and a hop's request is the one signed (`HopsAgree`) |
| `RouterProofs!SignedHopsPass` | `Signable => HopsAuthorised` | the same for the violated property of `RouterHops`: with a secret where authentication is on, and URLs with a query without `expires=`, there is no counterexample |
| `FetchPolicyProofs!FormsAlike` | mapped and compatible forms of an IPv4 address are judged as it is | two octets come out of their segment again, and `Effective` takes just these forms apart |
| `FetchPolicyProofs!SettlesPublic` | `SettlesOnPublic` | whatever is not private carries no private IPv4 address, form by form; the rest is `Fetch`'s `AddressChecked`, whose proof carries over since `FetchPolicy` has the same steps |

Only model-checked: the liveness properties (`EveryRequestAnswered`,
`EveryCallEnds`, `EveryRequestEnds`, `EndsLayout`), since fairness is out of the
prover's reach. Their safety half is proved: `NothingTwice`, `CallsGoOn`,
`NoWayBack` and `MakesProgress` say that no step goes back along an order, so a
behaviour could only fail to end by stopping or, where a step may leave the order
alone, by standing still; that neither happens is what TLC finds under fairness.
The violated properties are counterexamples; what is true of each, under the
condition it lacks, is proved (`ImmutableUntilFailure`, `OutsideLeavesNothing`,
`SignedHopsPass`).

Of the constants the theorems assume what the code needs and no more. Three carry a
condition in their statement instead: `OffsetsFit`, `Minute = Earned(Burst)`, and
`Signable` as part of the invariant.

## 5. What the code does not do although something says so

Three disagreements have runs (`PROJECT.json`, findings). Others were met and have
none:

- `.env.example:78-79` calls FETCH_TIMEOUT_MAIN the fetch timeout; it is put
  around `send()` (client.rs:321) and ends with the response headers. In `Fetch`
  the body is limited by `TotalTimeout` alone.
- `.env.example:57` says "Requests per minute": up to twice as many pass in
  a minute. `BudgetKept` states the bound that holds, and `TwiceInAMinute` derives this.
- security.rs:9 says "all responses"; answers of the layers outside it (204, 401,
  403, 408, 429) carry no security headers (`Router!Headers`).
- `.env.example:57` says "per IP": the hops of all callers share the budget of
  127.0.0.1, so that one caller's picture may fail on what others asked for.
- `.env.example:58`: a key in the query string (auth.rs:73-80) lets a request in,
  but rate_limit.rs:129-147 does not find it there and charges the address.

- client.rs:256 says "use the resolved IP directly", client.rs:82-83 and 306-307 say
  that addresses are resolved by the server itself "for SSRF protection" and pinned
  against DNS rebinding. The clients follow redirects to hosts that are neither checked
  nor pinned (84-94, 152-164), and one that cannot be built is replaced by one that
  resolves for itself (164). `Redirect` and `Client` are in `Fetch`; its properties
  exempt those exchanges (`Astray`).
- client.rs:66-69 says that the HMAC secret is required with REQUIRE_AUTH, and
  .env.example:34-35 lets it be empty next to API_KEYS. `RouterHops` has what follows.
- compose.yml:14-15 expects the origin cache to "deduplicate the tiny window of
  in-flight concurrent requests"; concurrent misses of one key each fetch and render
  (image.rs:353-358).
- client.rs:392-394 says that the signer mirrors the verifier "exactly". A URL that
  holds the text `expires=` already is signed as if it did not, and the verifier
  reads its expiry from there (auth.rs:121): the hop is refused. `HopsVerify` and
  `SignedVerifies` exempt those queries (`Plain`), and the request `Stale` of
  `RouterLayers` takes this path.
- sanitize.rs says "Round to the nearest 100" of font weights and clamps them only.

## 6. Not modelled

What a library does: parsing of URLs, decoding, resampling, rasterising of text,
encoding. Fonts and configuration only read files and the environment once. What
is clean-up of strings without state: escaping, colours and weights of
`sanitize.rs`, the markup around a line of text. /gradient's parameters. The
comparison of magic bytes in `validation.rs` and the arithmetic of retry delays,
whose outcomes are data of the replies and constants of `Fetch`. Blur, brightness and
blending are pure functions of pixels, about which the models say only which
parameters they were given. The load of abandoned tasks on the
blocking pool, memory use and the unused mask cache are left out. An error text
containing "404" turns a failed fetch into Not Found (error.rs:98); `Router` and
`ImageService` allow either status.

## 7. Plan

Done, in this order: `ImageData`, `ImagePromise`, `ImageService`, `FetchContract`,
`Fetch`, `RateLimiter`, `Compositor`, `Router`; then `TextWrap`, `SignedUrl` (in
place of the router's former input), `UrlPolicy` with `FetchPolicy`, and `Render`;
with the proofs of each.

Left, most important first:

1. /gradient with the output cache it shares with /image: disjoint keys, and the
   parameters it refuses.
2. `sanitize.rs` and the magic bytes of `validation.rs` against reference
   definitions; the delays of `retry.rs`.
3. Blending of two pixels in integers: bounds, and that an opaque overlay replaces
   what is below it.

Every invariant and action property of a passing run is the subject of a theorem.
Worth proving next: that the finished canvas is one and the same in any order of
rows, as a function of the job (it follows from `OverlaysInPlace` and
`StackedInOrder`), and for 1. that the two key spaces never meet.
