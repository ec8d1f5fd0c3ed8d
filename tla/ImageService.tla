----------------------------- MODULE ImageService -----------------------------
(***************************************************************************)
(* GET /image: handle_image of server/routes/image.rs, the overlay         *)
(* pipeline of image/overlay.rs and the in-memory caches of cache/mod.rs   *)
(* they share.  Every request is a task; between two awaits of one task    *)
(* any step of any other may happen, and inside a task the source leg and  *)
(* the overlay legs interleave (join! and join_all).                       *)
(***************************************************************************)
EXTENDS ImageData

CONSTANTS
  Requests,     \* one HTTP exchange each
  Hash(_)       \* AHasher::finish, printed as 16 hex digits

\* Variant of the next: the overlays not hashed.
HashedFieldsNoOverlays(q) == <<q.src, q.look>>

\* What the hasher is fed, in order: fields, and single-valued parameters
\* reduced to their first element.
HashedFields(q) == <<q.src, q.look, q.overlay>>

\* No two queries of an instance collide in the 64-bit hash.
ASSUME HashAssumption ==
  \A p, q \in Queries : Hash(HashedFields(p)) = Hash(HashedFields(q)) => HashedFields(p) = HashedFields(q)

\* get_cache_key
CacheKey(q) == Hash(HashedFields(q))

\* process_overlay's key "url_w_h_rad": the last three fields hold no "_", so
\* the string determines the four of them.
OverlayKey(o) == <<o.url, OrZero(o.maxw), OrZero(o.maxh), OrZero(o.rad)>>

RequestedOverlays == UNION {{q.overlay[i] : i \in DOMAIN q.overlay} : q \in Queries}
OutputKeys == {CacheKey(q) : q \in Queries}
OverlayKeys == {OverlayKey(o) : o \in RequestedOverlays}

\* What handle_image makes of a FetchError of the source.
FetchErrors == {"NotFound", "BadRequest", "FetchFailed"}

Errors == FetchErrors \cup {"ImageProcessing", "Internal", "Timeout", "Gone"}

Answers == [status: {"OK"}, body: Bodies] \cup [status: Errors, body: {None}]

ASSUME AnswerAssumption == None \notin Answers

VARIABLES
  origin,       \* origin[u]: what u serves now
  published,    \* history: every <<url, content>> origins have served
  failed,       \* history: overlays process_overlay has returned Err for
  outputCache,  \* CacheManager.output: key -> body or None
  sourceCache,  \* CacheManager.source: url -> content or None
  overlayCache, \* CacheManager.overlay: key -> decoded image or None
  phase,        \* phase[r]: how far handle_image has come
  query,        \* query[r]: its query
  src,          \* src[r]: source_fut, as [st, val]
  ovl,          \* ovl[r][i]: process_overlay of slot i, as [st, val]
  body,         \* body[r]: the encoded output, once rendered
  answer        \* answer[r]: the response

caches == <<outputCache, sourceCache, overlayCache>>
history == <<published, failed>>
legs == <<src, ovl>>
vars == <<origin, history, caches, phase, query, legs, body, answer>>

Phases == {"idle", "received", "fetching", "rendering", "storing", "replying", "done"}
InFlight(r) == phase[r] \notin {"idle", "done"}

NoLeg == [st |-> "off", val |-> None]
NoLegs == [i \in Slots |-> NoLeg]

-----------------------------------------------------------------------------
Init ==
  /\ origin \in [Urls -> Contents]
  /\ published = {<<u, origin[u]>> : u \in Urls}
  /\ failed = {}
  /\ outputCache = [k \in OutputKeys |-> None]
  /\ sourceCache = [u \in Urls |-> None]
  /\ overlayCache = [k \in OverlayKeys |-> None]
  /\ phase = [r \in Requests |-> "idle"]
  /\ query = [r \in Requests |-> None]
  /\ src = [r \in Requests |-> NoLeg]
  /\ ovl = [r \in Requests |-> NoLegs]
  /\ body = [r \in Requests |-> None]
  /\ answer = [r \in Requests |-> None]

-----------------------------------------------------------------------------
(* The environment: origins, clients, and the caches' own eviction.        *)

Publish(u, c) ==
  /\ c # origin[u]
  /\ origin' = [origin EXCEPT ![u] = c]
  /\ published' = published \cup {<<u, c>>}
  /\ UNCHANGED <<failed, caches, phase, query, legs, body, answer>>

Arrive(r, q) ==
  /\ phase[r] = "idle"
  /\ phase' = [phase EXCEPT ![r] = "received"]
  /\ query' = [query EXCEPT ![r] = q]
  /\ UNCHANGED <<origin, history, caches, legs, body, answer>>

\* An entry expires (TTL of outputs and overlays) or is pushed out by others.
EvictOutput(k) ==
  /\ outputCache[k] # None
  /\ outputCache' = [outputCache EXCEPT ![k] = None]
  /\ UNCHANGED <<origin, history, sourceCache, overlayCache, phase, query, legs, body, answer>>

EvictSource(u) ==
  /\ sourceCache[u] # None
  /\ sourceCache' = [sourceCache EXCEPT ![u] = None]
  /\ UNCHANGED <<origin, history, outputCache, overlayCache, phase, query, legs, body, answer>>

EvictOverlay(k) ==
  /\ overlayCache[k] # None
  /\ overlayCache' = [overlayCache EXCEPT ![k] = None]
  /\ UNCHANGED <<origin, history, outputCache, sourceCache, phase, query, legs, body, answer>>

-----------------------------------------------------------------------------
(* handle_image                                                            *)

\* The handler returns: its futures are dropped with all they hold.
Finish(r, status, b) ==
  /\ phase' = [phase EXCEPT ![r] = "done"]
  /\ src' = [src EXCEPT ![r] = NoLeg]
  /\ ovl' = [ovl EXCEPT ![r] = NoLegs]
  /\ body' = [body EXCEPT ![r] = None]
  /\ answer' = [answer EXCEPT ![r] = [status |-> status, body |-> b]]
  /\ UNCHANGED <<origin, history, caches, query>>

Reject(r) ==
  /\ phase[r] = "received"
  /\ ~Valid(query[r])
  /\ Finish(r, "BadRequest", None)

\* The output cache answers, before any URL of the query is looked at.
Hit(r) ==
  /\ phase[r] = "received"
  /\ Valid(query[r])
  /\ outputCache[CacheKey(query[r])] # None
  /\ Finish(r, "OK", outputCache[CacheKey(query[r])])

\* A miss: the source leg and one leg per overlay are joined.
Start(r) ==
  /\ phase[r] = "received"
  /\ Valid(query[r])
  /\ outputCache[CacheKey(query[r])] = None
  /\ phase' = [phase EXCEPT ![r] = "fetching"]
  /\ src' = [src EXCEPT ![r] = [st |-> "lookup", val |-> None]]
  /\ ovl' = [ovl EXCEPT ![r] =
               [i \in Slots |-> IF i \in DOMAIN query[r].overlay
                                THEN [st |-> "lookup", val |-> None] ELSE NoLeg]]
  /\ UNCHANGED <<origin, history, caches, query, body, answer>>

\* Variant of the next: failed overlays not counted as finished.
LegsSucceeded(r) ==
  /\ src[r].st \in {"ok", "err"}
  /\ \A i \in Slots : ovl[r][i].st \in {"off", "done"}

LegsFinished(r) ==
  /\ src[r].st \in {"ok", "err"}
  /\ \A i \in Slots : ovl[r][i].st \in {"off", "done", "failed"}

\* join! has returned and the source leg holds an error: `source_result?`.
JoinFails(r) ==
  /\ phase[r] = "fetching"
  /\ LegsFinished(r)
  /\ src[r].st = "err"
  /\ Finish(r, src[r].val, None)

\* The render task is spawned, with the source bytes and the overlays that
\* came through.
Join(r) ==
  /\ phase[r] = "fetching"
  /\ LegsFinished(r)
  /\ src[r].st = "ok"
  /\ phase' = [phase EXCEPT ![r] = "rendering"]
  /\ UNCHANGED <<origin, history, caches, query, legs, body, answer>>

\* Variant of the next: the overlays in the order they came through.
RenderLastFirst(r) ==
  /\ phase[r] = "rendering"
  /\ src[r].val \in Usable
  /\ phase' = [phase EXCEPT ![r] = "storing"]
  /\ body' = [body EXCEPT ![r] =
       [look |-> query[r].look,
        text |-> <<query[r].look, src[r].val>> \notin TextLost,
        src |-> src[r].val,
        overlays |-> [i \in Slots |->
          LET leg == ovl[r][MaxOverlays + 1 - i] IN IF leg.st = "done" THEN leg.val ELSE None]]]
  /\ UNCHANGED <<origin, history, caches, query, legs, answer>>

\* `flatten` drops the failed overlays and keeps the order of the others; texts
\* that do not render are dropped without an error.
Render(r) ==
  /\ phase[r] = "rendering"
  /\ src[r].val \in Usable
  /\ phase' = [phase EXCEPT ![r] = "storing"]
  /\ body' = [body EXCEPT ![r] =
       [look |-> query[r].look,
        text |-> <<query[r].look, src[r].val>> \notin TextLost,
        src |-> src[r].val,
        overlays |-> [i \in Slots |-> IF ovl[r][i].st = "done" THEN ovl[r][i].val ELSE None]]]
  /\ UNCHANGED <<origin, history, caches, query, legs, answer>>

\* get_metadata finds too many pixels; or decode_image fails, or encode_webp
\* refuses the finished picture, which any content may meet.
RenderFails(r) ==
  /\ phase[r] = "rendering"
  /\ Finish(r, IF src[r].val \in Oversized THEN "BadRequest" ELSE "ImageProcessing", None)

\* The render task panics (a build that unwinds) or is dropped by the runtime.
RenderDies(r) ==
  /\ phase[r] = "rendering"
  /\ Finish(r, "Internal", None)

StoreOutput(r) ==
  /\ phase[r] = "storing"
  /\ outputCache' = [outputCache EXCEPT ![CacheKey(query[r])] = body[r]]
  /\ phase' = [phase EXCEPT ![r] = "replying"]
  /\ UNCHANGED <<origin, history, sourceCache, overlayCache, query, legs, body, answer>>

Reply(r) ==
  /\ phase[r] = "replying"
  /\ Finish(r, "OK", body[r])

-----------------------------------------------------------------------------
(* source_fut                                                              *)

SetSrc(r, st, v) ==
  /\ src' = [src EXCEPT ![r] = [st |-> st, val |-> v]]
  /\ UNCHANGED <<origin, history, outputCache, overlayCache, phase, query, ovl, body, answer>>

SourceLookup(r) ==
  /\ src[r].st = "lookup"
  /\ LET cached == sourceCache[query[r].src]
     IN  SetSrc(r, IF cached = None THEN "fetch" ELSE "ok", cached)
  /\ UNCHANGED sourceCache

\* fetch_image returns bytes that passed its checks (module Fetch).
SourceFetch(r) ==
  /\ src[r].st = "fetch"
  /\ SetSrc(r, "store", origin[query[r].src])
  /\ UNCHANGED sourceCache

SourceFetchFails(r) ==
  /\ src[r].st = "fetch"
  /\ \E e \in FetchErrors : SetSrc(r, "err", e)
  /\ UNCHANGED sourceCache

SourceStore(r) ==
  /\ src[r].st = "store"
  /\ sourceCache' = [sourceCache EXCEPT ![query[r].src] = src[r].val]
  /\ SetSrc(r, "ok", src[r].val)

-----------------------------------------------------------------------------
(* process_overlay                                                         *)

SetOvl(r, i, st, v) ==
  /\ ovl' = [ovl EXCEPT ![r][i] = [st |-> st, val |-> v]]
  /\ UNCHANGED <<origin, published, outputCache, phase, query, src, body, answer>>

\* An image in hand: a bare overlay is returned, a decorated one goes to the
\* blocking pool first.
HaveImage(r, i, image) ==
  LET o == query[r].overlay[i]
  IN  IF o.deco = Bare THEN SetOvl(r, i, "done", Decorate(image, o))
                       ELSE SetOvl(r, i, "decorate", image)

OverlayHit(r, i) ==
  /\ ovl[r][i].st = "lookup"
  /\ overlayCache[OverlayKey(query[r].overlay[i])] # None
  /\ HaveImage(r, i, overlayCache[OverlayKey(query[r].overlay[i])])
  /\ UNCHANGED <<failed, sourceCache, overlayCache>>

OverlayMiss(r, i) ==
  /\ ovl[r][i].st = "lookup"
  /\ overlayCache[OverlayKey(query[r].overlay[i])] = None
  /\ SetOvl(r, i, "source", None)
  /\ UNCHANGED <<failed, sourceCache, overlayCache>>

OverlaySource(r, i) ==
  /\ ovl[r][i].st = "source"
  /\ LET cached == sourceCache[query[r].overlay[i].url]
     IN  SetOvl(r, i, IF cached = None THEN "fetch" ELSE "decode", cached)
  /\ UNCHANGED <<failed, sourceCache, overlayCache>>

OverlayFetch(r, i) ==
  /\ ovl[r][i].st = "fetch"
  /\ SetOvl(r, i, "store", origin[query[r].overlay[i].url])
  /\ UNCHANGED <<failed, sourceCache, overlayCache>>

OverlayStore(r, i) ==
  /\ ovl[r][i].st = "store"
  /\ sourceCache' = [sourceCache EXCEPT ![query[r].overlay[i].url] = ovl[r][i].val]
  /\ SetOvl(r, i, "decode", ovl[r][i].val)
  /\ UNCHANGED <<failed, overlayCache>>

\* Variant of the next: whatever was fetched is taken for a picture.
OverlayDecodeAny(r, i) ==
  /\ ovl[r][i].st = "decode"
  /\ SetOvl(r, i, "keep", Transform(ovl[r][i].val, query[r].overlay[i]))
  /\ UNCHANGED <<failed, sourceCache, overlayCache>>

OverlayDecode(r, i) ==
  /\ ovl[r][i].st = "decode"
  /\ ovl[r][i].val \in Usable
  /\ SetOvl(r, i, "keep", Transform(ovl[r][i].val, query[r].overlay[i]))
  /\ UNCHANGED <<failed, sourceCache, overlayCache>>

OverlayKeep(r, i) ==
  /\ ovl[r][i].st = "keep"
  /\ overlayCache' = [overlayCache EXCEPT ![OverlayKey(query[r].overlay[i])] = ovl[r][i].val]
  /\ HaveImage(r, i, ovl[r][i].val)
  /\ UNCHANGED <<failed, sourceCache>>

\* apply_overlay_decorations never returns Err, so that the fallback to the plain
\* overlay does not run.
OverlayDecorate(r, i) ==
  /\ ovl[r][i].st = "decorate"
  /\ SetOvl(r, i, "done", Decorate(ovl[r][i].val, query[r].overlay[i]))
  /\ UNCHANGED <<failed, sourceCache, overlayCache>>

\* Variant of the next: the overlay fetched again.
OverlayFailsAgain(r, i) ==
  /\ ovl[r][i].st \in {"fetch", "decode", "decorate"}
  /\ SetOvl(r, i, "source", None)
  /\ failed' = failed \cup {query[r].overlay[i]}
  /\ UNCHANGED <<sourceCache, overlayCache>>

\* process_overlay returns Err: the fetch failed, or a task on the blocking
\* pool did.  The content that does not decode always fails, any task may die.
OverlayFails(r, i) ==
  /\ ovl[r][i].st \in {"fetch", "decode", "decorate"}
  /\ SetOvl(r, i, "failed", None)
  /\ failed' = failed \cup {query[r].overlay[i]}
  /\ UNCHANGED <<sourceCache, overlayCache>>

-----------------------------------------------------------------------------
(* What ends a request from outside, at whatever await it has come to.     *)

\* The timeout layer answers 408, or hyper finds the client gone: the handler
\* future is dropped, tasks on the blocking pool run on for nobody.
Cancel(r, e) ==
  /\ InFlight(r)
  /\ e \in {"Timeout", "Gone"}
  /\ Finish(r, e, None)

\* The process dies (panic = "abort" in the release profile, a kill) and is
\* started again: nothing is on disk, connections are lost.
Crash ==
  /\ outputCache' = [k \in OutputKeys |-> None]
  /\ sourceCache' = [u \in Urls |-> None]
  /\ overlayCache' = [k \in OverlayKeys |-> None]
  /\ phase' = [r \in Requests |-> IF InFlight(r) THEN "done" ELSE phase[r]]
  /\ src' = [r \in Requests |-> NoLeg]
  /\ ovl' = [r \in Requests |-> NoLegs]
  /\ body' = [r \in Requests |-> None]
  /\ answer' = [r \in Requests |->
                  IF InFlight(r) THEN [status |-> "Gone", body |-> None] ELSE answer[r]]
  /\ UNCHANGED <<origin, history, query>>

-----------------------------------------------------------------------------
SourceStep(r) ==
  SourceLookup(r) \/ SourceFetch(r) \/ SourceFetchFails(r) \/ SourceStore(r)

OverlayStep(r, i) ==
  \/ OverlayHit(r, i) \/ OverlayMiss(r, i) \/ OverlaySource(r, i) \/ OverlayFetch(r, i)
  \/ OverlayStore(r, i) \/ OverlayDecode(r, i) \/ OverlayKeep(r, i) \/ OverlayDecorate(r, i)
  \/ OverlayFails(r, i)

Handler(r) ==
  \/ Reject(r) \/ Hit(r) \/ Start(r)
  \/ SourceStep(r)
  \/ \E i \in Slots : OverlayStep(r, i)
  \/ JoinFails(r) \/ Join(r) \/ Render(r) \/ RenderFails(r) \/ RenderDies(r)
  \/ StoreOutput(r) \/ Reply(r)

Eviction ==
  \/ \E k \in OutputKeys : EvictOutput(k)
  \/ \E u \in Urls : EvictSource(u)
  \/ \E k \in OverlayKeys : EvictOverlay(k)

Next ==
  \/ \E u \in Urls, c \in Contents : Publish(u, c)
  \/ \E r \in Requests, q \in Queries : Arrive(r, q)
  \/ \E r \in Requests : Handler(r)
  \/ \E r \in Requests, e \in Errors : Cancel(r, e)
  \/ Eviction
  \/ Crash

Spec == Init /\ [][Next]_vars

\* A task that can run is run, and a fetch ends: every attempt is bounded by
\* the client's total timeout (module Fetch).  The timeout layer is not relied
\* upon, and neither are eviction, clients or origins.
FairSpec == Spec /\ \A r \in Requests : WF_vars(Handler(r))
-----------------------------------------------------------------------------
(* Properties                                                              *)

\* What a leg holds in each of its states.
SourceLegs ==
  [st: {"off", "lookup", "fetch"}, val: {None}] \cup
  [st: {"store", "ok"}, val: Contents] \cup
  [st: {"err"}, val: FetchErrors]

OverlayLegs ==
  [st: {"off", "lookup", "source", "fetch", "failed"}, val: {None}] \cup
  [st: {"store", "decode"}, val: Contents] \cup
  [st: {"keep", "decorate"}, val: Images] \cup
  [st: {"done"}, val: Placed]

TypeOK ==
  /\ origin \in [Urls -> Contents]
  /\ published \subseteq Urls \X Contents
  /\ failed \subseteq RequestedOverlays
  /\ outputCache \in [OutputKeys -> Bodies \cup {None}]
  /\ sourceCache \in [Urls -> Contents \cup {None}]
  /\ overlayCache \in [OverlayKeys -> Images \cup {None}]
  /\ phase \in [Requests -> Phases]
  /\ query \in [Requests -> Queries \cup {None}]
  /\ src \in [Requests -> SourceLegs]
  /\ ovl \in [Requests -> [Slots -> OverlayLegs]]
  /\ body \in [Requests -> Bodies \cup {None}]
  /\ answer \in [Requests -> Answers \cup {None}]

\* Overlays process_overlay can be called with.
AcceptedOverlays ==
  UNION {{q.overlay[i] : i \in DOMAIN q.overlay} : q \in {p \in Queries : Valid(p)}}

IsImageOf(image, o) ==
  \E c \in Usable : <<o.url, c>> \in published /\ image = Transform(c, o)

IsOutputOf(b, q) == IsRenderOf(b, q, published, failed)

\* A cached source is something its URL has served.
SourcesSound ==
  \A u \in Urls : sourceCache[u] # None => <<u, sourceCache[u]>> \in published

\* A cached overlay is right for EVERY overlay that will look it up: those
\* whose key is the same though their parameters are not (placement, shadow,
\* an absent radius and a radius of 0).
OverlaysSound ==
  \A o \in AcceptedOverlays :
    overlayCache[OverlayKey(o)] # None => IsImageOf(overlayCache[OverlayKey(o)], o)

\* A cached output is right for every query that will look it up, whatever
\* the interleaving of requests, evictions, cancellations and crashes that
\* stored it: its overlays in their slots, none missing that never failed.
OutputsSound ==
  \A q \in Queries :
    outputCache[CacheKey(q)] # None => Valid(q) /\ IsOutputOf(outputCache[CacheKey(q)], q)

\* The three caches of CacheManager hold nothing a later request could be
\* harmed by (cache/mod.rs, the keys of get_cache_key and process_overlay).
CachesSound == SourcesSound /\ OverlaysSound /\ OutputsSound

\* A 200 answer renders the query that was asked: a HIT stored by another
\* request, a MISS built from legs that shared caches with others.
AnswersSound ==
  \A r \in Requests :
    answer[r] # None /\ answer[r].status = "OK" =>
      Valid(query[r]) /\ IsOutputOf(answer[r].body, query[r])

\* What a request's phase says about the rest of its state.
Working == {"fetching", "rendering", "storing", "replying"}

PhasesAgree ==
  \A r \in Requests :
    /\ IF phase[r] = "idle" THEN query[r] = None ELSE query[r] \in Queries
    /\ answer[r] = None <=> phase[r] # "done"
    /\ phase[r] \in Working => Valid(query[r])
    /\ src[r].st # "off" <=> phase[r] \in Working
    /\ \A i \in Slots :
         ovl[r][i].st # "off" <=> phase[r] \in Working /\ i \in DOMAIN query[r].overlay
    /\ phase[r] \in Working \ {"fetching"} => LegsFinished(r) /\ src[r].st = "ok"
    /\ body[r] # None <=> phase[r] \in {"storing", "replying"}

OriginsPublished == \A u \in Urls : <<u, origin[u]>> \in published

SourceLegsSound ==
  \A r \in Requests :
    src[r].st \in {"store", "ok"} => <<query[r].src, src[r].val>> \in published

OverlayLegSound(leg, o) ==
  /\ leg.st \in {"store", "decode"} => <<o.url, leg.val>> \in published
  /\ leg.st \in {"keep", "decorate"} => IsImageOf(leg.val, o)
  /\ leg.st = "done" =>
       IsImageOf(leg.val.image, o) /\ leg.val = Decorate(leg.val.image, o)
  /\ leg.st = "failed" => o \in failed

OverlayLegsSound ==
  \A r \in Requests : \A i \in Slots :
    ovl[r][i].st # "off" => OverlayLegSound(ovl[r][i], query[r].overlay[i])

BodiesSound ==
  \A r \in Requests : body[r] # None => IsOutputOf(body[r], query[r])

\* The inductive invariant behind CachesSound and AnswersSound: what is in a
\* cache is sound because what a leg carries towards it is.
IInv ==
  /\ TypeOK /\ PhasesAgree /\ OriginsPublished
  /\ SourcesSound /\ OverlaysSound /\ OutputsSound
  /\ SourceLegsSound /\ OverlayLegsSound /\ BodiesSound /\ AnswersSound

\* handle_image with its caches and legs does what ImagePromise promises
\* without them: no answer is taken back, none is given twice, each 200 is a
\* render of its query.
Promise == INSTANCE ImagePromise
             WITH published <- published, failed <- failed, query <- query, answer <- answer
Promised == Promise!Spec

\* How far the handler and its legs have come.
PhaseRank(p) ==
  CASE p = "idle" -> 0 [] p = "received" -> 1 [] p = "fetching" -> 2 [] p = "rendering" -> 3
    [] p = "storing" -> 4 [] p = "replying" -> 5 [] p = "done" -> 6

LegRank(st) ==
  CASE st = "off" -> 0 [] st = "lookup" -> 1 [] st = "source" -> 2 [] st = "fetch" -> 3
    [] st = "store" -> 4 [] st = "decode" -> 5 [] st = "keep" -> 6 [] st = "decorate" -> 7
    [] st \in {"ok", "err", "done", "failed"} -> 8

Advanced(leg, next) == next = leg \/ LegRank(leg.st) < LegRank(next.st)

GoesOn(r) ==
  \/ PhaseRank(phase[r]) < PhaseRank(phase'[r])
  \/ /\ phase'[r] = phase[r] /\ answer'[r] = answer[r]
     /\ Advanced(src[r], src'[r])
     /\ \A i \in Slots : Advanced(ovl[r][i], ovl'[r][i])

\* Nothing is done twice for a request, whatever fails, whoever else is served
\* and whatever is evicted meanwhile: it never goes back, and neither do its
\* legs, but all end with it.
NothingTwice == [][\A r \in Requests : GoesOn(r)]_vars

\* join! of the source and the overlays never waits on itself: a request that
\* was received is answered, without the timeout layer.
EveryRequestAnswered ==
  \A r \in Requests : phase[r] = "received" ~> phase[r] = "done"

Answered(r) == answer[r] # None /\ answer[r].status = "OK"

\* `Cache-Control: immutable` (routes/image.rs:358, 568): as long as origins do
\* not change, two 200 answers to one query carry the same image.
ImmutableAnswers ==
  (\A u \in Urls : published \cap ({u} \X Contents) = {<<u, origin[u]>>}) =>
    \A r, s \in Requests :
      Answered(r) /\ Answered(s) /\ query[r] = query[s]
      => answer[r].body = answer[s].body
=============================================================================
