-------------------------- MODULE ImageServiceProofs --------------------------
(* Theorems of ImageService, for every instance of its constants.          *)
EXTENDS ImageService, TLAPS

-----------------------------------------------------------------------------
(* Facts about the data.                                                   *)

\* What a query of the instance is made of, and where its keys are.
LEMMA QueryFacts ==
  ASSUME NEW q \in Queries
  PROVE  /\ q.src \in Urls /\ q.look \in Looks
         /\ q.overlay \in Seq(Overlays)
         /\ CacheKey(q) \in OutputKeys
         /\ \A i \in DOMAIN q.overlay :
              /\ q.overlay[i] \in Overlays
              /\ q.overlay[i].url \in Urls
              /\ q.overlay[i] \in RequestedOverlays
              /\ OverlayKey(q.overlay[i]) \in OverlayKeys
  <1>1. q \in [src: Urls, look: Looks, spare: Spares, overlay: Seq(Overlays)]
    BY QueryAssumption
  <1>2. ASSUME NEW i \in DOMAIN q.overlay
        PROVE  /\ q.overlay[i] \in Overlays
               /\ q.overlay[i] \in RequestedOverlays
    <2>1. q.overlay[i] \in Overlays
      BY <1>1
    <2>2. QED
      BY <2>1 DEF RequestedOverlays
  <1>3. \A o \in Overlays : o.url \in Urls
    BY DEF Overlays
  <1>4. QED
    BY <1>1, <1>2, <1>3 DEF OutputKeys, OverlayKeys

\* Pixels made of a decodable content, placed, have the types of the caches.
LEMMA ImageTypes ==
  ASSUME NEW c \in Contents, NEW o \in Overlays
  PROVE  Transform(c, o) \in Images
  BY DEF Transform, OrZero, Images, Overlays

LEMMA PlacedTypes ==
  ASSUME NEW image \in Images, NEW o \in Overlays
  PROVE  Decorate(image, o) \in Placed
  BY DEF Decorate, Placed, Overlays

-----------------------------------------------------------------------------
(* Types, and what phases say about the rest of the state.                 *)

TypeInv == TypeOK /\ PhasesAgree

LEMMA TypeInit == Init => TypeInv
<1> SUFFICES ASSUME Init PROVE TypeInv
  OBVIOUS
<1> USE DEF Init
<1>1. TypeOK
  BY DEF TypeOK, NoLeg, NoLegs, SourceLegs, OverlayLegs, Phases
<1>2. PhasesAgree
  BY DEF PhasesAgree, NoLeg, NoLegs, Working
<1>3. QED
  BY <1>1, <1>2 DEF TypeInv

\* The handler returning: whatever the answer is, the types are kept.
LEMMA TypeFinish ==
  ASSUME TypeInv, NEW r \in Requests, InFlight(r),
         NEW status, NEW b, [status |-> status, body |-> b] \in Answers,
         Finish(r, status, b)
  PROVE  TypeInv'
<1>1. [status |-> status, body |-> b] \in Answers /\ [status |-> status, body |-> b] # None
  BY AnswerAssumption
<1>2. TypeOK'
  BY <1>1 DEF TypeInv, TypeOK, Finish, NoLeg, NoLegs, SourceLegs, OverlayLegs, Phases,
              caches, history
<1>3. PhasesAgree'
  BY <1>1 DEF TypeInv, TypeOK, PhasesAgree, Finish, NoLeg, NoLegs, Working, InFlight, LegsFinished,
              caches, history
<1>4. QED
  BY <1>2, <1>3 DEF TypeInv

\* An error has no picture, and a picture is no error.
LEMMA AnswerTypes ==
  /\ \A e \in Errors : [status |-> e, body |-> None] \in Answers
  /\ \A b \in Bodies : [status |-> "OK", body |-> b] \in Answers
  /\ \A a \in Answers : a.status = "OK" => a.body \in Bodies
<1>1. "OK" \notin Errors
  BY DEF Errors, FetchErrors
<1> QED
  BY <1>1 DEF Answers

\* A step of the source leg changes that leg and perhaps the source cache.
LEMMA TypeSetSrc ==
  ASSUME TypeInv, NEW r \in Requests, phase[r] = "fetching", NEW st, NEW v,
         [st |-> st, val |-> v] \in SourceLegs, st # "off",
         SetSrc(r, st, v), sourceCache' \in [Urls -> Contents \cup {None}]
  PROVE  TypeInv'
<1>1. TypeOK'
  BY DEF TypeInv, TypeOK, SetSrc, history
<1>2. PhasesAgree'
  BY DEF TypeInv, TypeOK, PhasesAgree, SetSrc, history, Working, LegsFinished
<1>3. QED
  BY <1>1, <1>2 DEF TypeInv

LEMMA TypeSource ==
  ASSUME TypeInv, NEW r \in Requests, SourceStep(r)
  PROVE  TypeInv'
<1>1. phase[r] = "fetching" /\ query[r].src \in Urls
  BY QueryFacts DEF TypeInv, TypeOK, PhasesAgree, SourceStep, SourceLookup, SourceFetch,
     SourceFetchFails, SourceStore, Working, LegsFinished
<1>2. sourceCache \in [Urls -> Contents \cup {None}] /\ origin \in [Urls -> Contents]
      /\ src[r] \in SourceLegs
  BY DEF TypeInv, TypeOK
<1>3. CASE SourceLookup(r)
  <2> DEFINE cached == sourceCache[query[r].src]
  <2>1. SetSrc(r, IF cached = None THEN "fetch" ELSE "ok", cached) /\ sourceCache' = sourceCache
    BY <1>3 DEF SourceLookup
  <2>2. [st |-> IF cached = None THEN "fetch" ELSE "ok", val |-> cached] \in SourceLegs
    BY <1>1, <1>2 DEF SourceLegs
  <2>3. QED
    BY <1>1, <1>2, <2>1, <2>2, TypeSetSrc
<1>4. CASE SourceFetch(r)
  <2>1. [st |-> "store", val |-> origin[query[r].src]] \in SourceLegs
    BY <1>1, <1>2 DEF SourceLegs
  <2>2. QED
    BY <1>1, <1>2, <1>4, <2>1, TypeSetSrc DEF SourceFetch
<1>5. CASE SourceFetchFails(r)
  <2>1. PICK e \in FetchErrors : SetSrc(r, "err", e)
    BY <1>5 DEF SourceFetchFails
  <2>2. [st |-> "err", val |-> e] \in SourceLegs
    BY DEF SourceLegs
  <2>3. QED
    BY <1>1, <1>2, <1>5, <2>1, <2>2, TypeSetSrc DEF SourceFetchFails
<1>6. CASE SourceStore(r)
  <2>1. src[r].val \in Contents /\ [st |-> "ok", val |-> src[r].val] \in SourceLegs
    BY <1>2, <1>6 DEF SourceStore, SourceLegs
  <2>2. sourceCache' \in [Urls -> Contents \cup {None}]
    BY <1>1, <1>2, <1>6, <2>1 DEF SourceStore
  <2>3. QED
    BY <1>1, <1>6, <2>1, <2>2, TypeSetSrc DEF SourceStore
<1>7. QED
  BY <1>3, <1>4, <1>5, <1>6 DEF SourceStep

\* A step of an overlay leg changes that leg and perhaps one of two caches.
LEMMA TypeSetOvl ==
  ASSUME TypeInv, NEW r \in Requests, NEW i \in Slots,
         phase[r] = "fetching", i \in DOMAIN query[r].overlay, NEW st, NEW v,
         [st |-> st, val |-> v] \in OverlayLegs, st # "off",
         SetOvl(r, i, st, v), failed' \subseteq RequestedOverlays,
         sourceCache' \in [Urls -> Contents \cup {None}],
         overlayCache' \in [OverlayKeys -> Images \cup {None}]
  PROVE  TypeInv'
<1>1. TypeOK'
  BY DEF TypeInv, TypeOK, SetOvl
<1>2. PhasesAgree'
  BY DEF TypeInv, TypeOK, PhasesAgree, SetOvl, Working, LegsFinished
<1>3. QED
  BY <1>1, <1>2 DEF TypeInv

LEMMA TypeHaveImage ==
  ASSUME TypeInv, NEW r \in Requests, NEW i \in Slots,
         phase[r] = "fetching", i \in DOMAIN query[r].overlay,
         query[r].overlay[i] \in Overlays, NEW image \in Images,
         HaveImage(r, i, image), failed' = failed, sourceCache' = sourceCache,
         overlayCache' \in [OverlayKeys -> Images \cup {None}]
  PROVE  TypeInv'
<1> DEFINE o == query[r].overlay[i]
<1>1. /\ [st |-> "done", val |-> Decorate(image, o)] \in OverlayLegs
      /\ [st |-> "decorate", val |-> image] \in OverlayLegs
  BY PlacedTypes DEF OverlayLegs
<1>2. SetOvl(r, i, "done", Decorate(image, o)) \/ SetOvl(r, i, "decorate", image)
  BY DEF HaveImage
<1>3. failed' \subseteq RequestedOverlays /\ sourceCache' \in [Urls -> Contents \cup {None}]
  BY DEF TypeInv, TypeOK
<1>4. QED
  BY <1>1, <1>2, <1>3, TypeSetOvl

LEMMA TypeOverlay ==
  ASSUME TypeInv, NEW r \in Requests, NEW i \in Slots, OverlayStep(r, i)
  PROVE  TypeInv'
<1> DEFINE o == query[r].overlay[i]
           leg == ovl[r][i]
<1>1. phase[r] = "fetching" /\ query[r] \in Queries /\ i \in DOMAIN query[r].overlay
  BY DEF TypeInv, TypeOK, PhasesAgree, OverlayStep, OverlayHit, OverlayMiss, OverlaySource,
     OverlayFetch, OverlayStore, OverlayDecode, OverlayKeep, OverlayDecorate, OverlayFails,
     Working, LegsFinished
<1>2. /\ o \in Overlays /\ o.url \in Urls
      /\ o \in RequestedOverlays /\ OverlayKey(o) \in OverlayKeys
  BY <1>1, QueryFacts
<1>3. /\ sourceCache \in [Urls -> Contents \cup {None}]
      /\ overlayCache \in [OverlayKeys -> Images \cup {None}]
      /\ origin \in [Urls -> Contents]
      /\ failed \subseteq RequestedOverlays
      /\ leg \in OverlayLegs
  BY DEF TypeInv, TypeOK
<1>4. CASE OverlayHit(r, i)
  <2>1. overlayCache[OverlayKey(o)] \in Images
    BY <1>2, <1>3, <1>4 DEF OverlayHit
  <2>2. QED
    BY <1>1, <1>2, <1>3, <1>4, <2>1, TypeHaveImage DEF OverlayHit
<1>5. CASE OverlayMiss(r, i)
  <2>1. [st |-> "source", val |-> None] \in OverlayLegs
    BY DEF OverlayLegs
  <2>2. QED
    BY <1>1, <1>3, <1>5, <2>1, TypeSetOvl DEF OverlayMiss
<1>6. CASE OverlaySource(r, i)
  <2> DEFINE cached == sourceCache[o.url]
  <2>1. [st |-> IF cached = None THEN "fetch" ELSE "decode", val |-> cached] \in OverlayLegs
    BY <1>2, <1>3 DEF OverlayLegs
  <2>2. SetOvl(r, i, IF cached = None THEN "fetch" ELSE "decode", cached)
    BY <1>6 DEF OverlaySource
  <2>3. QED
    BY <1>1, <1>3, <1>6, <2>1, <2>2, TypeSetOvl DEF OverlaySource
<1>7. CASE OverlayFetch(r, i)
  <2>1. [st |-> "store", val |-> origin[o.url]] \in OverlayLegs
    BY <1>2, <1>3 DEF OverlayLegs
  <2>2. QED
    BY <1>1, <1>3, <1>7, <2>1, TypeSetOvl DEF OverlayFetch
<1>8. CASE OverlayStore(r, i)
  <2>1. leg.val \in Contents /\ [st |-> "decode", val |-> leg.val] \in OverlayLegs
    BY <1>3, <1>8 DEF OverlayStore, OverlayLegs
  <2>2. sourceCache' \in [Urls -> Contents \cup {None}]
    BY <1>2, <1>3, <1>8, <2>1 DEF OverlayStore
  <2>3. QED
    BY <1>1, <1>3, <1>8, <2>1, <2>2, TypeSetOvl DEF OverlayStore
<1>9. CASE OverlayDecode(r, i)
  <2>1. leg.val \in Contents
    BY <1>9, ContentAssumption DEF OverlayDecode, Usable
  <2>2. [st |-> "keep", val |-> Transform(leg.val, o)] \in OverlayLegs
    BY <1>2, <2>1, ImageTypes DEF OverlayLegs
  <2>3. QED
    BY <1>1, <1>3, <1>9, <2>2, TypeSetOvl DEF OverlayDecode
<1>10. CASE OverlayKeep(r, i)
  <2>1. leg.val \in Images
    BY <1>3, <1>10 DEF OverlayKeep, OverlayLegs
  <2>2. overlayCache' \in [OverlayKeys -> Images \cup {None}]
    BY <1>2, <1>3, <1>10, <2>1 DEF OverlayKeep
  <2>3. QED
    BY <1>1, <1>2, <1>10, <2>1, <2>2, TypeHaveImage DEF OverlayKeep
<1>11. CASE OverlayDecorate(r, i)
  <2>1. leg.val \in Images
    BY <1>3, <1>11 DEF OverlayDecorate, OverlayLegs
  <2>2. [st |-> "done", val |-> Decorate(leg.val, o)] \in OverlayLegs
    BY <1>2, <2>1, PlacedTypes DEF OverlayLegs
  <2>3. QED
    BY <1>1, <1>3, <1>11, <2>2, TypeSetOvl DEF OverlayDecorate
<1>12. CASE OverlayFails(r, i)
  <2>1. [st |-> "failed", val |-> None] \in OverlayLegs
    BY DEF OverlayLegs
  <2>2. failed' \subseteq RequestedOverlays
    BY <1>2, <1>3, <1>12 DEF OverlayFails
  <2>3. QED
    BY <1>1, <1>3, <1>12, <2>1, <2>2, TypeSetOvl DEF OverlayFails
<1>13. QED
  BY <1>4, <1>5, <1>6, <1>7, <1>8, <1>9, <1>10, <1>11, <1>12 DEF OverlayStep

LEMMA TypeHandler ==
  ASSUME TypeInv, NEW r \in Requests, Handler(r)
  PROVE  TypeInv'
<1> USE DEF InFlight
<1>1. CASE Reject(r)
  BY <1>1, TypeFinish, AnswerTypes DEF Reject, Errors, FetchErrors
<1>2. CASE Hit(r)
  <2>1. query[r] \in Queries /\ outputCache \in [OutputKeys -> Bodies \cup {None}]
    BY <1>2 DEF Hit, TypeInv, TypeOK, PhasesAgree
  <2>2. outputCache[CacheKey(query[r])] \in Bodies
    BY <1>2, <2>1, QueryFacts DEF Hit
  <2>3. QED
    BY <1>2, <2>2, TypeFinish, AnswerTypes DEF Hit
<1>3. CASE Start(r)
  <2> USE DEF TypeInv, TypeOK, PhasesAgree, Start, NoLeg, SourceLegs, OverlayLegs, Phases,
              Working, LegsFinished, caches, history
  <2>1. TypeOK'
    BY <1>3
  <2>2. PhasesAgree'
    BY <1>3
  <2>3. QED
    BY <2>1, <2>2
<1>4. CASE SourceStep(r)
  BY <1>4, TypeSource
<1>5. CASE \E i \in Slots : OverlayStep(r, i)
  BY <1>5, TypeOverlay
<1>6. CASE JoinFails(r)
  <2>1. src[r].val \in FetchErrors
    BY <1>6 DEF JoinFails, TypeInv, TypeOK, SourceLegs
  <2>2. QED
    BY <1>6, <2>1, TypeFinish, AnswerTypes DEF JoinFails, Errors
<1>7. CASE Join(r)
  <2> USE DEF TypeInv, TypeOK, PhasesAgree, Join, Phases, Working, LegsFinished, caches,
              history, legs
  <2>1. TypeOK'
    BY <1>7
  <2>2. PhasesAgree'
    BY <1>7
  <2>3. QED
    BY <2>1, <2>2
<1>8. CASE Render(r)
  <2>1. query[r].look \in Looks /\ src[r].val \in Contents
    BY <1>8, QueryFacts, ContentAssumption DEF Render, TypeInv, TypeOK, PhasesAgree, Usable
  <2>2. ASSUME NEW i \in Slots
        PROVE  (IF ovl[r][i].st = "done" THEN ovl[r][i].val ELSE None) \in Placed \cup {None}
    BY DEF TypeInv, TypeOK, OverlayLegs
  <2>3. body'[r] \in Bodies /\ body' \in [Requests -> Bodies \cup {None}]
    BY <1>8, <2>1, <2>2 DEF Render, Bodies, TypeInv, TypeOK
  <2>4. body'[r] # None
    BY <2>3, BodyAssumption
  <2>5. TypeOK'
    BY <1>8, <2>3 DEF Render, TypeInv, TypeOK, Phases, caches, history, legs
  <2>6. PhasesAgree'
    BY <1>8, <2>4 DEF Render, TypeInv, TypeOK, PhasesAgree, Working, LegsFinished,
                      caches, history, legs
  <2>7. QED
    BY <2>5, <2>6 DEF TypeInv
<1>9. CASE RenderFails(r)
  BY <1>9, TypeFinish, AnswerTypes DEF RenderFails, Errors, FetchErrors
<1>10. CASE RenderDies(r)
  BY <1>10, TypeFinish, AnswerTypes DEF RenderDies, Errors
<1>11. CASE StoreOutput(r)
  <2>1. query[r] \in Queries /\ body[r] \in Bodies \cup {None}
    BY <1>11 DEF StoreOutput, TypeInv, TypeOK, PhasesAgree
  <2>2. outputCache' \in [OutputKeys -> Bodies \cup {None}]
    BY <1>11, <2>1, QueryFacts DEF StoreOutput, TypeInv, TypeOK
  <2>3. TypeOK'
    BY <1>11, <2>2 DEF StoreOutput, TypeInv, TypeOK, Phases, history, legs
  <2>4. PhasesAgree'
    BY <1>11 DEF StoreOutput, TypeInv, TypeOK, PhasesAgree, Working, LegsFinished, history, legs
  <2>5. QED
    BY <2>3, <2>4 DEF TypeInv
<1>12. CASE Reply(r)
  <2>1. body[r] \in Bodies
    BY <1>12 DEF Reply, TypeInv, TypeOK, PhasesAgree
  <2>2. QED
    BY <1>12, <2>1, TypeFinish, AnswerTypes DEF Reply
<1>13. QED
  BY <1>1, <1>2, <1>3, <1>4, <1>5, <1>6, <1>7, <1>8, <1>9, <1>10, <1>11, <1>12 DEF Handler

LEMMA TypeStep ==
  ASSUME TypeInv, [Next]_vars
  PROVE  TypeInv'
<1>1. ASSUME NEW u \in Urls, NEW c \in Contents, Publish(u, c)
      PROVE  TypeInv'
  BY <1>1 DEF Publish, TypeInv, TypeOK, PhasesAgree, LegsFinished, caches, legs
<1>2. ASSUME NEW r \in Requests, NEW q \in Queries, Arrive(r, q)
      PROVE  TypeInv'
  <2>1. TypeOK'
    BY <1>2 DEF Arrive, TypeInv, TypeOK, Phases, caches, history, legs
  <2>2. PhasesAgree'
    BY <1>2 DEF Arrive, TypeInv, TypeOK, PhasesAgree, Working, LegsFinished, caches, history, legs
  <2>3. QED
    BY <2>1, <2>2 DEF TypeInv
<1>3. ASSUME NEW r \in Requests, NEW e \in Errors, Cancel(r, e)
      PROVE  TypeInv'
  BY <1>3, TypeFinish, AnswerTypes DEF Cancel, Errors
<1>4. CASE Eviction
  <2>1. /\ UNCHANGED <<origin, history, phase, query, legs, body, answer>>
        /\ outputCache' \in [OutputKeys -> Bodies \cup {None}]
        /\ sourceCache' \in [Urls -> Contents \cup {None}]
        /\ overlayCache' \in [OverlayKeys -> Images \cup {None}]
    BY <1>4 DEF Eviction, EvictOutput, EvictSource, EvictOverlay, TypeInv, TypeOK
  <2>2. TypeOK'
    BY <2>1 DEF TypeInv, TypeOK, history, legs
  <2>3. PhasesAgree'
    BY <2>1 DEF TypeInv, PhasesAgree, LegsFinished, legs
  <2>4. QED
    BY <2>2, <2>3 DEF TypeInv
<1>5. CASE Crash
  <2>1. [status |-> "Gone", body |-> None] \in Answers
    BY AnswerTypes DEF Errors
  <2>2. TypeOK'
    BY <1>5, <2>1 DEF Crash, TypeInv, TypeOK, Phases, NoLeg, NoLegs, SourceLegs, OverlayLegs, history
  <2>3. PhasesAgree'
    BY <1>5, <2>1, AnswerAssumption DEF Crash, TypeInv, TypeOK, PhasesAgree, InFlight, Working,
       NoLeg, NoLegs, LegsFinished, history
  <2>4. QED
    BY <2>2, <2>3 DEF TypeInv
<1>6. CASE UNCHANGED vars
  BY <1>6 DEF vars, TypeInv, TypeOK, PhasesAgree, LegsFinished, caches, history, legs
<1>7. QED
  BY <1>1, <1>2, <1>3, <1>4, <1>5, <1>6, TypeHandler DEF Next

\* Every variable keeps its type, legs and bodies hold what their state says,
\* and a request's answer, legs and body agree with how far it has come.
THEOREM TypeCorrect == Spec => []TypeOK
<1>1. TypeInv => TypeOK
  BY DEF TypeInv
<1>2. QED
  BY <1>1, TypeInit, TypeStep, PTL DEF Spec

-----------------------------------------------------------------------------
(* What a step can do to each variable.  Every lemma names the only actions *)
(* that put something new there; all others keep, drop or reset it.        *)

LEMMA HistoryEffect ==
  ASSUME [Next]_vars
  PROVE  published \subseteq published' /\ failed \subseteq failed'
<1> USE DEF history, caches, legs, vars, Finish
<1>1. ASSUME NEW r \in Requests, Handler(r)
      PROVE  published \subseteq published' /\ failed \subseteq failed'
  <2>1. CASE SourceStep(r)
    BY <2>1 DEF SourceStep, SourceLookup, SourceFetch, SourceFetchFails, SourceStore, SetSrc
  <2>2. CASE \E i \in Slots : OverlayStep(r, i)
    BY <2>2 DEF OverlayStep, OverlayHit, OverlayMiss, OverlaySource, OverlayFetch, OverlayStore,
       OverlayDecode, OverlayKeep, OverlayDecorate, OverlayFails, HaveImage, SetOvl
  <2>3. QED
    BY <1>1, <2>1, <2>2 DEF Handler, Reject, Hit, Start, JoinFails, Join, Render, RenderFails,
       RenderDies, StoreOutput, Reply
<1>2. QED
  BY <1>1 DEF Next, Publish, Arrive, Cancel, Eviction, EvictOutput, EvictSource, EvictOverlay, Crash

LEMMA QueryEffect ==
  ASSUME TypeInv, [Next]_vars, NEW r \in Requests
  PROVE  phase[r] # "idle" => query'[r] = query[r]
<1> USE DEF history, caches, legs, vars, Finish
<1>1. ASSUME NEW s \in Requests, Handler(s)
      PROVE  query' = query
  <2>1. CASE SourceStep(s)
    BY <2>1 DEF SourceStep, SourceLookup, SourceFetch, SourceFetchFails, SourceStore, SetSrc
  <2>2. CASE \E i \in Slots : OverlayStep(s, i)
    BY <2>2 DEF OverlayStep, OverlayHit, OverlayMiss, OverlaySource, OverlayFetch, OverlayStore,
       OverlayDecode, OverlayKeep, OverlayDecorate, OverlayFails, HaveImage, SetOvl
  <2>3. QED
    BY <1>1, <2>1, <2>2 DEF Handler, Reject, Hit, Start, JoinFails, Join, Render, RenderFails,
       RenderDies, StoreOutput, Reply
<1>2. ASSUME NEW s \in Requests, NEW q \in Queries, Arrive(s, q), phase[r] # "idle"
      PROVE  query'[r] = query[r]
  BY <1>2 DEF Arrive, TypeInv, TypeOK
<1>3. QED
  BY <1>1, <1>2 DEF Next, Publish, Cancel, Eviction, EvictOutput, EvictSource, EvictOverlay, Crash

LEMMA SourceCacheEffect ==
  ASSUME TypeInv, [Next]_vars
  PROVE  \/ \A u \in Urls : sourceCache'[u] = sourceCache[u] \/ sourceCache'[u] = None
         \/ \E r \in Requests : SourceStore(r)
         \/ \E r \in Requests, i \in Slots : OverlayStore(r, i)
<1> USE DEF history, caches, legs, vars, Finish
<1>1. ASSUME NEW r \in Requests, Handler(r)
      PROVE  \/ sourceCache' = sourceCache
             \/ SourceStore(r)
             \/ \E i \in Slots : OverlayStore(r, i)
  <2>1. CASE SourceStep(r)
    BY <2>1 DEF SourceStep, SourceLookup, SourceFetch, SourceFetchFails
  <2>2. CASE \E i \in Slots : OverlayStep(r, i)
    BY <2>2 DEF OverlayStep, OverlayHit, OverlayMiss, OverlaySource, OverlayFetch,
       OverlayDecode, OverlayKeep, OverlayDecorate, OverlayFails
  <2>3. QED
    BY <1>1, <2>1, <2>2 DEF Handler, Reject, Hit, Start, JoinFails, Join, Render, RenderFails,
       RenderDies, StoreOutput, Reply
<1>2. ASSUME NEW v \in Urls, EvictSource(v)
      PROVE  \A u \in Urls : sourceCache'[u] = sourceCache[u] \/ sourceCache'[u] = None
  BY <1>2 DEF EvictSource, TypeInv, TypeOK
<1>3. QED
  BY <1>1, <1>2 DEF Next, Publish, Arrive, Cancel, Eviction, EvictOutput, EvictOverlay, Crash

LEMMA OverlayCacheEffect ==
  ASSUME TypeInv, [Next]_vars
  PROVE  \/ \A k \in OverlayKeys : overlayCache'[k] = overlayCache[k] \/ overlayCache'[k] = None
         \/ \E r \in Requests, i \in Slots : OverlayKeep(r, i)
<1> USE DEF history, caches, legs, vars, Finish
<1>1. ASSUME NEW r \in Requests, Handler(r)
      PROVE  overlayCache' = overlayCache \/ \E i \in Slots : OverlayKeep(r, i)
  <2>1. CASE SourceStep(r)
    BY <2>1 DEF SourceStep, SourceLookup, SourceFetch, SourceFetchFails, SourceStore, SetSrc
  <2>2. CASE \E i \in Slots : OverlayStep(r, i)
    BY <2>2 DEF OverlayStep, OverlayHit, OverlayMiss, OverlaySource, OverlayFetch, OverlayStore,
       OverlayDecode, OverlayDecorate, OverlayFails
  <2>3. QED
    BY <1>1, <2>1, <2>2 DEF Handler, Reject, Hit, Start, JoinFails, Join, Render, RenderFails,
       RenderDies, StoreOutput, Reply
<1>2. ASSUME NEW v \in OverlayKeys, EvictOverlay(v)
      PROVE  \A k \in OverlayKeys : overlayCache'[k] = overlayCache[k] \/ overlayCache'[k] = None
  BY <1>2 DEF EvictOverlay, TypeInv, TypeOK
<1>3. QED
  BY <1>1, <1>2 DEF Next, Publish, Arrive, Cancel, Eviction, EvictOutput, EvictSource, Crash

LEMMA OutputCacheEffect ==
  ASSUME TypeInv, [Next]_vars
  PROVE  \/ \A k \in OutputKeys : outputCache'[k] = outputCache[k] \/ outputCache'[k] = None
         \/ \E r \in Requests : StoreOutput(r)
<1> USE DEF history, caches, legs, vars, Finish
<1>1. ASSUME NEW r \in Requests, Handler(r)
      PROVE  outputCache' = outputCache \/ StoreOutput(r)
  <2>1. CASE SourceStep(r)
    BY <2>1 DEF SourceStep, SourceLookup, SourceFetch, SourceFetchFails, SourceStore, SetSrc
  <2>2. CASE \E i \in Slots : OverlayStep(r, i)
    BY <2>2 DEF OverlayStep, OverlayHit, OverlayMiss, OverlaySource, OverlayFetch, OverlayStore,
       OverlayDecode, OverlayKeep, OverlayDecorate, OverlayFails, HaveImage, SetOvl
  <2>3. QED
    BY <1>1, <2>1, <2>2 DEF Handler, Reject, Hit, Start, JoinFails, Join, Render, RenderFails,
       RenderDies, Reply
<1>2. ASSUME NEW v \in OutputKeys, EvictOutput(v)
      PROVE  \A k \in OutputKeys : outputCache'[k] = outputCache[k] \/ outputCache'[k] = None
  BY <1>2 DEF EvictOutput, TypeInv, TypeOK
<1>3. QED
  BY <1>1, <1>2 DEF Next, Publish, Arrive, Cancel, Eviction, EvictSource, EvictOverlay, Crash

LEMMA SourceLegEffect ==
  ASSUME TypeInv, [Next]_vars, NEW r \in Requests
  PROVE  \/ src'[r] = src[r]
         \/ src'[r].st \notin {"store", "ok"}
         \/ SourceStep(r)
<1> USE DEF history, caches, legs, vars, NoLeg, TypeInv, TypeOK
<1>1. ASSUME NEW s \in Requests, Handler(s)
      PROVE  src'[r] = src[r] \/ src'[r].st \notin {"store", "ok"} \/ SourceStep(r)
  <2>1. CASE SourceStep(s)
    BY <2>1 DEF SourceStep, SourceLookup, SourceFetch, SourceFetchFails, SourceStore, SetSrc
  <2>2. CASE \E i \in Slots : OverlayStep(s, i)
    BY <2>2 DEF OverlayStep, OverlayHit, OverlayMiss, OverlaySource, OverlayFetch, OverlayStore,
       OverlayDecode, OverlayKeep, OverlayDecorate, OverlayFails, HaveImage, SetOvl
  <2>3. CASE Start(s)
    BY <2>3 DEF Start
  <2>4. QED
    BY <1>1, <2>1, <2>2, <2>3 DEF Handler, Reject, Hit, JoinFails, Join, Render, RenderFails,
       RenderDies, StoreOutput, Reply, Finish
<1>2. QED
  BY <1>1 DEF Next, Publish, Arrive, Cancel, Eviction, EvictOutput, EvictSource, EvictOverlay,
              Crash, Finish

LEMMA OverlayLegEffect ==
  ASSUME TypeInv, [Next]_vars, NEW r \in Requests, NEW i \in Slots
  PROVE  \/ ovl'[r][i] = ovl[r][i]
         \/ ovl'[r][i].st \in {"off", "lookup"}
         \/ OverlayStep(r, i)
<1> USE DEF history, caches, legs, vars, NoLeg, NoLegs, TypeInv, TypeOK
<1>1. ASSUME NEW s \in Requests, Handler(s)
      PROVE  ovl'[r][i] = ovl[r][i] \/ ovl'[r][i].st \in {"off", "lookup"} \/ OverlayStep(r, i)
  <2>1. CASE SourceStep(s)
    BY <2>1 DEF SourceStep, SourceLookup, SourceFetch, SourceFetchFails, SourceStore, SetSrc
  <2>2. ASSUME NEW j \in Slots, OverlayStep(s, j)
        PROVE  ovl'[r][i] = ovl[r][i] \/ (r = s /\ i = j)
    BY <2>2 DEF OverlayStep, OverlayHit, OverlayMiss, OverlaySource, OverlayFetch, OverlayStore,
       OverlayDecode, OverlayKeep, OverlayDecorate, OverlayFails, HaveImage, SetOvl
  <2>3. CASE Start(s)
    BY <2>3 DEF Start
  <2>4. QED
    BY <1>1, <2>1, <2>2, <2>3 DEF Handler, Reject, Hit, JoinFails, Join, Render, RenderFails,
       RenderDies, StoreOutput, Reply, Finish
<1>2. ASSUME NEW s \in Requests, NEW e \in Errors, Cancel(s, e)
      PROVE  ovl'[r][i] = ovl[r][i] \/ ovl'[r][i].st = "off"
  BY <1>2 DEF Cancel, Finish
<1>3. CASE Crash
  BY <1>3 DEF Crash
<1>4. QED
  BY <1>1, <1>2, <1>3 DEF Next, Publish, Arrive, Eviction, EvictOutput, EvictSource, EvictOverlay

LEMMA BodyEffect ==
  ASSUME TypeInv, [Next]_vars, NEW r \in Requests
  PROVE  body'[r] = body[r] \/ body'[r] = None \/ Render(r)
<1> USE DEF history, caches, legs, vars, TypeInv, TypeOK
<1>1. ASSUME NEW s \in Requests, Handler(s)
      PROVE  body'[r] = body[r] \/ body'[r] = None \/ Render(r)
  <2>1. CASE SourceStep(s)
    BY <2>1 DEF SourceStep, SourceLookup, SourceFetch, SourceFetchFails, SourceStore, SetSrc
  <2>2. CASE \E i \in Slots : OverlayStep(s, i)
    BY <2>2 DEF OverlayStep, OverlayHit, OverlayMiss, OverlaySource, OverlayFetch, OverlayStore,
       OverlayDecode, OverlayKeep, OverlayDecorate, OverlayFails, HaveImage, SetOvl
  <2>3. CASE Render(s)
    BY <2>3 DEF Render
  <2>4. QED
    BY <1>1, <2>1, <2>2, <2>3 DEF Handler, Reject, Hit, Start, JoinFails, Join, RenderFails,
       RenderDies, StoreOutput, Reply, Finish
<1>2. QED
  BY <1>1 DEF Next, Publish, Arrive, Cancel, Eviction, EvictOutput, EvictSource, EvictOverlay,
              Crash, Finish

LEMMA AnswerEffect ==
  ASSUME TypeInv, [Next]_vars, NEW r \in Requests
  PROVE  answer'[r] = answer[r] \/ answer'[r].status # "OK" \/ Hit(r) \/ Reply(r)
<1> USE DEF history, caches, legs, vars, TypeInv, TypeOK
<1>1. ASSUME NEW s \in Requests, Handler(s)
      PROVE  answer'[r] = answer[r] \/ answer'[r].status # "OK" \/ Hit(r) \/ Reply(r)
  <2>1. CASE SourceStep(s)
    BY <2>1 DEF SourceStep, SourceLookup, SourceFetch, SourceFetchFails, SourceStore, SetSrc
  <2>2. CASE \E i \in Slots : OverlayStep(s, i)
    BY <2>2 DEF OverlayStep, OverlayHit, OverlayMiss, OverlaySource, OverlayFetch, OverlayStore,
       OverlayDecode, OverlayKeep, OverlayDecorate, OverlayFails, HaveImage, SetOvl
  <2>3. CASE Hit(s) \/ Reply(s)
    BY <2>3 DEF Hit, Reply, Finish
  <2>4. CASE JoinFails(s)
    BY <2>4 DEF JoinFails, Finish, SourceLegs, FetchErrors
  <2>5. QED
    BY <1>1, <2>1, <2>2, <2>3, <2>4 DEF Handler, Reject, Start, Join, Render, RenderFails,
       RenderDies, StoreOutput, Finish
<1>2. QED
  BY <1>1 DEF Next, Publish, Arrive, Cancel, Eviction, EvictOutput, EvictSource, EvictOverlay,
              Crash, Finish

-----------------------------------------------------------------------------
(* Keys: two requests that meet at a cache entry may both use it.          *)

LEMMA CacheKeyFaithful ==
  ASSUME NEW p \in Queries, NEW q \in Queries, CacheKey(p) = CacheKey(q)
  PROVE  p.src = q.src /\ p.look = q.look /\ p.overlay = q.overlay
  BY HashAssumption DEF CacheKey, HashedFields

\* Two overlays of one key are the same picture: validate() refuses a width or
\* a height of 0, the number an absent one has in the key.
LEMMA OverlayKeyFaithful ==
  ASSUME NEW o \in AcceptedOverlays, NEW p \in AcceptedOverlays,
         OverlayKey(o) = OverlayKey(p), NEW c
  PROVE  o.url = p.url /\ Transform(c, o) = Transform(c, p)
<1>1. /\ InRange(o.maxw) /\ InRange(o.maxh) /\ InRange(p.maxw) /\ InRange(p.maxh)
  BY DEF AcceptedOverlays, Valid
<1>2. /\ o.url = p.url /\ OrZero(o.maxw) = OrZero(p.maxw)
      /\ OrZero(o.maxh) = OrZero(p.maxh) /\ OrZero(o.rad) = OrZero(p.rad)
  BY DEF OverlayKey
<1>3. o.maxw = p.maxw /\ o.maxh = p.maxh
  BY <1>1, <1>2, MinDimensionAssumption DEF OrZero, InRange
<1>4. QED
  BY <1>2, <1>3 DEF Transform

LEMMA RenderMonotone ==
  ASSUME NEW b, NEW q, NEW P, NEW P2, NEW F, NEW F2, P \subseteq P2, F \subseteq F2,
         IsRenderOf(b, q, P, F)
  PROVE  IsRenderOf(b, q, P2, F2)
  BY DEF IsRenderOf, IsSlotOf

\* What a slot may hold depends on the overlays asked for and nothing else.
LEMMA SameQuerySameRender ==
  ASSUME NEW b, NEW p, NEW q, NEW P, NEW F,
         p.src = q.src, p.look = q.look, p.overlay = q.overlay,
         IsRenderOf(b, p, P, F)
  PROVE  IsRenderOf(b, q, P, F)
  BY DEF IsRenderOf, IsSlotOf

LEMMA SameQuerySameVerdict ==
  ASSUME NEW p, NEW q, p.look = q.look, p.overlay = q.overlay
  PROVE  Valid(p) <=> Valid(q)
  BY DEF Valid

-----------------------------------------------------------------------------
(* The inductive step, one part of IInv at a time.                         *)

LEMMA OriginsStep ==
  ASSUME IInv, [Next]_vars
  PROVE  OriginsPublished'
<1> USE DEF IInv, OriginsPublished, TypeOK
<1>1. ASSUME NEW u \in Urls, NEW c \in Contents, Publish(u, c)
      PROVE  OriginsPublished'
  BY <1>1 DEF Publish
<1>2. CASE origin' = origin
  BY <1>2, HistoryEffect
<1>3. \/ origin' = origin
      \/ \E u \in Urls, c \in Contents : Publish(u, c)
  <2>1. ASSUME NEW r \in Requests, Handler(r)
        PROVE  origin' = origin
    <3>1. CASE SourceStep(r)
      BY <3>1 DEF SourceStep, SourceLookup, SourceFetch, SourceFetchFails, SourceStore, SetSrc
    <3>2. CASE \E i \in Slots : OverlayStep(r, i)
      BY <3>2 DEF OverlayStep, OverlayHit, OverlayMiss, OverlaySource, OverlayFetch, OverlayStore,
         OverlayDecode, OverlayKeep, OverlayDecorate, OverlayFails, HaveImage, SetOvl
    <3>3. QED
      BY <2>1, <3>1, <3>2 DEF Handler, Reject, Hit, Start, JoinFails, Join, Render, RenderFails,
         RenderDies, StoreOutput, Reply, Finish
  <2>2. QED
    BY <2>1 DEF Next, Arrive, Cancel, Eviction, EvictOutput, EvictSource, EvictOverlay, Crash,
                Finish, vars
<1>4. QED
  BY <1>1, <1>2, <1>3

\* The overlay a leg works on.
LEMMA LegFacts ==
  ASSUME IInv, NEW r \in Requests, NEW i \in Slots, ovl[r][i].st # "off"
  PROVE  /\ query[r] \in Queries /\ query[r].overlay[i] \in AcceptedOverlays
         /\ query[r].overlay[i].url \in Urls
         /\ OverlayKey(query[r].overlay[i]) \in OverlayKeys
         /\ phase[r] # "idle"
         /\ OverlayLegSound(ovl[r][i], query[r].overlay[i])
<1>1. query[r] \in Queries /\ Valid(query[r]) /\ i \in DOMAIN query[r].overlay /\ phase[r] # "idle"
  BY DEF IInv, PhasesAgree, Working
<1>2. query[r].overlay[i] \in AcceptedOverlays
  BY <1>1 DEF AcceptedOverlays
<1>3. QED
  BY <1>1, <1>2, QueryFacts DEF IInv, OverlayLegsSound

LEMMA SourcesStep ==
  ASSUME IInv, [Next]_vars
  PROVE  SourcesSound'
<1>0. TypeInv /\ published \subseteq published'
  BY HistoryEffect DEF IInv, TypeInv
<1>1. CASE \A u \in Urls : sourceCache'[u] = sourceCache[u] \/ sourceCache'[u] = None
  BY <1>0, <1>1 DEF IInv, SourcesSound
<1>2. ASSUME NEW r \in Requests, SourceStore(r)
      PROVE  SourcesSound'
  <2>1. <<query[r].src, src[r].val>> \in published
    BY <1>2 DEF SourceStore, IInv, SourceLegsSound
  <2>2. \A u \in Urls : sourceCache'[u] = IF u = query[r].src THEN src[r].val ELSE sourceCache[u]
    BY <1>2 DEF SourceStore, IInv, TypeOK
  <2>3. QED
    BY <1>0, <2>1, <2>2 DEF IInv, SourcesSound
<1>3. ASSUME NEW r \in Requests, NEW i \in Slots, OverlayStore(r, i)
      PROVE  SourcesSound'
  <2>1. <<query[r].overlay[i].url, ovl[r][i].val>> \in published
    BY <1>3, LegFacts DEF OverlayStore, OverlayLegSound
  <2>2. \A u \in Urls : sourceCache'[u] =
          IF u = query[r].overlay[i].url THEN ovl[r][i].val ELSE sourceCache[u]
    BY <1>3 DEF OverlayStore, IInv, TypeOK
  <2>3. QED
    BY <1>0, <2>1, <2>2 DEF IInv, SourcesSound
<1>4. QED
  BY <1>0, <1>1, <1>2, <1>3, SourceCacheEffect

\* A key names one picture (OverlayKeyFaithful), so storing what one overlay
\* was made into is right for all that share the key.
LEMMA OverlaysStep ==
  ASSUME IInv, [Next]_vars
  PROVE  OverlaysSound'
<1>0. TypeInv /\ published \subseteq published'
  BY HistoryEffect DEF IInv, TypeInv
<1>1. \A o \in AcceptedOverlays : OverlayKey(o) \in OverlayKeys
  BY DEF AcceptedOverlays, OverlayKeys, RequestedOverlays
<1>2. CASE \A k \in OverlayKeys : overlayCache'[k] = overlayCache[k] \/ overlayCache'[k] = None
  BY <1>0, <1>1, <1>2 DEF IInv, OverlaysSound, IsImageOf
<1>3. ASSUME NEW r \in Requests, NEW i \in Slots, OverlayKeep(r, i)
      PROVE  OverlaysSound'
  <2> DEFINE o == query[r].overlay[i]
             image == ovl[r][i].val
  <2>1. o \in AcceptedOverlays /\ IsImageOf(image, o)
    BY <1>3, LegFacts DEF OverlayKeep, OverlayLegSound
  <2>2. \A k \in OverlayKeys :
          overlayCache'[k] = IF k = OverlayKey(o) THEN image ELSE overlayCache[k]
    BY <1>3 DEF OverlayKeep, IInv, TypeOK
  <2>3. PICK c \in Usable : <<o.url, c>> \in published /\ image = Transform(c, o)
    BY <2>1 DEF IsImageOf
  <2>4. ASSUME NEW p \in AcceptedOverlays, OverlayKey(p) = OverlayKey(o)
        PROVE  <<p.url, c>> \in published' /\ image = Transform(c, p)
    BY <1>0, <2>1, <2>3, <2>4, OverlayKeyFaithful
  <2>5. QED
    BY <1>0, <1>1, <2>2, <2>4 DEF IInv, OverlaysSound, IsImageOf
<1>4. QED
  BY <1>0, <1>2, <1>3, OverlayCacheEffect

LEMMA OutputsStep ==
  ASSUME IInv, [Next]_vars
  PROVE  OutputsSound'
<1>0. TypeInv /\ published \subseteq published' /\ failed \subseteq failed'
  BY HistoryEffect DEF IInv, TypeInv
<1> SUFFICES ASSUME NEW q \in Queries, outputCache'[CacheKey(q)] # None
             PROVE  Valid(q) /\ IsRenderOf(outputCache'[CacheKey(q)], q, published', failed')
  BY DEF OutputsSound, IsOutputOf
<1>1. CASE outputCache'[CacheKey(q)] = outputCache[CacheKey(q)]
  BY <1>0, <1>1, RenderMonotone DEF IInv, OutputsSound, IsOutputOf
<1>2. ASSUME NEW r \in Requests, StoreOutput(r), CacheKey(q) = CacheKey(query[r])
      PROVE  Valid(q) /\ IsRenderOf(outputCache'[CacheKey(q)], q, published', failed')
  <2>1. query[r] \in Queries /\ Valid(query[r]) /\ IsOutputOf(body[r], query[r])
    BY <1>2 DEF StoreOutput, IInv, PhasesAgree, Working, BodiesSound
  <2>2. outputCache'[CacheKey(q)] = body[r]
    BY <1>2, <2>1, QueryFacts DEF StoreOutput, IInv, TypeOK
  <2>3. /\ query[r].src = q.src /\ query[r].look = q.look /\ query[r].overlay = q.overlay
    BY <1>2, <2>1, CacheKeyFaithful
  <2>4. Valid(q) /\ IsRenderOf(body[r], q, published, failed)
    BY <2>1, <2>3, SameQuerySameRender, SameQuerySameVerdict DEF IsOutputOf
  <2>5. QED
    BY <1>0, <2>2, <2>4, RenderMonotone
<1>3. ASSUME NEW r \in Requests, StoreOutput(r), CacheKey(q) # CacheKey(query[r])
      PROVE  outputCache'[CacheKey(q)] = outputCache[CacheKey(q)]
  BY <1>3, QueryFacts DEF StoreOutput, IInv, TypeOK
<1>4. QED
  BY <1>0, <1>1, <1>2, <1>3, QueryFacts, OutputCacheEffect

LEMMA SourceLegsStep ==
  ASSUME IInv, [Next]_vars
  PROVE  SourceLegsSound'
<1> SUFFICES ASSUME NEW r \in Requests, src'[r].st \in {"store", "ok"}
             PROVE  <<query'[r].src, src'[r].val>> \in published'
  BY DEF SourceLegsSound
<1>0. TypeInv /\ published \subseteq published'
  BY HistoryEffect DEF IInv, TypeInv
<1>1. CASE src'[r] = src[r]
  <2>1. phase[r] # "idle"
    BY <1>1 DEF IInv, PhasesAgree, Working
  <2>2. QED
    BY <1>0, <1>1, <2>1, QueryEffect DEF IInv, SourceLegsSound
<1>2. CASE SourceStep(r)
  <2>1. query[r] \in Queries /\ query[r].src \in Urls /\ query' = query /\ published' = published
    BY <1>2, QueryFacts DEF SourceStep, SourceLookup, SourceFetch, SourceFetchFails, SourceStore,
       SetSrc, IInv, PhasesAgree, Working, history
  <2>2. CASE SourceLookup(r)
    BY <2>1, <2>2 DEF SourceLookup, SetSrc, IInv, TypeOK, SourcesSound
  <2>3. CASE SourceFetch(r)
    BY <2>1, <2>3 DEF SourceFetch, SetSrc, IInv, TypeOK, OriginsPublished
  <2>4. CASE SourceFetchFails(r)
    BY <2>4 DEF SourceFetchFails, SetSrc, IInv, TypeOK
  <2>5. CASE SourceStore(r)
    BY <2>1, <2>5 DEF SourceStore, SetSrc, IInv, TypeOK, SourceLegsSound
  <2>6. QED
    BY <1>2, <2>2, <2>3, <2>4, <2>5 DEF SourceStep
<1>3. QED
  BY <1>0, <1>1, <1>2, SourceLegEffect

\* What is true of a leg stays true as origins publish and overlays fail.
LEMMA LegMonotone ==
  ASSUME NEW leg, NEW o, published \subseteq published', failed \subseteq failed',
         OverlayLegSound(leg, o)
  PROVE  /\ leg.st \in {"store", "decode"} => <<o.url, leg.val>> \in published'
         /\ leg.st \in {"keep", "decorate"} =>
              \E c \in Usable : <<o.url, c>> \in published' /\ leg.val = Transform(c, o)
         /\ leg.st = "done" =>
              /\ \E c \in Usable : <<o.url, c>> \in published' /\ leg.val.image = Transform(c, o)
              /\ leg.val = Decorate(leg.val.image, o)
         /\ leg.st = "failed" => o \in failed'
  BY DEF OverlayLegSound, IsImageOf

\* HaveImage hands on the image it is given, placed or still to be decorated.
LEMMA HaveImageSound ==
  ASSUME IInv, NEW r \in Requests, NEW i \in Slots, NEW image,
         IsImageOf(image, query[r].overlay[i]), HaveImage(r, i, image)
  PROVE  OverlayLegSound(ovl'[r][i], query[r].overlay[i])
<1> DEFINE o == query[r].overlay[i]
<1>1. ovl'[r][i] = [st |-> "done", val |-> Decorate(image, o)]
      \/ ovl'[r][i] = [st |-> "decorate", val |-> image]
  BY DEF HaveImage, SetOvl, IInv, TypeOK
<1>2. Decorate(image, o).image = image
  BY DEF Decorate
<1>3. QED
  BY <1>1, <1>2 DEF OverlayLegSound

LEMMA OverlayLegsStep ==
  ASSUME IInv, [Next]_vars
  PROVE  OverlayLegsSound'
<1> SUFFICES ASSUME NEW r \in Requests, NEW i \in Slots, ovl'[r][i].st # "off"
             PROVE  OverlayLegSound(ovl[r][i], query[r].overlay[i])'
  BY DEF OverlayLegsSound
<1>0. TypeInv /\ published \subseteq published' /\ failed \subseteq failed'
  BY HistoryEffect DEF IInv, TypeInv
<1>1. CASE ovl'[r][i] = ovl[r][i]
  <2>1. OverlayLegSound(ovl[r][i], query[r].overlay[i]) /\ query'[r] = query[r]
    BY <1>0, <1>1, LegFacts, QueryEffect
  <2>2. QED
    BY <1>0, <1>1, <2>1, LegMonotone DEF OverlayLegSound, IsImageOf
<1>2. CASE ovl'[r][i].st = "lookup"
  BY <1>2 DEF OverlayLegSound
<1>3. CASE OverlayStep(r, i)
  <2> DEFINE o == query[r].overlay[i]
             leg == ovl[r][i]
  <2>1. /\ leg.st # "off" /\ query' = query
    BY <1>3 DEF OverlayStep, OverlayHit, OverlayMiss, OverlaySource, OverlayFetch, OverlayStore,
       OverlayDecode, OverlayKeep, OverlayDecorate, OverlayFails, HaveImage, SetOvl
  <2>2. /\ o \in AcceptedOverlays /\ o.url \in Urls
        /\ OverlayLegSound(leg, o) /\ OverlayKey(o) \in OverlayKeys
    BY <2>1, LegFacts
  <2>3. ASSUME OverlayHit(r, i) PROVE OverlayLegSound(ovl'[r][i], o)
    <3>1. IsImageOf(overlayCache[OverlayKey(o)], o)
      BY <2>2, <2>3 DEF OverlayHit, IInv, OverlaysSound
    <3>2. QED
      BY <2>3, <3>1, HaveImageSound DEF OverlayHit
  <2>4. ASSUME OverlayMiss(r, i) PROVE OverlayLegSound(ovl'[r][i], o)
    BY <2>4 DEF OverlayMiss, SetOvl, IInv, TypeOK, OverlayLegSound
  <2>5. ASSUME OverlaySource(r, i) PROVE OverlayLegSound(ovl'[r][i], o)
    BY <2>2, <2>5 DEF OverlaySource, SetOvl, IInv, TypeOK, OverlayLegSound, SourcesSound
  <2>6. ASSUME OverlayFetch(r, i) PROVE OverlayLegSound(ovl'[r][i], o)
    BY <2>2, <2>6 DEF OverlayFetch, SetOvl, IInv, TypeOK, OverlayLegSound, OriginsPublished
  <2>7. ASSUME OverlayStore(r, i) PROVE OverlayLegSound(ovl'[r][i], o)
    BY <2>2, <2>7 DEF OverlayStore, SetOvl, IInv, TypeOK, OverlayLegSound
  <2>8. ASSUME OverlayDecode(r, i) PROVE OverlayLegSound(ovl'[r][i], o)
    <3>1. IsImageOf(Transform(leg.val, o), o)
      BY <2>2, <2>8 DEF OverlayDecode, OverlayLegSound, IsImageOf
    <3>2. ovl'[r][i] = [st |-> "keep", val |-> Transform(leg.val, o)]
      BY <2>8 DEF OverlayDecode, SetOvl, IInv, TypeOK
    <3>3. QED
      BY <3>1, <3>2 DEF OverlayLegSound
  <2>9. ASSUME OverlayKeep(r, i) PROVE OverlayLegSound(ovl'[r][i], o)
    BY <2>2, <2>9, HaveImageSound DEF OverlayKeep, OverlayLegSound
  <2>10. ASSUME OverlayDecorate(r, i) PROVE OverlayLegSound(ovl'[r][i], o)
    <3>1. ovl'[r][i] = [st |-> "done", val |-> Decorate(leg.val, o)]
      BY <2>10 DEF OverlayDecorate, SetOvl, IInv, TypeOK
    <3>2. IsImageOf(leg.val, o) /\ Decorate(leg.val, o).image = leg.val
      BY <2>2, <2>10 DEF OverlayDecorate, OverlayLegSound, Decorate
    <3>3. QED
      BY <3>1, <3>2 DEF OverlayLegSound
  <2>11. CASE OverlayFails(r, i)
    <3>1. ovl'[r][i].st = "failed" /\ o \in failed'
      BY <2>11 DEF OverlayFails, SetOvl, IInv, TypeOK
    <3>2. QED
      BY <1>0, <2>1, <3>1 DEF OverlayLegSound
  <2>12. CASE OverlayLegSound(ovl'[r][i], o)
    BY <1>0, <2>1, <2>12, LegMonotone DEF OverlayLegSound, IsImageOf
  <2>13. QED
    BY <1>3, <2>3, <2>4, <2>5, <2>6, <2>7, <2>8, <2>9, <2>10, <2>11, <2>12 DEF OverlayStep
<1>4. QED
  BY <1>0, <1>1, <1>2, <1>3, OverlayLegEffect

\* The body takes the legs as join! left them: each slot from its own leg, an
\* empty one only where nothing was asked for or the leg failed.
LEMMA RenderSound ==
  ASSUME IInv, NEW r \in Requests, Render(r)
  PROVE  IsRenderOf(body'[r], query[r], published, failed)
<1>1. /\ query[r] \in Queries /\ LegsFinished(r) /\ src[r].st = "ok" /\ src[r].val \in Usable
      /\ \A i \in Slots : ovl[r][i].st # "off" <=> i \in DOMAIN query[r].overlay
  BY DEF Render, IInv, PhasesAgree, Working
<1>2. <<query[r].src, src[r].val>> \in published
  BY <1>1 DEF IInv, SourceLegsSound
<1> DEFINE slot(i) == IF ovl[r][i].st = "done" THEN ovl[r][i].val ELSE None
           text == <<query[r].look, src[r].val>> \notin TextLost
<1>3. body'[r] = [look |-> query[r].look, text |-> text, src |-> src[r].val,
                  overlays |-> [i \in Slots |-> slot(i)]]
  BY DEF Render, IInv, TypeOK
<1>4. ASSUME NEW i \in Slots
      PROVE  IsSlotOf(slot(i), query[r], i, published, failed)
  <2>1. CASE ovl[r][i].st = "off"
    BY <1>1, <2>1 DEF IsSlotOf
  <2>2. CASE ovl[r][i].st = "failed"
    BY <1>1, <2>2, LegFacts DEF IsSlotOf, OverlayLegSound
  <2>3. CASE ovl[r][i].st = "done"
    <3>1. /\ IsImageOf(ovl[r][i].val.image, query[r].overlay[i])
          /\ ovl[r][i].val = Decorate(ovl[r][i].val.image, query[r].overlay[i])
      BY <2>3, LegFacts DEF OverlayLegSound
    <3>2. QED
      BY <1>1, <2>3, <3>1 DEF IsSlotOf, IsImageOf
  <2>4. QED
    BY <1>1, <2>1, <2>2, <2>3 DEF LegsFinished
<1> HIDE DEF slot, text
<1>5. /\ body'[r].look = query[r].look /\ body'[r].src = src[r].val /\ body'[r].text = text
      /\ \A i \in Slots : body'[r].overlays[i] = slot(i)
  BY <1>3
<1>6. body'[r].text <=> text
  BY <1>5, Zenon
<1>7. QED
  BY <1>1, <1>2, <1>4, <1>5, <1>6 DEF IsRenderOf, text

LEMMA BodiesStep ==
  ASSUME IInv, [Next]_vars
  PROVE  BodiesSound'
<1> SUFFICES ASSUME NEW r \in Requests, body'[r] # None
             PROVE  IsRenderOf(body'[r], query'[r], published', failed')
  BY DEF BodiesSound, IsOutputOf
<1>0. TypeInv /\ published \subseteq published' /\ failed \subseteq failed'
  BY HistoryEffect DEF IInv, TypeInv
<1>1. CASE body'[r] = body[r]
  <2>1. IsRenderOf(body[r], query[r], published, failed) /\ query'[r] = query[r]
    BY <1>0, <1>1, QueryEffect DEF IInv, BodiesSound, IsOutputOf, PhasesAgree
  <2>2. QED
    BY <1>0, <1>1, <2>1, RenderMonotone
<1>2. CASE Render(r)
  <2>1. query'[r] = query[r]
    BY <1>2 DEF Render
  <2>2. QED
    BY <1>0, <1>2, <2>1, RenderSound, RenderMonotone
<1>3. QED
  BY <1>0, <1>1, <1>2, BodyEffect

\* What Hit and Reply answer, before the histories grow.
LEMMA ReplySound ==
  ASSUME IInv, NEW r \in Requests, Hit(r) \/ Reply(r)
  PROVE  \E b \in Bodies :
                /\ answer' = [answer EXCEPT ![r] = [status |-> "OK", body |-> b]]
                /\ Valid(query[r]) /\ IsOutputOf(b, query[r])
                /\ query[r] \in Queries /\ phase[r] \in {"received", "replying"}
                /\ UNCHANGED <<published, failed, query>>
<1>1. CASE Hit(r)
  <2>1. query[r] \in Queries
    BY <1>1 DEF Hit, IInv, PhasesAgree
  <2>2. outputCache[CacheKey(query[r])] \in Bodies
    BY <1>1, <2>1, QueryFacts DEF Hit, IInv, TypeOK
  <2>3. QED
    BY <1>1, <2>1, <2>2 DEF Hit, Finish, IInv, OutputsSound, history
<1>2. CASE Reply(r)
  <2>1. body[r] \in Bodies
    BY <1>2 DEF Reply, IInv, TypeOK, PhasesAgree
  <2>2. QED
    BY <1>2, <2>1 DEF Reply, Finish, IInv, BodiesSound, PhasesAgree, Working, history
<1>3. QED
  BY <1>1, <1>2

LEMMA AnswersStep ==
  ASSUME IInv, [Next]_vars
  PROVE  AnswersSound'
<1> SUFFICES ASSUME NEW r \in Requests, answer'[r] # None, answer'[r].status = "OK"
             PROVE  Valid(query'[r]) /\ IsRenderOf(answer'[r].body, query'[r], published', failed')
  BY DEF AnswersSound, IsOutputOf
<1>0. TypeInv /\ published \subseteq published' /\ failed \subseteq failed'
  BY HistoryEffect DEF IInv, TypeInv
<1>1. CASE answer'[r] = answer[r]
  <2>1. Valid(query[r]) /\ IsRenderOf(answer[r].body, query[r], published, failed)
    BY <1>1 DEF IInv, AnswersSound, IsOutputOf
  <2>2. query'[r] = query[r]
    BY <1>0, <1>1, QueryEffect DEF IInv, PhasesAgree
  <2>3. QED
    BY <1>0, <1>1, <2>1, <2>2, RenderMonotone
<1>2. CASE Hit(r) \/ Reply(r)
  BY <1>2, ReplySound DEF IInv, TypeOK, IsOutputOf
<1>3. QED
  BY <1>0, <1>1, <1>2, AnswerEffect

LEMMA InvInit == Init => IInv
<1> SUFFICES ASSUME Init PROVE IInv
  OBVIOUS
<1>1. TypeInv
  BY TypeInit
<1>2. OriginsPublished /\ SourcesSound
  BY DEF Init, OriginsPublished, SourcesSound
<1>3. OverlaysSound
  BY DEF Init, OverlaysSound, AcceptedOverlays, OverlayKeys, RequestedOverlays
<1>4. OutputsSound
  BY QueryFacts DEF Init, OutputsSound
<1>5. SourceLegsSound /\ OverlayLegsSound
  BY DEF Init, SourceLegsSound, OverlayLegsSound, NoLeg, NoLegs
<1>6. BodiesSound /\ AnswersSound
  BY DEF Init, BodiesSound, AnswersSound
<1>7. QED
  BY <1>1, <1>2, <1>3, <1>4, <1>5, <1>6 DEF IInv, TypeInv

LEMMA InvStep == IInv /\ [Next]_vars => IInv'
<1> SUFFICES ASSUME IInv, [Next]_vars PROVE IInv'
  OBVIOUS
<1>1. TypeInv'
  BY TypeStep DEF IInv, TypeInv
<1>2. QED
  BY <1>1, OriginsStep, SourcesStep, OverlaysStep, OutputsStep, SourceLegsStep, OverlayLegsStep,
     BodiesStep, AnswersStep DEF IInv, TypeInv

\* The inductive invariant holds in every reachable state.
THEOREM Inductive == Spec => []IInv
  BY InvInit, InvStep, PTL DEF Spec

\* Nothing wrong is ever in a cache of cache/mod.rs: whatever requests,
\* evictions, cancellations and crashes come together, a cached output,
\* overlay or source is right for every request that will look it up.
THEOREM CachesCorrect == Spec => []CachesSound
<1>1. IInv => CachesSound
  BY DEF IInv, CachesSound
<1>2. QED
  BY <1>1, Inductive, PTL

\* Every 200 answer of handle_image renders the query it answers, from content
\* its URLs have served, with every overlay that never failed.
THEOREM AnswersCorrect == Spec => []AnswersSound
<1>1. IInv => AnswersSound
  BY DEF IInv
<1>2. QED
  BY <1>1, Inductive, PTL

-----------------------------------------------------------------------------
(* What two answers to one query have in common.                           *)

\* u has served one usable content.
Steady(u) == \A c, d \in Usable : <<u, c>> \in published /\ <<u, d>> \in published => c = d

\* A slot of two renders, unless its overlay has failed.
LEMMA SlotsAgree ==
  ASSUME NEW v, NEW w, NEW q, NEW i \in DOMAIN q.overlay,
         IsSlotOf(v, q, i, published, failed), IsSlotOf(w, q, i, published, failed),
         Steady(q.overlay[i].url), q.overlay[i] \notin failed
  PROVE  v = w
<1> DEFINE o == q.overlay[i]
<1>1. PICK c \in Usable : <<o.url, c>> \in published /\ v = Decorate(Transform(c, o), o)
  BY DEF IsSlotOf
<1>2. PICK d \in Usable : <<o.url, d>> \in published /\ w = Decorate(Transform(d, o), o)
  BY DEF IsSlotOf
<1>3. c = d
  BY <1>1, <1>2 DEF Steady
<1> QED
  BY <1>1, <1>2, <1>3

\* Until an overlay fails `Cache-Control: immutable` is true: failed overlays are
\* the only cause of what the run ImageImmutable finds.
THEOREM ImmutableUntilFailure == Spec => [](failed = {} => ImmutableAnswers)
<1>1. IInv /\ failed = {} => ImmutableAnswers
  <2> SUFFICES ASSUME IInv, failed = {}, NEW r \in Requests, NEW s \in Requests,
                      Answered(r), Answered(s), query[r] = query[s],
                      \A u \in Urls : published \cap ({u} \X Contents) = {<<u, origin[u]>>}
               PROVE  answer[r].body = answer[s].body
    BY DEF ImmutableAnswers
  <2> DEFINE b == answer[r].body
             d == answer[s].body
             q == query[r]
  <2>1. \A u \in Urls : Steady(u)
    BY ContentAssumption DEF Steady, Usable
  <2>2. /\ Valid(q) /\ IsRenderOf(b, q, published, failed) /\ IsRenderOf(d, q, published, failed)
    BY DEF IInv, AnswersSound, Answered, IsOutputOf
  <2>3. q \in Queries
    BY DEF IInv, PhasesAgree, TypeOK, Answered
  <2>4. b \in Bodies /\ d \in Bodies
    BY AnswerTypes DEF IInv, TypeOK, Answered
  <2>5. b.look = d.look /\ b.text = d.text /\ b.src = d.src
    <3>1. b.look = d.look /\ b.src = d.src
      BY <2>1, <2>2, <2>3, QueryFacts DEF IsRenderOf, Steady
    <3>2. b.text \in BOOLEAN /\ d.text \in BOOLEAN
      BY <2>4 DEF Bodies
    <3>3. b.text <=> d.text
      BY <2>2, <3>1 DEF IsRenderOf
    <3> QED
      BY <3>1, <3>2, <3>3
  <2>6. ASSUME NEW i \in Slots PROVE b.overlays[i] = d.overlays[i]
    <3>1. /\ IsSlotOf(b.overlays[i], q, i, published, failed)
          /\ IsSlotOf(d.overlays[i], q, i, published, failed)
      BY <2>2 DEF IsRenderOf
    <3>2. CASE i \in DOMAIN q.overlay
      <4>1. Steady(q.overlay[i].url) /\ q.overlay[i] \notin failed
        BY <2>1, <2>3, <3>2, QueryFacts
      <4> QED
        BY <3>1, <3>2, <4>1, SlotsAgree
    <3>3. CASE i \notin DOMAIN q.overlay
      BY <3>1, <3>3 DEF IsSlotOf
    <3> QED
      BY <3>2, <3>3
  <2>7. b.overlays = d.overlays
    BY <2>4, <2>6 DEF Bodies
  <2> HIDE DEF b, d
  <2> QED
    BY <2>4, <2>5, <2>7 DEF Bodies, b, d
<1>2. QED
  BY <1>1, Inductive, PTL

-----------------------------------------------------------------------------
(* No request goes back.                                                   *)

LEMMA Unmoved ==
  ASSUME NEW r, phase'[r] = phase[r], answer'[r] = answer[r], src'[r] = src[r], ovl'[r] = ovl[r]
  PROVE  GoesOn(r)
  BY DEF GoesOn, Advanced

LEMMA FinishGoesOn ==
  ASSUME TypeInv, NEW r \in Requests, InFlight(r), NEW status, NEW b, Finish(r, status, b),
         NEW s \in Requests
  PROVE  GoesOn(s)
<1>1. CASE s = r
  <2>1. phase[r] \in Phases \ {"idle", "done"} /\ phase'[r] = "done"
    BY DEF InFlight, Finish, TypeInv, TypeOK
  <2>2. QED
    BY <1>1, <2>1 DEF GoesOn, PhaseRank, Phases
<1>2. CASE s # r
  BY <1>2, Unmoved DEF Finish, TypeInv, TypeOK
<1>3. QED
  BY <1>1, <1>2

\* One leg of r moves on.
LEMMA LegGoesOn ==
  ASSUME TypeInv, NEW r \in Requests, UNCHANGED <<phase, answer>>,
         \/ \E st, v : /\ src' = [src EXCEPT ![r] = [st |-> st, val |-> v]]
                      /\ LegRank(src[r].st) < LegRank(st)
                      /\ UNCHANGED ovl
         \/ \E i \in Slots : \E st, v :
              /\ ovl' = [ovl EXCEPT ![r][i] = [st |-> st, val |-> v]]
              /\ LegRank(ovl[r][i].st) < LegRank(st)
              /\ UNCHANGED src,
         NEW s \in Requests
  PROVE  GoesOn(s)
<1>0. src \in [Requests -> SourceLegs] /\ ovl \in [Requests -> [Slots -> OverlayLegs]]
  BY DEF TypeInv, TypeOK
<1>1. CASE \E st, v : /\ src' = [src EXCEPT ![r] = [st |-> st, val |-> v]]
                     /\ LegRank(src[r].st) < LegRank(st)
                     /\ UNCHANGED ovl
  <2>1. PICK st, v : /\ src' = [src EXCEPT ![r] = [st |-> st, val |-> v]]
                     /\ LegRank(src[r].st) < LegRank(st)
    BY <1>1
  <2>2. Advanced(src[s], src'[s])
    BY <1>0, <2>1 DEF Advanced
  <2>3. QED
    BY <1>1, <2>2 DEF GoesOn, Advanced
<1>2. CASE \E i \in Slots : \E st, v :
             /\ ovl' = [ovl EXCEPT ![r][i] = [st |-> st, val |-> v]]
             /\ LegRank(ovl[r][i].st) < LegRank(st)
             /\ UNCHANGED src
  <2>1. PICK i \in Slots : \E st, v : /\ ovl' = [ovl EXCEPT ![r][i] = [st |-> st, val |-> v]]
                                     /\ LegRank(ovl[r][i].st) < LegRank(st)
    BY <1>2
  <2>2. PICK st, v : /\ ovl' = [ovl EXCEPT ![r][i] = [st |-> st, val |-> v]]
                     /\ LegRank(ovl[r][i].st) < LegRank(st)
    BY <2>1
  <2>3. ASSUME NEW j \in Slots PROVE Advanced(ovl[s][j], ovl'[s][j])
    BY <1>0, <2>2 DEF Advanced
  <2>4. QED
    BY <1>2, <2>3 DEF GoesOn, Advanced
<1>3. QED
  BY <1>1, <1>2

LEMMA SourceGoesOn ==
  ASSUME TypeInv, NEW r \in Requests, SourceStep(r), NEW s \in Requests
  PROVE  GoesOn(s)
<1>1. UNCHANGED <<phase, answer, ovl>>
  BY DEF SourceStep, SourceLookup, SourceFetch, SourceFetchFails, SourceStore, SetSrc
<1>2. \E st, v : /\ src' = [src EXCEPT ![r] = [st |-> st, val |-> v]]
                /\ LegRank(src[r].st) < LegRank(st)
  <2>1. CASE SourceLookup(r)
    <3>1. PICK st \in {"fetch", "ok"} : \E v : src' = [src EXCEPT ![r] = [st |-> st, val |-> v]]
      BY <2>1 DEF SourceLookup, SetSrc
    <3>2. LegRank(src[r].st) = 1 /\ LegRank(st) > 1
      BY <2>1 DEF SourceLookup, LegRank
    <3>3. QED
      BY <3>1, <3>2
  <2>2. CASE SourceFetch(r)
    <3>1. SetSrc(r, "store", origin[query[r].src]) /\ LegRank(src[r].st) < LegRank("store")
      BY <2>2 DEF SourceFetch, LegRank
    <3>2. QED
      BY <3>1 DEF SetSrc
  <2>3. CASE SourceFetchFails(r)
    <3>1. PICK e : SetSrc(r, "err", e)
      BY <2>3 DEF SourceFetchFails
    <3>2. LegRank(src[r].st) < LegRank("err")
      BY <2>3 DEF SourceFetchFails, LegRank
    <3>3. QED
      BY <3>1, <3>2 DEF SetSrc
  <2>4. CASE SourceStore(r)
    <3>1. SetSrc(r, "ok", src[r].val) /\ LegRank(src[r].st) < LegRank("ok")
      BY <2>4 DEF SourceStore, LegRank
    <3>2. QED
      BY <3>1 DEF SetSrc
  <2>5. QED
    BY <2>1, <2>2, <2>3, <2>4 DEF SourceStep
<1>3. QED
  BY <1>1, <1>2, LegGoesOn

LEMMA OverlayGoesOn ==
  ASSUME TypeInv, NEW r \in Requests, NEW i \in Slots, OverlayStep(r, i), NEW s \in Requests
  PROVE  GoesOn(s)
<1>1. \E st, v : SetOvl(r, i, st, v) /\ LegRank(ovl[r][i].st) < LegRank(st)
  <2>1. ASSUME NEW image, HaveImage(r, i, image), ovl[r][i].st \in {"lookup", "keep"}
        PROVE  \E st, v : SetOvl(r, i, st, v) /\ LegRank(ovl[r][i].st) < LegRank(st)
    <3>1. PICK st \in {"done", "decorate"} : \E v : SetOvl(r, i, st, v)
      BY <2>1 DEF HaveImage
    <3>2. LegRank(ovl[r][i].st) < LegRank(st)
      BY <2>1 DEF LegRank
    <3>3. QED
      BY <3>1, <3>2
  <2>2. CASE OverlayHit(r, i) \/ OverlayKeep(r, i)
    BY <2>1, <2>2 DEF OverlayHit, OverlayKeep
  <2>3. CASE OverlaySource(r, i)
    <3>1. PICK st \in {"fetch", "decode"} : \E v : SetOvl(r, i, st, v)
      BY <2>3 DEF OverlaySource
    <3>2. LegRank(ovl[r][i].st) < LegRank(st)
      BY <2>3 DEF OverlaySource, LegRank
    <3>3. QED
      BY <3>1, <3>2
  <2>4. CASE OverlayMiss(r, i) \/ OverlayFetch(r, i) \/ OverlayStore(r, i) \/ OverlayDecode(r, i)
    BY <2>4 DEF OverlayMiss, OverlayFetch, OverlayStore, OverlayDecode, LegRank
  <2>5. CASE OverlayDecorate(r, i) \/ OverlayFails(r, i)
    BY <2>5 DEF OverlayDecorate, OverlayFails, LegRank
  <2>6. QED
    BY <2>2, <2>3, <2>4, <2>5 DEF OverlayStep
<1>2. QED
  BY <1>1, LegGoesOn DEF SetOvl

LEMMA StepGoesOn ==
  ASSUME TypeInv, [Next]_vars, NEW s \in Requests
  PROVE  GoesOn(s)
<1> USE DEF history, caches, legs
<1>1. ASSUME NEW r \in Requests, Handler(r) PROVE GoesOn(s)
  <2>1. CASE SourceStep(r)
    BY <2>1, SourceGoesOn
  <2>2. CASE \E i \in Slots : OverlayStep(r, i)
    BY <2>2, OverlayGoesOn
  <2>3. CASE Reject(r) \/ Hit(r) \/ JoinFails(r) \/ RenderFails(r) \/ RenderDies(r) \/ Reply(r)
    <3>1. InFlight(r) /\ \E status, b : Finish(r, status, b)
      BY <2>3 DEF Reject, Hit, JoinFails, RenderFails, RenderDies, Reply, InFlight
    <3>2. QED
      BY <3>1, FinishGoesOn
  <2>4. CASE Start(r) \/ Join(r) \/ Render(r) \/ StoreOutput(r)
    <3>1. /\ PhaseRank(phase[r]) < PhaseRank(phase'[r])
          /\ \A q \in Requests \ {r} : /\ phase'[q] = phase[q] /\ answer'[q] = answer[q]
                                      /\ src'[q] = src[q] /\ ovl'[q] = ovl[q]
      BY <2>4 DEF Start, Join, Render, StoreOutput, PhaseRank, TypeInv, TypeOK
    <3>2. CASE s = r
      BY <3>1, <3>2 DEF GoesOn
    <3>3. CASE s # r
      BY <3>1, <3>3, Unmoved
    <3>4. QED
      BY <3>2, <3>3
  <2>5. QED
    BY <1>1, <2>1, <2>2, <2>3, <2>4 DEF Handler
<1>2. ASSUME NEW r \in Requests, NEW q \in Queries, Arrive(r, q) PROVE GoesOn(s)
  <2>1. CASE s = r
    BY <1>2, <2>1 DEF Arrive, GoesOn, PhaseRank, TypeInv, TypeOK
  <2>2. CASE s # r
    BY <1>2, <2>2, Unmoved DEF Arrive, TypeInv, TypeOK
  <2>3. QED
    BY <2>1, <2>2
<1>3. ASSUME NEW r \in Requests, NEW e \in Errors, Cancel(r, e) PROVE GoesOn(s)
  BY <1>3, FinishGoesOn DEF Cancel
<1>4. CASE Crash
  <2>1. CASE InFlight(s)
    <3>1. phase[s] \in Phases \ {"idle", "done"} /\ phase'[s] = "done"
      BY <1>4, <2>1 DEF Crash, InFlight, TypeInv, TypeOK
    <3>2. QED
      BY <3>1 DEF GoesOn, PhaseRank, Phases
  \* Whoever is not served has no legs to lose.
  <2>2. CASE ~InFlight(s)
    <3>1. src[s] = NoLeg
      <4>1. src[s].st = "off" /\ src[s] \in SourceLegs
        BY <2>2 DEF TypeInv, TypeOK, PhasesAgree, InFlight, Working
      <4>2. QED
        BY <4>1 DEF SourceLegs, NoLeg
    <3>2. ovl[s] = NoLegs
      <4>1. ASSUME NEW i \in Slots PROVE ovl[s][i] = NoLeg
        <5>1. ovl[s][i].st = "off" /\ ovl[s][i] \in OverlayLegs
          BY <2>2 DEF TypeInv, TypeOK, PhasesAgree, InFlight, Working
        <5>2. QED
          BY <5>1 DEF OverlayLegs, NoLeg
      <4>2. QED
        BY <4>1 DEF NoLegs, TypeInv, TypeOK
    <3>3. QED
      BY <1>4, <2>2, <3>1, <3>2, Unmoved DEF Crash
  <2>3. QED
    BY <2>1, <2>2
<1>5. CASE Eviction \/ (\E u \in Urls, c \in Contents : Publish(u, c)) \/ UNCHANGED vars
  <2>1. UNCHANGED <<phase, answer, src, ovl>>
    BY <1>5 DEF Eviction, EvictOutput, EvictSource, EvictOverlay, Publish, vars
  <2>2. QED
    BY <2>1, Unmoved
<1>6. QED
  BY <1>1, <1>2, <1>3, <1>4, <1>5 DEF Next

\* A request and its legs only ever go on, and so does a request whose handler
\* goes on taking steps come to its answer: there are six phases and eight
\* states of a leg.
THEOREM NothingRepeated == Spec => NothingTwice
<1>1. TypeInv /\ [Next]_vars => [\A r \in Requests : GoesOn(r)]_vars
  BY StepGoesOn
<1>2. QED
  BY <1>1, TypeInit, TypeStep, PTL DEF Spec, NothingTwice

-----------------------------------------------------------------------------
(* ImageService implements ImagePromise.                                   *)

LEMMA PromiseData ==
  ASSUME NEW b, NEW q, NEW P, NEW F
  PROVE  /\ IsRenderOf(b, q, P, F) <=> Promise!IsRenderOf(b, q, P, F)
         /\ Valid(q) <=> Promise!Valid(q)
<1>1. Valid(q) <=> Promise!Valid(q)
  BY DEF Valid, InRange, Promise!Valid, Promise!InRange
<1>2. ASSUME NEW c, NEW o
      PROVE  Decorate(Transform(c, o), o) = Promise!Decorate(Promise!Transform(c, o), o)
  BY DEF Decorate, Transform, OrZero, Promise!Decorate, Promise!Transform, Promise!OrZero
<1>3. Slots = Promise!Slots /\ Usable = Promise!Usable
  BY DEF Slots, Usable, Promise!Slots, Promise!Usable
<1>4. ASSUME NEW v, NEW i
      PROVE  IsSlotOf(v, q, i, P, F) <=> Promise!IsSlotOf(v, q, i, P, F)
  BY <1>2, <1>3 DEF IsSlotOf, Promise!IsSlotOf
<1>5. QED
  BY <1>1, <1>3, <1>4 DEF IsRenderOf, Promise!IsRenderOf

\* A request that ends without an image, by whatever way, is refused.
LEMMA RefuseStep ==
  ASSUME IInv, NEW r \in Requests, InFlight(r), NEW e \in Errors, Finish(r, e, None)
  PROVE  Promise!Next
<1>1. \A s \in {r} : Promise!Waiting(s)
  BY NoneAssumption DEF Promise!Waiting, IInv, PhasesAgree, InFlight
<1>2. answer' = [s \in Requests |->
                   IF s \in {r} THEN [status |-> e, body |-> None] ELSE answer[s]]
  BY DEF Finish, IInv, TypeOK
<1>3. Promise!Refuse({r}, e)
  BY <1>1, <1>2 DEF Promise!Refuse, Finish, history
<1>4. QED
  BY <1>3 DEF Promise!Next

LEMMA DeliverStep ==
  ASSUME IInv, NEW r \in Requests, Hit(r) \/ Reply(r)
  PROVE  Promise!Next
<1>1. PICK b \in Bodies :
               /\ answer' = [answer EXCEPT ![r] = [status |-> "OK", body |-> b]]
               /\ Valid(query[r]) /\ IsOutputOf(b, query[r])
               /\ query[r] \in Queries /\ phase[r] \in {"received", "replying"}
               /\ UNCHANGED <<published, failed, query>>
  BY ReplySound
<1>2. answer'[r] = [status |-> "OK", body |-> b] /\ answer[r] = None
  BY <1>1 DEF IInv, TypeOK, PhasesAgree
<1>3. answer'[r] # None
  BY <1>2, AnswerAssumption, AnswerTypes
<1>4. Promise!Deliver(r)
  <2>1. Promise!Waiting(r)
    BY <1>1, <1>2, NoneAssumption DEF Promise!Waiting
  <2>2. Promise!Valid(query[r]) /\ Promise!IsRenderOf(b, query[r], published, failed)
    BY <1>1, PromiseData DEF IsOutputOf
  <2>3. answer' = [answer EXCEPT ![r] = answer'[r]]
    BY <1>1, <1>2
  <2>4. QED
    BY <1>1, <1>2, <1>3, <2>1, <2>2, <2>3 DEF Promise!Deliver
<1>5. QED
  BY <1>4 DEF Promise!Next

LEMMA HandlerStep ==
  ASSUME IInv, NEW r \in Requests, Handler(r)
  PROVE  Promise!Next \/ UNCHANGED Promise!vars
<1> USE DEF history, caches, legs, Promise!vars
<1>1. CASE SourceStep(r)
  BY <1>1 DEF SourceStep, SourceLookup, SourceFetch, SourceFetchFails, SourceStore, SetSrc
<1>2. ASSUME NEW i \in Slots, OverlayStep(r, i), ~OverlayFails(r, i)
      PROVE  UNCHANGED Promise!vars
  BY <1>2 DEF OverlayStep, OverlayHit, OverlayMiss, OverlaySource, OverlayFetch, OverlayStore,
     OverlayDecode, OverlayKeep, OverlayDecorate, HaveImage, SetOvl
<1>3. ASSUME NEW i \in Slots, OverlayFails(r, i)
      PROVE  Promise!Next
  <2>1. query[r] \in Queries /\ i \in DOMAIN query[r].overlay
    BY <1>3 DEF OverlayFails, IInv, PhasesAgree, Working
  <2>2. Promise!Fail(query[r].overlay[i])
    BY <1>3 DEF OverlayFails, SetOvl, Promise!Fail
  <2>3. QED
    BY <2>1, <2>2 DEF Promise!Next
<1>4. CASE Hit(r) \/ Reply(r)
  BY <1>4, DeliverStep
<1>5. CASE Reject(r) \/ JoinFails(r) \/ RenderFails(r) \/ RenderDies(r)
  <2>1. JoinFails(r) => src[r].val \in FetchErrors
    BY DEF JoinFails, IInv, TypeOK, SourceLegs
  <2>2. InFlight(r) /\ \E e \in Errors : Finish(r, e, None)
    BY <1>5, <2>1 DEF Reject, JoinFails, RenderFails, RenderDies, Errors, FetchErrors, InFlight
  <2>3. QED
    BY <2>2, RefuseStep
<1>6. CASE Start(r) \/ Join(r) \/ Render(r) \/ StoreOutput(r)
  BY <1>6 DEF Start, Join, Render, StoreOutput
<1>7. QED
  BY <1>1, <1>2, <1>3, <1>4, <1>5, <1>6 DEF Handler

LEMMA PromiseStep ==
  ASSUME IInv, [Next]_vars
  PROVE  [Promise!Next]_(Promise!vars)
<1>1. ASSUME NEW u \in Urls, NEW c \in Contents, Publish(u, c)
      PROVE  Promise!Next
  BY <1>1 DEF Publish, Promise!Publish, Promise!Next
<1>2. ASSUME NEW r \in Requests, NEW q \in Queries, Arrive(r, q)
      PROVE  Promise!Next
  BY <1>2 DEF Arrive, Promise!Ask, Promise!Next, IInv, PhasesAgree, history
<1>3. ASSUME NEW r \in Requests, NEW e \in Errors, Cancel(r, e)
      PROVE  Promise!Next
  BY <1>3, RefuseStep DEF Cancel
<1>4. CASE Eviction
  BY <1>4 DEF Eviction, EvictOutput, EvictSource, EvictOverlay, history, Promise!vars
<1>5. CASE Crash
  <2> DEFINE R == {r \in Requests : InFlight(r)}
  <2>1. \A r \in R : Promise!Waiting(r)
    BY NoneAssumption DEF Promise!Waiting, IInv, PhasesAgree, InFlight
  <2>2. answer' = [r \in Requests |->
                     IF r \in R THEN [status |-> "Gone", body |-> None] ELSE answer[r]]
    BY <1>5 DEF Crash
  <2>3. Promise!Refuse(R, "Gone")
    BY <1>5, <2>1, <2>2 DEF Promise!Refuse, Crash, history
  <2>4. R \in SUBSET Requests /\ "Gone" \in Errors
    BY DEF Errors
  <2>5. QED
    BY <2>3, <2>4 DEF Promise!Next
<1>6. CASE UNCHANGED vars
  BY <1>6 DEF vars, history, Promise!vars
<1>7. QED
  BY <1>1, <1>2, <1>3, <1>4, <1>5, <1>6, HandlerStep DEF Next

\* handle_image, with its caches, its concurrent legs, cancellation and
\* crashes, keeps the promise ImagePromise makes without any of them.
THEOREM Implements == Spec => Promised
<1>1. Init => Promise!Init
  BY DEF Init, Promise!Init
<1>2. IInv /\ [Next]_vars => [Promise!Next]_(Promise!vars)
  BY PromiseStep
<1>3. QED
  BY <1>1, <1>2, Inductive, PTL DEF Spec, Promised, Promise!Spec
=============================================================================
