------------------------------- MODULE Render -------------------------------
(***************************************************************************)
(* The render task of handle_image (server/routes/image.rs:494-553) with   *)
(* the sizes it works out before anything is drawn: how large the          *)
(* background and the overlays become, which part of the background is     *)
(* kept, and how far a shadow reaches (image/processor.rs).  What is drawn *)
(* on the canvas then is Compositor's.                                     *)
(*                                                                         *)
(* Sizes are computed in f64.  Its error is far below the distance of two  *)
(* fractions of such sizes, so that it can matter only where a quotient    *)
(* lies half way between two integers: then either may come out.           *)
(***************************************************************************)
EXTENDS Compositor

CONSTANT Requests  \* what a query asks of the render task

\* A bound or a shadow parameter may be absent; absent focy is 50.
Bounds == (Nat \ {0}) \cup {None}
Sources == [w: Nat \ {0}, h: Nat \ {0}]
OverlayRequests ==
  [src: Sources, maxw: Bounds, maxh: Bounds, x: Int, y: Int, clear: SUBSET (Nat \X Nat),
   shadow: {None} \cup [off: Nat \cup {None}, blur: Nat \cup {None}]]

-----------------------------------------------------------------------------
\* (n / d).round()
Rounded(n, d) ==
  {k \in {n \div d, n \div d + 1} : 2 * n - d <= 2 * d * k /\ 2 * d * k <= 2 * n + d}

Ceiling(n, d) == (n + d - 1) \div d

ToWidth(src, w) == {[w |-> w, h |-> MaxOf(k, 1)] : k \in Rounded(w * src.h, src.w)}
ToHeight(src, h) == {[w |-> MaxOf(k, 1), h |-> h] : k \in Rounded(h * src.w, src.h)}

\* Variant of the next: the comparison of the aspects turned round.
CalculateSwapped(src, maxw, maxh) ==
  IF maxw = None /\ maxh = None THEN {src}
  ELSE IF maxh = None THEN ToWidth(src, maxw)
  ELSE IF maxw = None THEN ToHeight(src, maxh)
  ELSE IF maxw * src.h > maxh * src.w THEN ToWidth(src, maxw)
  ELSE ToHeight(src, maxh)

\* calculate_dimensions: the sizes that may come out.
CalculateDimensions(src, maxw, maxh) ==
  IF maxw = None /\ maxh = None THEN {src}
  ELSE IF maxh = None THEN ToWidth(src, maxw)
  ELSE IF maxw = None THEN ToHeight(src, maxh)
  ELSE IF maxw * src.h > maxh * src.w THEN ToHeight(src, maxh)
  ELSE ToWidth(src, maxw)

\* Variant of the next: scaled by the smaller of the two ratios.
CoverByLess(src, w, h) ==
  LET num == IF w * src.h <= h * src.w THEN w ELSE h
      den == IF w * src.h <= h * src.w THEN src.w ELSE src.h
  IN  {[w |-> MaxOf(k, w), h |-> MaxOf(m, h)] :
         k \in Rounded(src.w * num, den), m \in Rounded(src.h * num, den)}

\* resize_crop_cover: scaled by the larger ratio num / den, to no less than the
\* box,
Cover(src, w, h) ==
  LET num == IF w * src.h >= h * src.w THEN w ELSE h
      den == IF w * src.h >= h * src.w THEN src.w ELSE src.h
  IN  {[w |-> MaxOf(k, w), h |-> MaxOf(m, h)] :
         k \in Rounded(src.w * num, den), m \in Rounded(src.h * num, den)}

\* and cut to w by h: in the middle, and below the part of the overflow the
\* focus asks for.
Crops(scaled, w, h, focy) ==
  {[x |-> (scaled.w - w) \div 2, y |-> MinOf(k, scaled.h - h)] :
     k \in Rounded((scaled.h - h) * focy, 100)}

\* The background: its size before the cut, and where it is cut.
Frames(r) ==
  IF r.maxw # None /\ r.maxh # None
  THEN UNION {{[scaled |-> s, crop |-> c, w |-> r.maxw, h |-> r.maxh] :
                 c \in Crops(s, r.maxw, r.maxh, IF r.focy = None THEN 50 ELSE r.focy)} :
              s \in Cover(r.src, r.maxw, r.maxh)}
  ELSE {[scaled |-> s, crop |-> [x |-> 0, y |-> 0], w |-> s.w, h |-> s.h] :
          s \in CalculateDimensions(r.src, r.maxw, r.maxh)}

-----------------------------------------------------------------------------
\* DecorationParams::resolve, and of padding the part the blur takes: sigma is
\* half the radius asked for and at least 1/10, or 1/24 of the shorter side and
\* at least 4; two and a half sigma are made room for.
Resolve(s, shadow) ==
  LET size == MinOf(s.w, s.h)
  IN  [off   |-> IF shadow.off = None THEN MaxOf(size \div 32, 4) ELSE shadow.off,
       reach |-> IF shadow.blur = None THEN MaxOf(Ceiling(5 * size, 48), 10)
                 ELSE MaxOf(Ceiling(5 * shadow.blur, 4), 1)]

\* process_overlay and finalize_overlay: the overlays Compositor may be given.
Shapes(o) ==
  {[w |-> s.w, h |-> s.h, x |-> o.x, y |-> o.y, clear |-> o.clear,
    deco |-> IF o.shadow = None THEN None ELSE Resolve(s, o.shadow)] :
     s \in CalculateDimensions(o.src, o.maxw, o.maxh)}

JobsOf(r) ==
  {[request |-> r, scaled |-> f.scaled, crop |-> f.crop, w |-> f.w, h |-> f.h,
    radius |-> r.radius, overlays |-> shapes] :
     f \in Frames(r),
     shapes \in {s \in [1..Len(r.overlays) -> UNION {Shapes(r.overlays[i]) : i \in 1..Len(r.overlays)}] :
                   \A i \in 1..Len(r.overlays) : s[i] \in Shapes(r.overlays[i])}}

\* The jobs of the render task are those that requests lead to.
ASSUME RequestAssumption ==
  /\ \A r \in Requests :
       /\ r \in [src: Sources, maxw: Bounds, maxh: Bounds, focy: 0..100 \cup {None},
                 radius: Nat, overlays: Seq(OverlayRequests)]
  /\ Jobs = UNION {JobsOf(r) : r \in Requests}
  /\ None \notin Nat
-----------------------------------------------------------------------------
(* Properties                                                              *)

\* Size s has the proportions of src, its height (width) being the side that was
\* rounded: less than a pixel off, or the one pixel an image must keep.
HeightFollows(s, src) ==
  \/ Near(2 * s.h * src.w, 2 * src.h * s.w, src.w)
  \/ s.h = 1 /\ 2 * src.h * s.w < src.w
WidthFollows(s, src) ==
  \/ Near(2 * s.w * src.h, 2 * src.w * s.h, src.h)
  \/ s.w = 1 /\ 2 * src.w * s.h < src.h

Fits(s, src, maxw, maxh) ==
  /\ maxw # None => s.w <= maxw
  /\ maxh # None => s.h <= maxh
  /\ IF maxw = None /\ maxh = None THEN s = src
     ELSE (s.w = maxw /\ HeightFollows(s, src)) \/ (s.h = maxh /\ WidthFollows(s, src))

\* "maintaining aspect ratio" (processor.rs:36), whichever bounds are given and
\* however thin the source: every overlay, and a background with at most one
\* bound, is as large as its bounds allow, within them, and not distorted.
FitsItsBounds ==
  /\ \A i \in 1..Len(job.overlays) :
       LET o == job.request.overlays[i]
       IN  Fits([w |-> job.overlays[i].w, h |-> job.overlays[i].h], o.src, o.maxw, o.maxh)
  /\ job.request.maxw = None \/ job.request.maxh = None =>
       Fits([w |-> job.w, h |-> job.h], job.request.src, job.request.maxw, job.request.maxh)

\* "fully covers the box with overflow on at most one axis" (processor.rs:129):
\* a background with both bounds has exactly their size and no pixel of it lies
\* outside the scaled source; the source is not distorted, loses nothing on one
\* axis, is cut evenly at the sides, and keeps its top (bottom) row when the
\* focus is at the top (bottom).
CoversItsBox ==
  job.request.maxw # None /\ job.request.maxh # None =>
    /\ job.w = job.request.maxw /\ job.h = job.request.maxh
    /\ 0 <= job.crop.x /\ job.crop.x + job.w <= job.scaled.w
    /\ 0 <= job.crop.y /\ job.crop.y + job.h <= job.scaled.h
    /\ \/ job.scaled.w = job.w /\ HeightFollows(job.scaled, job.request.src)
       \/ job.scaled.h = job.h /\ WidthFollows(job.scaled, job.request.src)
    /\ Near(2 * job.crop.x + job.w, job.scaled.w, 1)
    /\ job.request.focy = 0 => job.crop.y = 0
    /\ job.request.focy = 100 => job.crop.y + job.h = job.scaled.h
=============================================================================
