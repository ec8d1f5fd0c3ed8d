------------------------------ MODULE Compositor ------------------------------
(***************************************************************************)
(* The render task from the resized background to the picture handed to    *)
(* the encoder (image/processor.rs): corners are rounded, then the         *)
(* overlays, decorated by finalize_overlay of image/overlay.rs, are drawn  *)
(* one after another, and last the text layer, if there is text, as one    *)
(* more bare overlay at (0, 0) with the size of the canvas.  Both loops go *)
(* over rows, and rayon's threads may take the rows in any order.          *)
(*                                                                         *)
(* A pixel of the canvas is the sequence of marks left on it: <<i, u, v>>  *)
(* for pixel (u, v) of the overlay in slot i, <<i>> for its shadow.  How a *)
(* mark changes the colour below it is left out.                           *)
(***************************************************************************)
EXTENDS Integers, Sequences

CONSTANTS
  Jobs,       \* with w, h, radius (rad or 0) and overlays: in slot order, then the text
  Word,       \* 2^32, the range of u32
  Threshold,  \* pixels above which rows go to rayon
  None

\* Overlay pixels in `clear` have alpha 0; deco is None or says how far below
\* the overlay its shadow lies and how far the blur carries it.
OverlayShapes ==
  [w: Nat \ {0}, h: Nat \ {0}, x: Int, y: Int, clear: SUBSET (Nat \X Nat),
   deco: {None} \cup [off: Nat, reach: Nat]]

ASSUME WordAssumption == Word \in Nat \ {0} /\ Threshold \in Nat

\* Sizes are u32.
ASSUME JobAssumption ==
  \A j \in Jobs :
    /\ j.w \in Nat \ {0} /\ j.h \in Nat \ {0} /\ j.radius \in Nat
    /\ j.w < Word /\ j.h < Word
    /\ j.overlays \in Seq(OverlayShapes)

VARIABLES
  job,      \* what is rendered
  stage,    \* "corners", "overlays" or "done"
  slot,     \* the overlay being drawn
  rows,     \* canvas rows the current loop still has to do
  clipped,  \* canvas pixels whose alpha apply_rounded_corners_inplace has cleared
  canvas    \* canvas[p]: the marks on pixel p, the first at the bottom

vars == <<job, stage, slot, rows, clipped, canvas>>

Cells(w, h) == (0..(w - 1)) \X (0..(h - 1))

MinOf(m, n) == IF m <= n THEN m ELSE n
MaxOf(m, n) == IF m >= n THEN m ELSE n
Near(m, n, d) == m - n <= d /\ n - m <= d

-----------------------------------------------------------------------------
(* apply_rounded_corners_inplace                                           *)

Radius(j) == MinOf(j.radius, MinOf(j.w \div 2, j.h \div 2))

\* A variant: the right and bottom centres one pixel too far out.
InsetOffByOne(n, size, r) ==
  IF n < r THEN r - n ELSE IF n >= size - r THEN n - (size - r) ELSE 0

\* How far a coordinate lies beyond its corner's centre, 0 off the corners.
Inset(n, size, r) ==
  IF n < r THEN r - n ELSE IF n >= size - r THEN n - (size - r - 1) ELSE 0

Clips(j, p) ==
  LET r == Radius(j)
      dx == Inset(p[1], j.w, r)
      dy == Inset(p[2], j.h, r)
  IN  dx > 0 /\ dy > 0 /\ dx * dx + dy * dy > r * r

-----------------------------------------------------------------------------
(* finalize_overlay and apply_overlay_decorations                          *)

\* DecorationParams::padding
Pad(o) == IF o.deco = None THEN 0 ELSE o.deco.reach + o.deco.off + 2

\* The image as it is drawn, and where.
ImageW(o) == o.w + 2 * Pad(o)
ImageH(o) == o.h + 2 * Pad(o)
ImageX(o) == o.x - Pad(o)
ImageY(o) == o.y - Pad(o)

Visible(o, u, v) == u \in 0..(o.w - 1) /\ v \in 0..(o.h - 1) /\ <<u, v>> \notin o.clear

\* Pixel (cx, cy) of the image is reached by the blurred silhouette, which the
\* shadow layer holds as far as it fits.
Shaded(o, cx, cy) ==
  /\ o.deco # None
  /\ \E s \in Cells(ImageW(o), ImageH(o)) :
       /\ Visible(o, s[1] - Pad(o), s[2] - Pad(o) - o.deco.off)
       /\ Near(cx, s[1], o.deco.reach) /\ Near(cy, s[2], o.deco.reach)

\* The mark pixel (cx, cy) of slot i's image leaves where it is drawn.
Marks(i, o, cx, cy) ==
  IF Visible(o, cx - Pad(o), cy - Pad(o)) THEN {<<i, cx - Pad(o), cy - Pad(o)>>}
  ELSE IF Shaded(o, cx, cy) THEN {<<i>>}
  ELSE {}

-----------------------------------------------------------------------------
(* composite_overlay                                                       *)

\* Variants of WindowEnd: a negative offset does not widen the window into the
\* image; and the window is not cut to the image.
WindowEndBaseOnly(n, b, x) == MinOf(n, MaxOf(b - MaxOf(x, 0), 0) % Word)
WindowEndUncut(n, b, x) == MaxOf(b - x, 0) % Word

\* start_ox and end_ox (or start_oy and end_oy) of an image of n pixels drawn
\* at offset x on a canvas of b, and where its first pixel goes; all `as u32`.
WindowStart(x) == IF x < 0 THEN (-x) % Word ELSE 0
WindowEnd(n, b, x) == MinOf(n, MaxOf(b - x, 0) % Word)
CanvasStart(x) == MaxOf(x, 0) % Word

Length(n, b, x) == WindowEnd(n, b, x) - WindowStart(x)

\* Canvas coordinates covered.
Span(n, b, x) == CanvasStart(x) .. (CanvasStart(x) + Length(n, b, x) - 1)

\* The image coordinate that goes to canvas coordinate c.
From(c, x) == WindowStart(x) + c - CanvasStart(x)

Columns(j, o) == Span(ImageW(o), j.w, ImageX(o))

\* Nothing is drawn unless both ranges hold a pixel.
Rows(j, o) == IF Columns(j, o) = {} THEN {} ELSE Span(ImageH(o), j.h, ImageY(o))

InParallel(j, o) ==
  Length(ImageW(o), j.w, ImageX(o)) * Length(ImageH(o), j.h, ImageY(o)) > Threshold

-----------------------------------------------------------------------------
Overlay == job.overlays[slot]

Init ==
  /\ job \in Jobs
  /\ stage = "corners"
  /\ slot = 0
  /\ rows = IF Radius(job) = 0 THEN {} ELSE 0..(job.h - 1)
  /\ clipped = {}
  /\ canvas = [p \in Cells(job.w, job.h) |-> << >>]

ClipRow(y) ==
  /\ stage = "corners"
  /\ y \in rows
  /\ clipped' = clipped \cup {p \in Cells(job.w, job.h) : p[2] = y /\ Clips(job, p)}
  /\ rows' = rows \ {y}
  /\ UNCHANGED <<job, stage, slot, canvas>>

\* for_each has returned: the next overlay's turn.
NextOverlay ==
  /\ rows = {}
  /\ slot < Len(job.overlays)
  /\ stage' = "overlays"
  /\ slot' = slot + 1
  /\ rows' = Rows(job, job.overlays[slot + 1])
  /\ UNCHANGED <<job, clipped, canvas>>

\* A variant of DrawRow: base and overlay swapped, the row goes underneath.
DrawRowUnder(y) ==
  /\ stage = "overlays"
  /\ y \in rows
  /\ InParallel(job, Overlay) \/ \A z \in rows : y <= z
  /\ canvas' = [p \in Cells(job.w, job.h) |->
       IF p[2] = y /\ p[1] \in Columns(job, Overlay)
       THEN LET marks == Marks(slot, Overlay, From(p[1], ImageX(Overlay)), From(y, ImageY(Overlay)))
            IN  IF marks = {} THEN canvas[p] ELSE <<CHOOSE m \in marks : TRUE>> \o canvas[p]
       ELSE canvas[p]]
  /\ rows' = rows \ {y}
  /\ UNCHANGED <<job, stage, slot, clipped>>

\* One row of the image lands on canvas row y.
DrawRow(y) ==
  /\ stage = "overlays"
  /\ y \in rows
  /\ InParallel(job, Overlay) \/ \A z \in rows : y <= z
  /\ canvas' = [p \in Cells(job.w, job.h) |->
       IF p[2] = y /\ p[1] \in Columns(job, Overlay)
       THEN LET marks == Marks(slot, Overlay, From(p[1], ImageX(Overlay)), From(y, ImageY(Overlay)))
            IN  IF marks = {} THEN canvas[p] ELSE Append(canvas[p], CHOOSE m \in marks : TRUE)
       ELSE canvas[p]]
  /\ rows' = rows \ {y}
  /\ UNCHANGED <<job, stage, slot, clipped>>

\* The picture goes to encode_webp.
Finish ==
  /\ stage # "done"
  /\ rows = {}
  /\ slot = Len(job.overlays)
  /\ stage' = "done"
  /\ UNCHANGED <<job, slot, rows, clipped, canvas>>

Next == (\E y \in rows : ClipRow(y) \/ DrawRow(y)) \/ NextOverlay \/ Finish

Spec == Init /\ [][Next]_vars

-----------------------------------------------------------------------------
(* Properties                                                              *)

TypeOK ==
  /\ stage \in {"corners", "overlays", "done"}
  /\ slot \in 0..Len(job.overlays)
  /\ rows \subseteq Int
  /\ clipped \subseteq Cells(job.w, job.h)
  /\ canvas \in [Cells(job.w, job.h) -> Seq(Seq(Int))]

MarksOn(p) == {canvas[p][n] : n \in 1..Len(canvas[p])}

\* What the request asks for, without paddings and windows: overlay o with its
\* top left corner at (x, y), its shadow around and below it.
Asked(i, o, p) ==
  IF Visible(o, p[1] - o.x, p[2] - o.y) THEN {<<i, p[1] - o.x, p[2] - o.y>>}
  ELSE IF /\ o.deco # None
          /\ \E s \in Cells(o.w, o.h) :
               /\ Visible(o, s[1], s[2])
               /\ Near(p[1], o.x + s[1], o.deco.reach)
               /\ Near(p[2], o.y + o.deco.off + s[2], o.deco.reach)
       THEN {<<i>>}
  ELSE {}

\* "the visible image stays at the caller-specified (x, y)" (overlay.rs:148):
\* whatever order rows are drawn in, each overlay drawn so far is where it was
\* asked for, bare or decorated, with nothing cut off but what lies outside the
\* canvas, and its shadow is not cut off by its own padding.
OverlaysInPlace ==
  \A p \in Cells(job.w, job.h) :
    MarksOn(p) = UNION {Asked(i, job.overlays[i], p) :
                          i \in {k \in 1..slot : k < slot \/ p[2] \notin rows}}

\* Overlays are stacked in the order of the query, and none is drawn twice on
\* the same pixel.
StackedInOrder ==
  \A p \in Cells(job.w, job.h) : \A m, n \in 1..Len(canvas[p]) :
    m < n => canvas[p][m][1] < canvas[p][n][1]

\* A finished mask is round: its own mirror image in both axes, and whatever
\* is nearer to the middle than a kept pixel is kept.
CornersRound ==
  stage # "corners" =>
    \A p \in Cells(job.w, job.h) :
      /\ p \in clipped => <<job.w - 1 - p[1], p[2]>> \in clipped
                          /\ <<p[1], job.h - 1 - p[2]>> \in clipped
      /\ p \in clipped /\ p[1] > 0 /\ 2 * p[1] < job.w => <<p[1] - 1, p[2]>> \in clipped
      /\ p \in clipped /\ p[2] > 0 /\ 2 * p[2] < job.h => <<p[1], p[2] - 1>> \in clipped

\* No index leaves its buffer, wherever on the plane the query puts an overlay
\* and though its offset is cut to 32 bits: in the release profile such a panic
\* takes the process down.
IndicesInBounds ==
  stage = "overlays" =>
    \A y \in rows : \A c \in Columns(job, Overlay) :
      /\ <<c, y>> \in Cells(job.w, job.h)
      /\ <<From(c, ImageX(Overlay)), From(y, ImageY(Overlay))>>
           \in Cells(ImageW(Overlay), ImageH(Overlay))

\* The inductive invariant: the job is one of Jobs, the rows left are rows of the
\* loop's range, and those done are clipped,
LoopsAgree ==
  /\ job \in Jobs
  /\ stage = "corners" => slot = 0 /\ rows \subseteq 0..(job.h - 1)
  /\ stage = "overlays" => slot >= 1 /\ rows \subseteq Rows(job, Overlay)
  /\ stage = "done" => rows = {}
  /\ clipped = {p \in Cells(job.w, job.h) : Clips(job, p) /\ (stage = "corners" => p[2] \notin rows)}

Loops == TypeOK /\ LoopsAgree

\* and those drawn hold what was asked for, which takes offsets that lie within
\* 2^32 of the canvas.
OffsetsFit ==
  \A j \in Jobs : \A i \in 1..Len(j.overlays) :
    ImageX(j.overlays[i]) > j.w - Word /\ ImageY(j.overlays[i]) > j.h - Word

IInv == Loops /\ OverlaysInPlace /\ StackedInOrder

\* "Early exit if overlay is completely outside" (processor.rs:374): an image
\* that shares no pixel with the canvas leaves no mark on it.
OutsideNotDrawn ==
  \A i \in 1..Len(job.overlays) :
    LET o == job.overlays[i]
    IN  \/ ImageX(o) + ImageW(o) <= 0 \/ ImageX(o) >= job.w
        \/ ImageY(o) + ImageH(o) <= 0 \/ ImageY(o) >= job.h
        => \A p \in Cells(job.w, job.h) : \A m \in MarksOn(p) : m[1] # i
=============================================================================
