------------------------------ MODULE ImageData ------------------------------
(***************************************************************************)
(* The data of GET /image: query strings as the handler sees them after    *)
(* deserialisation, the images made from them, and what it means for an    *)
(* output to be a render of a query.  Pixels are abstracted to what tells  *)
(* two outputs apart: which content they come from and which parameters    *)
(* were applied to it.                                                     *)
(***************************************************************************)
EXTENDS Naturals, Sequences

CONSTANTS
  Urls,           \* image URLs
  Contents,       \* what a URL can serve: the bytes, up to what rendering sees
  Decodable,      \* contents image::load_from_memory decodes
  Oversized,      \* decodable contents above MAX_MEGAPIXELS
  Looks,          \* everything else that shapes the output: size, crop, filters, text
  RejectedLooks,  \* the looks validate() answers 400 to
  TextLost,       \* <<look, content>>: render_svg_to_image is Err for the look's
                  \* texts at the size this content gives
  Places,         \* overlay positions (ox, oy)
  Decos,          \* overlay decoration: odeco with its three shadow overrides
  Bare,           \* the element of Decos that stands for odeco = 0
  Spares,         \* second and later elements of single-valued parameters
  Queries,        \* the queries clients send
  MaxOverlays,    \* config.max_overlays
  MinDimension,   \* config.min_dimension
  MaxOverlaySize, \* config.max_overlay_size
  None            \* Option::None: no parameter, no cache entry, no answer

\* Contents that survive decode_image and get_metadata.
Usable == Decodable \ Oversized

\* One element of overlay[] with the elements of omaxw[], omaxh[], orad[], ...
\* at the same index, None where those arrays are shorter.
Overlays ==
  [url: Urls, maxw: Nat \cup {None}, maxh: Nat \cup {None}, rad: Nat \cup {None},
   place: Places, deco: Decos]

Slots == 1..MaxOverlays

ASSUME ContentAssumption == Oversized \subseteq Decodable /\ Decodable \subseteq Contents

ASSUME QueryAssumption ==
  \A q \in Queries :
    /\ q \in [src: Urls, look: Looks, spare: Spares, overlay: Seq(Overlays)]

\* With MIN_DIMENSION=0 an overlay asked for at width 0 and one asked for at
\* its natural width would share an overlay cache key.
ASSUME MinDimensionAssumption == MinDimension \in Nat /\ MinDimension >= 1

ASSUME SlotAssumption == MaxOverlays \in Nat

ASSUME NoneAssumption == None \notin Contents /\ None \notin Queries

-----------------------------------------------------------------------------
\* Option<u32>::unwrap_or(0)
OrZero(v) == IF v = None THEN 0 ELSE v

\* Variant of the next: the lower bound forgotten.
InRangeFromZero(v) == v # None => v <= MaxOverlaySize

InRange(v) == v # None => MinDimension <= v /\ v <= MaxOverlaySize

\* ImageQuery::validate
Valid(q) ==
  /\ q.look \notin RejectedLooks
  /\ \A i \in DOMAIN q.overlay : InRange(q.overlay[i].maxw) /\ InRange(q.overlay[i].maxh)
  /\ Len(q.overlay) <= MaxOverlays

-----------------------------------------------------------------------------
\* An overlay's pixels: decoded, resized into the box when it has a bound,
\* corners rounded when the radius is positive.
Transform(c, o) == [content |-> c, box |-> <<o.maxw, o.maxh>>, rad |-> OrZero(o.rad)]

Images ==
  [content: Contents, box: (Nat \cup {None}) \X (Nat \cup {None}), rad: Nat]

\* The overlay as the compositor receives it: shadow drawn unless bare, at the
\* position the query gives it.
Decorate(image, o) == [image |-> image, place |-> o.place, deco |-> o.deco]

Placed == [image: Images, place: Places, deco: Decos]

\* An output image: the background, at each slot the overlay drawn there or
\* None, and whether the texts of the look have been drawn.
Bodies ==
  [look: Looks, text: BOOLEAN, src: Contents, overlays: [Slots -> Placed \cup {None}]]

ASSUME BodyAssumption == None \notin Bodies

\* Slot v of an output for query q: an overlay made as asked from content its
\* URL has served, or nothing, when no overlay was asked for in this slot or
\* when it has been seen to fail.
IsSlotOf(v, q, i, published, failed) ==
  \/ /\ v = None
     /\ i \in DOMAIN q.overlay => q.overlay[i] \in failed
  \/ /\ i \in DOMAIN q.overlay
     /\ \E c \in Usable :
          /\ <<q.overlay[i].url, c>> \in published
          /\ v = Decorate(Transform(c, q.overlay[i]), q.overlay[i])

\* Output b is a render of query q, its texts left out only where they cannot be
\* rendered.
IsRenderOf(b, q, published, failed) ==
  /\ b.look = q.look
  /\ b.text <=> <<q.look, b.src>> \notin TextLost
  /\ b.src \in Usable
  /\ <<q.src, b.src>> \in published
  /\ \A i \in Slots : IsSlotOf(b.overlays[i], q, i, published, failed)
=============================================================================
