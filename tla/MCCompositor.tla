----------------------------- MODULE MCCompositor -----------------------------
(* Instances of Render and Compositor for TLC.                             *)
EXTENDS Render

Request(w, h, radius, overlays) ==
  [src |-> [w |-> w, h |-> h], maxw |-> None, maxh |-> None, focy |-> None,
   radius |-> radius, overlays |-> overlays]

Bare(w, h, x, y, clear) ==
  [src |-> [w |-> w, h |-> h], maxw |-> None, maxh |-> None, x |-> x, y |-> y,
   clear |-> clear, shadow |-> None]

\* With blur 0 the shadow reaches one pixel.
Shadowed(w, h, x, y, off) ==
  [Bare(w, h, x, y, {}) EXCEPT !.shadow = [off |-> off, blur |-> 0]]

\* A bare overlay with a hole under a shadowed one, on and off the canvas; every
\* small canvas with every radius; overlays longer than the canvas; and a text
\* layer, transparent but for the text, over a shadowed overlay.
NearRequests ==
  {Request(3, 3, 0, <<Bare(2, 2, x, y, {<<1, 0>>}), Shadowed(1, 1, a, b, 1)>>) :
     x \in -3..3, y \in -2..3, a \in {-4, -2, 0, 3, 4}, b \in {-3, 0, 2}} \cup
  {Request(w, h, r, << >>) : w \in 1..7, h \in {5, 6}, r \in 1..4} \cup
  {Request(4, 4, 2, <<Bare(9, 1, x, 3, {}), Bare(1, 9, 3, y, {})>>) : x \in -6..0, y \in -6..0} \cup
  {Request(4, 3, 1, <<Shadowed(2, 1, x, 1, 1), Bare(4, 3, 0, 0, Cells(4, 3) \ ({1, 2} \X {1}))>>) : x \in 0..2}

\* Backgrounds and overlays of every small proportion in every small box, thin
\* ones that round to nothing, and the automatic shadow.
ScaledRequests ==
  {[Request(w, h, 0, << >>) EXCEPT !.maxw = a, !.maxh = b, !.focy = f] :
     w \in {1, 2, 3, 4, 7}, h \in {1, 2, 3, 5, 9}, a \in {1, 2, 3, 4, None}, b \in {1, 2, 3, 5, None},
     f \in {None, 0, 37, 100}} \cup
  {Request(3, 2, 0, <<[Bare(w, h, 1, -1, {}) EXCEPT !.maxw = a, !.maxh = b]>>) :
     w \in {1, 2, 3, 5}, h \in {1, 2, 4, 7}, a \in {1, 2, 3, None}, b \in {1, 2, 3, None}} \cup
  {Request(2, 2, 0, <<[Bare(3, 1, 1, y, {}) EXCEPT !.maxw = 2, !.shadow = [off |-> None, blur |-> b]]>>) :
     y \in {-4, 0}, b \in {None, 2}}

MCRequests == NearRequests \cup ScaledRequests

\* Offsets around and beyond one and two words.
FarRequests ==
  {Request(3, 2, 0, <<Bare(2, 2, x, y, {})>>) : x \in -18..10, y \in {-17, -8, -1, 0, 1, 8}} \cup
  {Request(3, 2, 1, <<Shadowed(1, 1, x, 0, 0), Bare(5, 5, 0, x, {})>>) : x \in -18..10}

\* The jobs they lead to.
MCJobs == UNION {JobsOf(r) : r \in MCRequests}
FarJobs == UNION {JobsOf(r) : r \in FarRequests}
=============================================================================
