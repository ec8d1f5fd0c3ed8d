---------------------------- MODULE MCImageService ----------------------------
(* Instances of ImageService for TLC.                                      *)
EXTENDS ImageService, TLC

CONSTANTS r1, r2, u1, u2, pic, pic2, torn, huge, small, large, garbled, here, there, shadow, bare

MCHash(fields) == <<"hash", fields>>

Overlay(u, w, rad, deco) ==
  [url |-> u, maxw |-> w, maxh |-> None, rad |-> rad, place |-> here, deco |-> deco]

Query(u, look, spare, overlays) == [src |-> u, look |-> look, spare |-> spare, overlay |-> overlays]

\* A text that does not render, over any picture.
MCTextLost == {garbled} \X Contents

\* One overlay of the source's URL: bare, with a second element of a single-valued
\* parameter (the same output key), and with a text that does not render; with a
\* shadow (the same overlay key); and with a width of 0, which would have that key
\* too (400).
SharedKeyQueries ==
  {Query(u1, small, 0, <<Overlay(u1, None, None, bare)>>),
   Query(u1, small, 1, <<Overlay(u1, None, None, bare)>>),
   Query(u1, garbled, 0, <<Overlay(u1, None, None, bare)>>),
   Query(u1, small, 0, <<Overlay(u1, None, 0, shadow)>>),
   Query(u1, small, 0, <<Overlay(u1, 0, None, bare)>>)}

\* Two overlays in both orders.
TwoOverlayQueries ==
  {Query(u1, small, 0, <<Overlay(u1, None, None, bare), Overlay(u2, None, None, bare)>>),
   Query(u1, small, 0, <<Overlay(u2, None, None, bare), Overlay(u1, None, None, bare)>>)}

\* With and without an overlay.
SharedUrlQueries ==
  {Query(u1, small, 0, <<Overlay(u1, None, None, bare)>>),
   Query(u1, small, 0, << >>)}

Symmetry == Permutations({r1, r2})
=============================================================================
