------------------------------ MODULE Picture -------------------------------
(***************************************************************************)
(* What the two image programs have in common: the colours they read from  *)
(* the image, one channel of each, and the pixel their loops are at.       *)
(***************************************************************************)
EXTENDS Raster

VARIABLES pixels,    \* the colours read from the image
          pos        \* the pixel the loops are at

Shades == 0 .. 255

distance(c1, c2) == IF c1 < c2 THEN c2 - c1 ELSE c1 - c2
=============================================================================
