--------------------------- MODULE MCSegmentation ---------------------------
(* Images with near, far and equal neighbours; the first and the last pixel *)
(* differ, so no image is flat and ties stay few enough to enumerate.       *)
EXTENDS Segmentation

MCImages == {f \in [PixelIDs -> {0, 1, 4}] : f[0] = 0 /\ f[Width * Height - 1] = 4}
=============================================================================
