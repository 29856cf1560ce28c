----------------------------- MODULE Labelling ------------------------------
(***************************************************************************)
(* ImageRegions.java on top of RasterUnionFind.java: labelRegions passes   *)
(* over the image once and unites each pixel with its right and its lower  *)
(* neighbour when they look the same, printLabels then asks for the label  *)
(* of every pixel.  Every call is one of RasterUnionFind, whose own steps  *)
(* run to its return before the program goes on.  A colour is one channel. *)
(***************************************************************************)
EXTENDS RasterUnionFind, Picture, Components

CONSTANT Colours

ASSUME ColourAssumption == Colours \subseteq Shades

SIMILARITY_THRESHOLD == 1

VARIABLE at          \* the part of the program that is next

loops == <<at, pos>>

Pixels == [PixelIDs -> Colours]
LastPixel == Width * Height - 1

isSameColor(c1, c2) == distance(c1, c2) <= SIMILARITY_THRESHOLD

LabelInit == /\ Init
             /\ pixels \in Pixels
             /\ at = "right"
             /\ pos = 0

-----------------------------------------------------------------------------
\* One `if' of the loop's body: a call of union, or none.
UnionIfSame(neighbour) ==
    \/ \E q \in neighbour : isSameColor(pixels[pos], pixels[q]) /\ CallUnion(pos, q)
    \/ /\ pc = "ready"
       /\ \A q \in neighbour : ~isSameColor(pixels[pos], pixels[q])
       /\ UNCHANGED vars

UniteRight == /\ at = "right"
              /\ UnionIfSame(Right(pos))
              /\ at' = "bottom"
              /\ UNCHANGED <<pixels, pos>>

\* Wrong: the two `if's are one.
UniteBottomElse == /\ at = "bottom"
                   /\ IF answer = [merged |-> TRUE] THEN pc = "ready" /\ UNCHANGED vars
                      ELSE UnionIfSame(Below(pos))
                   /\ at' = IF pos = LastPixel THEN "print" ELSE "right"
                   /\ pos' = IF pos = LastPixel THEN 0 ELSE pos + 1
                   /\ UNCHANGED pixels

UniteBottom == /\ at = "bottom"
               /\ UnionIfSame(Below(pos))
               /\ at' = IF pos = LastPixel THEN "print" ELSE "right"
               /\ pos' = IF pos = LastPixel THEN 0 ELSE pos + 1
               /\ UNCHANGED pixels

PrintLabel == /\ at = "print"
              /\ CallFind(pos)
              /\ at' = IF pos = LastPixel THEN "done" ELSE "print"
              /\ pos' = IF pos = LastPixel THEN 0 ELSE pos + 1
              /\ UNCHANGED pixels

\* The call that was made goes on.
InUnionFind == /\ Climb \/ FindReturns \/ FirstRoot \/ SameRoot \/ Link
               /\ UNCHANGED <<pixels, loops>>

LabelNext == UniteRight \/ UniteBottom \/ PrintLabel \/ InUnionFind

LabelSpec == LabelInit /\ [][LabelNext]_<<vars, pixels, loops>>

-----------------------------------------------------------------------------
\* The types of the program's own variables.
LabelTypeOK == /\ pixels \in Pixels
               /\ at \in {"right", "bottom", "print", "done"}
               /\ pos \in PixelIDs

\* The pairs of neighbours the pass has looked at: those of the pixels before
\* pos, and the right one of pos once it is done.
Seen(p, q) == \/ at \in {"print", "done"}
              \/ p < pos
              \/ p = pos /\ at = "bottom" /\ q \in Right(p)

\* Neighbours seen to look alike, in the plain meaning of the threshold.
SeenEdges == {e \in [from : PixelIDs, to : PixelIDs] :
                 /\ e.to \in Right(e.from) \cup Below(e.from)
                 /\ Seen(e.from, e.to)
                 /\ pixels[e.from] - pixels[e.to] \in -1 .. 1}

Regions == Partition(PixelIDs, SeenEdges)

\* Between two calls, wherever the pass has got to, two pixels have one label
\* exactly when a chain of similar neighbours seen so far joins them, and the
\* label is the first pixel of the region: regions that grew apart and meet
\* late, at a pixel below both, are merged.
RegionsLabelled ==
    pc = "ready" =>
        \A R \in Regions : \E first \in R :
            \A p \in R : first <= p /\ find(parentID, p) = first

\* Between two calls count() is the number of regions seen so far.
CountIsRegions == pc = "ready" => count = Cardinality(Regions)

\* The pass of labelRegions (ImageRegions.java:25-47), seen between its calls.
PassInv == LabelTypeOK /\ RegionsLabelled /\ CountIsRegions

-----------------------------------------------------------------------------
(***************************************************************************)
(* The strengthening behind the theorem about PassInv: all seen edges but  *)
(* the one whose union is under way are in the labels, and nothing else is.*)
(***************************************************************************)
InUnion == {e \in SeenEdges : /\ pc \in {"find1", "find2"}
                              /\ e.from = request.item1 /\ e.to = request.item2}
United == SeenEdges \ InUnion

\* United pixels have one label; a set with some pixel of a label that no united
\* edge leads out of has all of them.
EdgeInv == /\ pc \in {"find1", "find2"} => InUnion # {}
           /\ \A e \in United : label[e.from] = label[e.to]
           /\ \A C \in SUBSET PixelIDs :
                NoneLeaves(C, United) =>
                    \A p \in C : \A q \in PixelIDs : label[q] = label[p] => q \in C

PassIInv == LabelTypeOK /\ EdgeInv
=============================================================================
