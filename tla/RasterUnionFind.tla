-------------------------- MODULE RasterUnionFind --------------------------
(***************************************************************************)
(* RasterUnionFind.java: disjoint sets of pixels, as trees in a raster of  *)
(* parents, one step of find()'s climb at a time.                          *)
(*                                                                         *)
(* `label' is a history variable: what the labels should be, merged when   *)
(* union links two roots and never read by a step.  IInv says how the      *)
(* trees agree with it, and SetsSpec that the whole implements             *)
(* DisjointSets.                                                           *)
(***************************************************************************)
EXTENDS Raster, FiniteSets

VARIABLES parentID, count,
          pc,        \* where the current call is, "ready" between calls
          request,   \* the call and its arguments
          pixel,     \* the pixel the innermost find() looks at
          root1,     \* union's first root, once it is known
          answer,    \* what the last call returned
          label

NoRequest == [op |-> "none"]
NoAnswer == [none |-> TRUE]
Requests == [op : {"find"}, item : PixelIDs]
            \cup [op : {"union"}, item1 : PixelIDs, item2 : PixelIDs]

vars == <<parentID, count, pc, request, pixel, root1, answer, label>>

Init == /\ parentID = Singletons
        /\ count = Height * Width
        /\ pc = "ready"
        /\ request = NoRequest
        /\ pixel = 0
        /\ root1 = 0
        /\ answer = NoAnswer
        /\ label = [p \in PixelIDs |-> p]

-----------------------------------------------------------------------------
CallFind(p) == /\ pc = "ready"
               /\ request' = [op |-> "find", item |-> p]
               /\ pixel' = p
               /\ pc' = "find"
               /\ UNCHANGED <<parentID, count, root1, answer, label>>

CallUnion(p, q) == /\ pc = "ready"
                   /\ request' = [op |-> "union", item1 |-> p, item2 |-> q]
                   /\ pixel' = p
                   /\ pc' = "find1"
                   /\ UNCHANGED <<parentID, count, root1, answer, label>>

AtRoot == pixel = Parent(parentID, pixel)

\* find() calls itself on the parent.
Climb == /\ pc \in {"find", "find1", "find2"}
         /\ ~AtRoot
         /\ pixel' = Parent(parentID, pixel)
         /\ UNCHANGED <<parentID, count, pc, request, root1, answer, label>>

\* A find() that looks no further than the parent.
FindShallow == /\ pc = "find"
               /\ answer' = [label |-> Parent(parentID, pixel)]
               /\ pc' = "ready"
               /\ request' = NoRequest
               /\ UNCHANGED <<parentID, count, pixel, root1, label>>

FindReturns == /\ pc = "find"
               /\ AtRoot
               /\ answer' = [label |-> pixel]
               /\ pc' = "ready"
               /\ request' = NoRequest
               /\ UNCHANGED <<parentID, count, pixel, root1, label>>

FirstRoot == /\ pc = "find1"
             /\ AtRoot
             /\ root1' = pixel
             /\ pixel' = request.item2
             /\ pc' = "find2"
             /\ UNCHANGED <<parentID, count, request, answer, label>>

SameRoot == /\ pc = "find2"
            /\ AtRoot
            /\ pixel = root1
            /\ answer' = [merged |-> FALSE]
            /\ pc' = "ready"
            /\ request' = NoRequest
            /\ UNCHANGED <<parentID, count, pixel, root1, label>>

Merged(r1, r2) == [p \in PixelIDs |-> IF label[p] = Greater(r1, r2)
                                      THEN Lesser(r1, r2) ELSE label[p]]

\* Links the second argument itself, not the root of its tree.
LinkItem == /\ pc = "find2"
            /\ AtRoot
            /\ pixel # root1
            /\ parentID' = Linked(parentID, root1, request.item2)
            /\ label' = Merged(root1, pixel)
            /\ count' = count - 1
            /\ answer' = [merged |-> TRUE]
            /\ pc' = "ready"
            /\ request' = NoRequest
            /\ UNCHANGED <<pixel, root1>>

Link == /\ pc = "find2"
        /\ AtRoot
        /\ pixel # root1
        /\ parentID' = Linked(parentID, root1, pixel)
        /\ label' = Merged(root1, pixel)
        /\ count' = count - 1
        /\ answer' = [merged |-> TRUE]
        /\ pc' = "ready"
        /\ request' = NoRequest
        /\ UNCHANGED <<pixel, root1>>

Next == \/ \E p \in PixelIDs : CallFind(p)
        \/ \E p, q \in PixelIDs : CallUnion(p, q)
        \/ Climb
        \/ FindReturns
        \/ FirstRoot
        \/ SameRoot
        \/ Link

Spec == Init /\ [][Next]_vars

-----------------------------------------------------------------------------
\* The types of the variables.
TypeOK == /\ parentID \in Rasters
          /\ count \in Nat
          /\ pc \in {"ready", "find", "find1", "find2"}
          /\ request \in Requests \cup {NoRequest}
          /\ pixel \in PixelIDs
          /\ root1 \in PixelIDs
          /\ answer \in [label : PixelIDs] \cup [merged : BOOLEAN] \cup {NoAnswer}
          /\ label \in [PixelIDs -> PixelIDs]

\* No parent is larger than its child, so a climb never meets a cycle and
\* the smallest pixel of a set is its root: what union's max and min are for.
Downhill == \A p \in PixelIDs : Parent(parentID, p) <= p

Roots == {p \in PixelIDs : Parent(parentID, p) = p}

\* count() is the number of trees, through every union that merged two sets
\* and every one that found nothing to merge.
CountIsRoots == count = Cardinality(Roots)

Sets == INSTANCE DisjointSets WITH Items <- PixelIDs, number <- count

\* The raster of parents implements the UnionFind interface.
SetsSpec == Sets!Spec

-----------------------------------------------------------------------------
(***************************************************************************)
(* The strengthening behind the theorems of ImageProofs: the               *)
(* label of a pixel is the label of its parent, and it is the pixel itself *)
(* exactly at a root; the climb stays inside the set it started from.      *)
(***************************************************************************)
LabelInv == /\ \A p \in PixelIDs : label[Parent(parentID, p)] = label[p]
            /\ \A p \in PixelIDs : Parent(parentID, p) = p <=> label[p] = p
            /\ \A p \in PixelIDs : label[label[p]] = label[p]

CallInv == /\ pc = "ready" <=> request = NoRequest
           /\ pc = "find" => /\ request.op = "find"
                             /\ label[pixel] = label[request.item]
           /\ pc \in {"find1", "find2"} => request.op = "union"
           /\ pc = "find1" => label[pixel] = label[request.item1]
           /\ pc = "find2" => /\ label[pixel] = label[request.item2]
                              /\ root1 = label[request.item1]
                              /\ label[root1] = root1

IInv == TypeOK /\ Downhill /\ LabelInv /\ CallInv /\ CountIsRoots
=============================================================================
