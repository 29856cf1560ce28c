------------------------------- MODULE Raster -------------------------------
(***************************************************************************)
(* The pixels of an image of Height rows and Width columns, numbered row   *)
(* by row, and the tree of parents RasterUnionFind.java keeps over them.   *)
(* Shared by the union-find structure and by the two programs that use it. *)
(***************************************************************************)
EXTENDS Integers

CONSTANTS Width, Height

ASSUME RasterAssumption == Width \in Nat \ {0} /\ Height \in Nat \ {0}

PixelIDs == 0 .. Width * Height - 1
Rows == 0 .. Height - 1
Columns == 0 .. Width - 1
Rasters == [Rows -> [Columns -> PixelIDs]]

\* As in the code, getX is the row of a pixel and getY its column.
getX(pixelID) == pixelID \div Width
getY(pixelID) == pixelID % Width

\* Every pixel its own parent: the constructor's two loops.
Singletons == [i \in Rows |-> [j \in Columns |-> i * Width + j]]

Parent(parentID, p) == parentID[getX(p)][getY(p)]

\* The recursion of find(), up to the pixel that is its own parent.
find(parentID, pixelID) ==
    LET root[p \in PixelIDs] ==
            IF Parent(parentID, p) = p THEN p ELSE root[Parent(parentID, p)]
    IN  root[pixelID]

Lesser(a, b) == IF a < b THEN a ELSE b
Greater(a, b) == IF a < b THEN b ELSE a

\* The larger root becomes a child of the smaller.
Linked(parentID, root1, root2) ==
    LET larger == Greater(root1, root2)
    IN  [parentID EXCEPT ![getX(larger)][getY(larger)] = Lesser(root1, root2)]

\* The neighbours of a pixel to the right and below.
Right(p) == IF getY(p) + 1 < Width THEN {p + 1} ELSE {}
Below(p) == IF getX(p) + 1 < Height THEN {p + Width} ELSE {}
Left(p) == IF getY(p) > 0 THEN {p - 1} ELSE {}
Above(p) == IF getX(p) > 0 THEN {p - Width} ELSE {}
=============================================================================
