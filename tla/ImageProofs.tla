---------------------------- MODULE ImageProofs ----------------------------
(***************************************************************************)
(* For an image of any width and height.                                   *)
(*                                                                         *)
(* Labelling: the trees of RasterUnionFind only point down, their number   *)
(* is what count() says, and the raster of parents implements the          *)
(* UnionFind interface.  labelRegions and printLabels only reach the trees *)
(* through union and find, so all of it holds in the program that uses     *)
(* them, and its pass puts two pixels together if and only if pixels of    *)
(* one colour lead from one to the other.                                  *)
(*                                                                         *)
(* Segmentation: the edges kruskal() joins are a forest of the grid that   *)
(* spans the regions, and no forest that leaves as many regions costs      *)
(* less; the program ends with the number of regions the user asked for,   *)
(* and saves an image with one colour in each of them.                     *)
(***************************************************************************)
EXTENDS Labelling, Segmentation, FiniteSetTheorems, WellFoundedInduction, TLAPS

(***************************************************************************)
(* The raster: a pixel is known by its row and its column.                 *)
(***************************************************************************)
LEMMA DivMod ==
  ASSUME NEW p \in Nat, NEW w \in Nat \ {0}
  PROVE  p = w * (p \div w) + (p % w) /\ p % w \in 0 .. w - 1 /\ p \div w \in Nat
BY Z3

\* A product and a remainder below a product: the quotient is below the factor.
LEMMA QuotientBelow ==
  ASSUME NEW q \in Nat, NEW r \in Nat, NEW w \in Nat, NEW h \in Nat, w * q + r < w * h
  PROVE  q < h
<1>1. SUFFICES ASSUME q >= h PROVE FALSE
  BY SMT
<1>2. w * q >= w * h
  BY <1>1, SMT
<1> QED BY <1>2, SMT

\* getX and getY are the row and the column of a pixel.
LEMMA RowAndColumn ==
  ASSUME NEW p \in PixelIDs
  PROVE  getX(p) \in Rows /\ getY(p) \in Columns /\ p = Width * getX(p) + getY(p)
<1>1. p \in Nat /\ Width \in Nat \ {0} /\ Height \in Nat /\ Width * Height \in Int
  BY RasterAssumption, SMT DEF PixelIDs
<1>2. p < Width * Height
  BY <1>1 DEF PixelIDs
<1>3. /\ p = Width * getX(p) + getY(p)
      /\ getY(p) \in 0 .. Width - 1
      /\ getX(p) \in Nat
  BY <1>1, DivMod DEF getX, getY
<1>4. getX(p) < Height
  BY <1>1, <1>2, <1>3, QuotientBelow
<1> QED BY <1>1, <1>3, <1>4 DEF Rows, Columns

\* A row and a column make a pixel.
LEMMA PixelAt ==
  ASSUME NEW i \in Rows, NEW j \in Columns
  PROVE  i * Width + j \in PixelIDs
<1>1. i \in Nat /\ i <= Height - 1 /\ j \in Nat /\ j <= Width - 1
  BY RasterAssumption DEF Rows, Columns
<1>2. i * Width <= (Height - 1) * Width
  BY <1>1, RasterAssumption, SMT
<1>3. (Height - 1) * Width = Width * Height - Width
  BY RasterAssumption, SMT
<1>4. i * Width \in Nat /\ Width * Height \in Nat
  BY <1>1, RasterAssumption, SMT
<1> QED BY <1>1, <1>2, <1>3, <1>4, RasterAssumption DEF PixelIDs

\* There are as many pixels as rows times columns.
LEMMA PixelCount ==
  /\ IsFiniteSet(PixelIDs)
  /\ Cardinality(PixelIDs) = Height * Width
  /\ Height * Width \in Nat
  /\ 0 \in PixelIDs
<1>1. Width * Height \in Nat /\ Width * Height > 0 /\ Width * Height = Height * Width
  BY RasterAssumption, SMT
<1>2. /\ IsFiniteSet(0 .. Width * Height - 1)
      /\ Cardinality(0 .. Width * Height - 1) = Width * Height
  BY <1>1, FS_Interval
<1> QED BY <1>1, <1>2 DEF PixelIDs

\* At first every pixel is its own parent.
LEMMA SingletonParents ==
  /\ Singletons \in Rasters
  /\ \A p \in PixelIDs : Parent(Singletons, p) = p
<1>1. Singletons \in Rasters
  BY PixelAt DEF Singletons, Rasters
<1>2. ASSUME NEW p \in PixelIDs PROVE Parent(Singletons, p) = p
  <2>1. Parent(Singletons, p) = getX(p) * Width + getY(p)
    BY RowAndColumn DEF Singletons, Parent
  <2>2. getX(p) * Width = Width * getX(p)
    BY RowAndColumn, RasterAssumption, SMT DEF Rows
  <2> QED BY <2>1, <2>2, RowAndColumn
<1> QED BY <1>1, <1>2

\* A parent is a pixel.
LEMMA ParentType ==
  ASSUME NEW par \in Rasters, NEW p \in PixelIDs
  PROVE  Parent(par, p) \in PixelIDs
BY RowAndColumn DEF Rasters, Parent

\* Of two pixels one is less.
LEMMA LesserGreater ==
  ASSUME NEW a \in PixelIDs, NEW b \in PixelIDs, a # b
  PROVE  /\ Lesser(a, b) \in PixelIDs /\ Greater(a, b) \in PixelIDs
         /\ Lesser(a, b) < Greater(a, b)
         /\ {Lesser(a, b), Greater(a, b)} = {a, b}
BY RasterAssumption DEF Lesser, Greater, PixelIDs

\* Linking changes the parent of the greater root and no other.
LEMMA LinkedParents ==
  ASSUME NEW par \in Rasters, NEW a \in PixelIDs, NEW b \in PixelIDs, a # b
  PROVE  /\ Linked(par, a, b) \in Rasters
         /\ \A p \in PixelIDs : Parent(Linked(par, a, b), p) =
               IF p = Greater(a, b) THEN Lesser(a, b) ELSE Parent(par, p)
<1> DEFINE g == Greater(a, b)
           l == Lesser(a, b)
<1>1. g \in PixelIDs /\ l \in PixelIDs
  BY LesserGreater
<1>2. getX(g) \in Rows /\ getY(g) \in Columns /\ g = Width * getX(g) + getY(g)
  BY <1>1, RowAndColumn
<1>3. Linked(par, a, b) = [par EXCEPT ![getX(g)][getY(g)] = l]
  BY DEF Linked
<1> HIDE DEF g, l
<1>4. Linked(par, a, b) \in Rasters
  BY <1>1, <1>2, <1>3 DEF Rasters
<1>5. ASSUME NEW p \in PixelIDs
      PROVE  Parent(Linked(par, a, b), p) = IF p = g THEN l ELSE Parent(par, p)
  <2>1. getX(p) \in Rows /\ getY(p) \in Columns /\ p = Width * getX(p) + getY(p)
    BY RowAndColumn
  <2>2. CASE getX(p) = getX(g) /\ getY(p) = getY(g)
    <3>1. p = g
      BY <1>2, <2>1, <2>2
    <3>2. Parent(Linked(par, a, b), g) = l
      BY <1>2, <1>3 DEF Rasters, Parent
    <3> QED BY <3>1, <3>2
  <2>3. CASE getX(p) # getX(g) \/ getY(p) # getY(g)
    <3>1. p # g
      BY <2>3
    <3>2. Parent(Linked(par, a, b), p) = Parent(par, p)
      BY <1>2, <1>3, <2>1, <2>3 DEF Rasters, Parent
    <3> QED BY <3>1, <3>2
  <2> QED BY <2>2, <2>3
<1> QED BY <1>4, <1>5 DEF g, l

(***************************************************************************)
(* The inductive invariant.                                                *)
(***************************************************************************)
LEMMA InitIInv == Init => IInv
<1> SUFFICES ASSUME Init PROVE IInv
  OBVIOUS
<1>1. /\ parentID \in Rasters
      /\ \A p \in PixelIDs : Parent(parentID, p) = p
  BY SingletonParents DEF Init
<1>2. TypeOK /\ CallInv
  BY <1>1, PixelCount DEF Init, TypeOK, CallInv, NoRequest
<1>3. Downhill
  BY <1>1, RasterAssumption DEF Downhill, PixelIDs
<1>4. LabelInv
  BY <1>1 DEF Init, LabelInv
<1>5. CountIsRoots
  <2>1. Roots = PixelIDs
    BY <1>1 DEF Roots
  <2> QED BY <2>1, PixelCount DEF CountIsRoots, Init
<1> QED BY <1>2, <1>3, <1>4, <1>5 DEF IInv

\* The steps that change neither a tree nor a label.
LEMMA ClimbPreserves ==
  ASSUME IInv,
         \/ \E p \in PixelIDs : CallFind(p)
         \/ \E p, q \in PixelIDs : CallUnion(p, q)
         \/ Climb \/ FindReturns \/ FirstRoot \/ SameRoot
  PROVE  IInv'
<1>1. UNCHANGED <<parentID, label, count>>
  BY DEF CallFind, CallUnion, Climb, FindReturns, FirstRoot, SameRoot
<1>2. (Downhill /\ LabelInv /\ CountIsRoots)'
  BY <1>1 DEF IInv, Downhill, LabelInv, CountIsRoots, Roots
<1>3. TypeOK /\ CallInv /\ LabelInv
  BY DEF IInv
<1>4. Parent(parentID, pixel) \in PixelIDs
  BY <1>3, ParentType DEF TypeOK
<1>5. ASSUME NEW p \in PixelIDs, CallFind(p) PROVE (TypeOK /\ CallInv)'
  BY <1>3, <1>5 DEF CallFind, TypeOK, CallInv, Requests, NoRequest
<1>6. ASSUME NEW p \in PixelIDs, NEW q \in PixelIDs, CallUnion(p, q) PROVE (TypeOK /\ CallInv)'
  BY <1>3, <1>6 DEF CallUnion, TypeOK, CallInv, Requests, NoRequest
<1>7. ASSUME Climb PROVE (TypeOK /\ CallInv)'
  <2>1. label[pixel'] = label[pixel] /\ pixel' \in PixelIDs
    BY <1>3, <1>4, <1>7 DEF Climb, LabelInv, TypeOK
  <2> QED BY <1>3, <1>7, <2>1 DEF Climb, TypeOK, CallInv
<1>8. ASSUME FindReturns PROVE (TypeOK /\ CallInv)'
  BY <1>3, <1>8 DEF FindReturns, TypeOK, CallInv
<1>9. ASSUME FirstRoot PROVE (TypeOK /\ CallInv)'
  <2>1. label[pixel] = pixel
    BY <1>3, <1>9 DEF FirstRoot, AtRoot, LabelInv, TypeOK
  <2>2. request \in Requests /\ request.op = "union"
    BY <1>3, <1>9 DEF FirstRoot, TypeOK, CallInv, NoRequest
  <2>3. request.item2 \in PixelIDs
    BY <2>2 DEF Requests
  <2> QED BY <1>3, <1>9, <2>1, <2>2, <2>3 DEF FirstRoot, TypeOK, CallInv
<1>10. ASSUME SameRoot PROVE (TypeOK /\ CallInv)'
  BY <1>3, <1>10 DEF SameRoot, TypeOK, CallInv
<1>11. (TypeOK /\ CallInv)'
  BY <1>5, <1>6, <1>7, <1>8, <1>9, <1>10
<1> QED BY <1>2, <1>11 DEF IInv

\* What union knows when it links: two roots, each the label of its set.
LEMMA LinkFacts ==
  ASSUME IInv, Link
  PROVE  /\ root1 \in PixelIDs /\ pixel \in PixelIDs /\ root1 # pixel
         /\ label[root1] = root1 /\ label[pixel] = pixel
         /\ request \in Requests /\ request.op = "union"
         /\ root1 = label[request.item1] /\ pixel = label[request.item2]
BY DEF IInv, Link, AtRoot, TypeOK, LabelInv, CallInv, NoRequest

\* One root under another keeps the invariant.
LEMMA LinkPreserves ==
  ASSUME IInv, Link
  PROVE  IInv'
<1> DEFINE g == Greater(root1, pixel)
           l == Lesser(root1, pixel)
<1>1. /\ l \in PixelIDs /\ g \in PixelIDs /\ l < g /\ {l, g} = {root1, pixel}
      /\ label[l] = l /\ label[g] = g
  BY LinkFacts, LesserGreater
<1>2. /\ parentID \in Rasters
      /\ label \in [PixelIDs -> PixelIDs]
      /\ count \in Nat
  BY DEF IInv, TypeOK
<1>3. /\ parentID' \in Rasters
      /\ \A p \in PixelIDs : Parent(parentID', p) = IF p = g THEN l ELSE Parent(parentID, p)
  BY <1>2, LinkFacts, LinkedParents DEF Link
<1>4. label' = [p \in PixelIDs |-> IF label[p] = g THEN l ELSE label[p]]
  BY DEF Link, Merged
<1>5. /\ \A p \in PixelIDs : label[Parent(parentID, p)] = label[p]
      /\ \A p \in PixelIDs : Parent(parentID, p) = p <=> label[p] = p
      /\ \A p \in PixelIDs : label[label[p]] = label[p]
      /\ \A p \in PixelIDs : Parent(parentID, p) <= p
      /\ \A p \in PixelIDs : Parent(parentID, p) \in PixelIDs
  BY <1>2, ParentType DEF IInv, LabelInv, Downhill
<1> HIDE DEF g, l
<1>6. Downhill'
  <2>1. l <= g /\ g \in Int
    BY <1>1, PixelCount DEF PixelIDs
  <2> QED BY <1>1, <1>3, <1>5, <2>1 DEF Downhill
<1>7. LabelInv'
  <2>1. ASSUME NEW p \in PixelIDs PROVE label'[Parent(parentID', p)] = label'[p]
    BY <1>1, <1>2, <1>3, <1>4, <1>5
  <2>2. l # g
    BY <1>1 DEF PixelIDs
  <2>3. ASSUME NEW p \in PixelIDs PROVE Parent(parentID', p) = p <=> label'[p] = p
    BY <1>1, <1>2, <1>3, <1>4, <1>5, <2>2
  <2>4. ASSUME NEW p \in PixelIDs PROVE label'[label'[p]] = label'[p]
    BY <1>1, <1>2, <1>4, <1>5, <2>2
  <2> QED BY <2>1, <2>3, <2>4 DEF LabelInv
<1>8. Roots' = Roots \ {g} /\ g \in Roots
  BY <1>1, <1>3, <1>5 DEF Roots, PixelIDs
<1>9. /\ IsFiniteSet(Roots)
      /\ Cardinality(Roots) \in Nat
  BY PixelCount, FS_Subset, FS_CardinalityType DEF Roots
<1>10. /\ Cardinality(Roots') = Cardinality(Roots) - 1
       /\ Cardinality(Roots') \in Nat
  BY <1>8, <1>9, FS_RemoveElement, FS_CardinalityType
<1>11. count = Cardinality(Roots) /\ count' = count - 1
  BY DEF IInv, CountIsRoots, Link
<1>12. CountIsRoots' /\ count' \in Nat
  BY <1>10, <1>11 DEF CountIsRoots
<1>13. label' \in [PixelIDs -> PixelIDs]
  BY <1>1, <1>2, <1>4
<1>14. TypeOK' /\ CallInv'
  BY <1>3, <1>12, <1>13, LinkFacts DEF Link, TypeOK, CallInv
<1> QED BY <1>6, <1>7, <1>12, <1>14 DEF IInv

\* What leaves the trees alone keeps the invariant.
LEMMA StutterPreserves == IInv /\ UNCHANGED vars => IInv'
BY DEF IInv, TypeOK, Downhill, LabelInv, CallInv, CountIsRoots, Roots, AtRoot, vars

\* The inductive invariant holds in every reachable state.
THEOREM UnionFindInvariant == Spec => []IInv
<1>1. IInv /\ [Next]_vars => IInv'
  BY ClimbPreserves, LinkPreserves, StutterPreserves DEF Next
<1> QED BY InitIInv, <1>1, PTL DEF Spec

\* The variables keep their types on a raster of any size: in particular every
\* parent is a pixel of the raster, so find() never indexes outside it.
THEOREM UnionFindTypes == Spec => []TypeOK
<1>1. IInv => TypeOK
  BY DEF IInv
<1> QED
  BY <1>1, UnionFindInvariant, PTL

\* No union ever makes a parent larger than its child, so the recursion of
\* find() is bounded by the pixel it starts from.
THEOREM TreesPointDown == Spec => []Downhill
<1>1. IInv => Downhill
  BY DEF IInv
<1> QED BY UnionFindInvariant, <1>1, PTL

\* count() is always the number of trees.
THEOREM CountIsNumberOfTrees == Spec => []CountIsRoots
<1>1. IInv => CountIsRoots
  BY DEF IInv
<1> QED BY UnionFindInvariant, <1>1, PTL

(***************************************************************************)
(* The refinement.  The labels of the abstract sets are the history        *)
(* variable, their number is count; a call begins with its request and     *)
(* takes effect at its last step, the climbs are stutters.                 *)
(***************************************************************************)
LEMMA InitRefines == Init => Sets!Init
<1>1. Sets!Cardinality(PixelIDs) = Cardinality(PixelIDs)
  BY Zenon DEF Sets!Cardinality, Cardinality
<1> QED BY <1>1, PixelCount
           DEF Init, Sets!Init, NoRequest, Sets!NoRequest, NoAnswer, Sets!NoAnswer

\* Every step of the trees is a step of the sets, or none.
LEMMA StepRefines ==
  ASSUME IInv, [Next]_vars
  PROVE  [Sets!Next]_(Sets!vars)
<1> USE DEF NoRequest, Sets!NoRequest
<1>0. TypeOK /\ CallInv /\ LabelInv
  BY DEF IInv
<1>1. ASSUME NEW p \in PixelIDs, CallFind(p) PROVE Sets!Call
  BY <1>0, <1>1 DEF CallFind, CallInv, Sets!Call, Sets!Requests
<1>2. ASSUME NEW p \in PixelIDs, NEW q \in PixelIDs, CallUnion(p, q) PROVE Sets!Call
  BY <1>0, <1>2 DEF CallUnion, CallInv, Sets!Call, Sets!Requests
<1>3. ASSUME Climb \/ FirstRoot PROVE UNCHANGED Sets!vars
  BY <1>3 DEF Climb, FirstRoot, Sets!vars
<1>4. ASSUME FindReturns PROVE Sets!Find
  <2>1. label[pixel] = pixel
    BY <1>0, <1>4 DEF FindReturns, AtRoot, LabelInv, TypeOK
  <2> QED BY <1>0, <1>4, <2>1 DEF FindReturns, CallInv, Sets!Find
<1>5. ASSUME SameRoot PROVE Sets!Together
  <2>1. label[pixel] = pixel
    BY <1>0, <1>5 DEF SameRoot, AtRoot, LabelInv, TypeOK
  <2> QED BY <1>0, <1>5, <2>1 DEF SameRoot, CallInv, Sets!Together
<1>6. ASSUME Link PROVE Sets!Merge
  <2>1. /\ root1 \in PixelIDs /\ pixel \in PixelIDs /\ root1 # pixel
        /\ request.op = "union"
        /\ root1 = label[request.item1] /\ pixel = label[request.item2]
    BY <1>6, LinkFacts
  <2>2. \/ Greater(root1, pixel) = pixel /\ Lesser(root1, pixel) = root1
        \/ Greater(root1, pixel) = root1 /\ Lesser(root1, pixel) = pixel
    BY DEF Greater, Lesser
  <2>3. label' \in {Sets!Relabelled(root1, pixel), Sets!Relabelled(pixel, root1)}
    BY <1>6, <2>2 DEF Link, Merged, Sets!Relabelled
  <2> QED BY <1>6, <2>1, <2>3 DEF Link, Sets!Merge
<1>7. ASSUME UNCHANGED vars PROVE UNCHANGED Sets!vars
  BY <1>7 DEF vars, Sets!vars
<1> QED BY <1>1, <1>2, <1>3, <1>4, <1>5, <1>6, <1>7 DEF Next, Sets!Next

\* The raster of parents is a UnionFind: find answers the label of the set
\* of its item and union merges exactly the two sets it is given.
THEOREM RasterImplementsUnionFind == Spec => SetsSpec
BY UnionFindInvariant, InitRefines, StepRefines, PTL DEF Spec, SetsSpec, Sets!Spec

-----------------------------------------------------------------------------
(***************************************************************************)
(* The program that labels an image with it.                               *)
(***************************************************************************)
LEMMA NeighboursAreLater ==
  ASSUME NEW p \in PixelIDs
  PROVE  Right(p) \subseteq PixelIDs /\ Below(p) \subseteq PixelIDs
<1>1. /\ getX(p) \in Rows /\ getY(p) \in Columns /\ p = Width * getX(p) + getY(p)
      /\ Width \in Nat \ {0} /\ Height \in Nat \ {0}
  BY RowAndColumn, RasterAssumption
<1>2. ASSUME getY(p) + 1 < Width PROVE p + 1 \in PixelIDs
  <2>1. getY(p) + 1 \in Columns
    BY <1>1, <1>2 DEF Columns
  <2>2. getX(p) * Width + (getY(p) + 1) \in PixelIDs
    BY <1>1, <2>1, PixelAt
  <2>3. getX(p) * Width + (getY(p) + 1) = p + 1
    BY <1>1, SMT DEF Rows, Columns
  <2> QED BY <2>2, <2>3
<1>3. ASSUME getX(p) + 1 < Height PROVE p + Width \in PixelIDs
  <2>1. getX(p) + 1 \in Rows
    BY <1>1, <1>3 DEF Rows
  <2>2. (getX(p) + 1) * Width + getY(p) \in PixelIDs
    BY <1>1, <2>1, PixelAt
  <2>3. (getX(p) + 1) * Width + getY(p) = p + Width
    BY <1>1, SMT DEF Rows, Columns
  <2> QED BY <2>2, <2>3
<1> QED BY <1>2, <1>3 DEF Right, Below

\* The loops stay on the image.
OnImage == pos \in PixelIDs

\* The loops start at a pixel and go from pixel to pixel.
LEMMA LastIsAPixel == 0 \in PixelIDs /\ \A p \in PixelIDs : p # LastPixel => p + 1 \in PixelIDs
BY PixelCount, RasterAssumption DEF PixelIDs, LastPixel

\* A step of the pass is a step of union and find, or leaves the trees alone.
LEMMA StepCalls ==
  ASSUME OnImage, LabelNext
  PROVE  OnImage' /\ (Next \/ UNCHANGED vars)
<1>1. pos \in PixelIDs
  BY DEF OnImage
<1>2. ASSUME NEW N, N \subseteq PixelIDs, UnionIfSame(N)
      PROVE  Next \/ UNCHANGED vars
  BY <1>1, <1>2 DEF UnionIfSame, Next
<1>3. CASE UniteRight
  BY <1>1, <1>2, <1>3, NeighboursAreLater DEF UniteRight, OnImage
<1>4. CASE UniteBottom
  BY <1>1, <1>2, <1>4, NeighboursAreLater, LastIsAPixel DEF UniteBottom, OnImage
<1>5. CASE PrintLabel
  BY <1>1, <1>5, LastIsAPixel DEF PrintLabel, OnImage, Next
<1>6. CASE InUnionFind
  BY <1>1, <1>6 DEF InUnionFind, OnImage, Next, loops
<1> QED BY <1>3, <1>4, <1>5, <1>6 DEF LabelNext

\* Every run of the program is, for the trees, a run of calls of union and
\* find: the loops' indices never leave the image (ImageRegions.java:28-46).
THEOREM ProgramOnlyCalls == LabelSpec => Spec
<1>1. LabelInit => Init /\ OnImage
  BY LastIsAPixel DEF LabelInit, OnImage
<1>2. OnImage /\ [LabelNext]_<<vars, pixels, loops>> => OnImage' /\ [Next]_vars
  BY StepCalls DEF loops, OnImage
<1> QED BY <1>1, <1>2, PTL DEF LabelSpec, Spec

\* The trees of labelRegions keep the invariant of RasterUnionFind: find ends,
\* on the image, and count is the number of trees.
THEOREM LabellingKeepsForest == LabelSpec => []IInv
BY ProgramOnlyCalls, UnionFindInvariant, PTL

\* What labelRegions and printLabels see is the UnionFind interface.
THEOREM LabellingOverSets == LabelSpec => SetsSpec
BY ProgramOnlyCalls, RasterImplementsUnionFind, PTL

-----------------------------------------------------------------------------
(***************************************************************************)
(* Connected components.  Partition folds the edges in, one after another; *)
(* what it computes is known without recursion: the component of a node is *)
(* what lies in every set that has the node and that no edge leads out of. *)
(***************************************************************************)
Component(n, nodes, E) ==
  {m \in nodes : \A C \in SUBSET nodes : n \in C /\ NoneLeaves(C, E) => m \in C}
Parts(nodes, E) == {Component(n, nodes, E) : n \in nodes}
Ends(nodes) == [from : nodes, to : nodes]

\* No edge leads out of a component.
LEMMA ComponentClosed ==
  ASSUME NEW nodes, NEW E \in SUBSET Ends(nodes), NEW n \in nodes
  PROVE  /\ NoneLeaves(Component(n, nodes, E), E) /\ n \in Component(n, nodes, E)
         /\ Component(n, nodes, E) \subseteq nodes
<1>1. ASSUME NEW e \in E PROVE e.from \in Component(n, nodes, E) <=> e.to \in Component(n, nodes, E)
  <2>1. e.from \in nodes /\ e.to \in nodes
    BY DEF Ends
  <2> QED BY <2>1 DEF Component, NoneLeaves
<1> QED BY <1>1 DEF NoneLeaves, Component

\* And no less will do.
LEMMA ComponentLeast ==
  ASSUME NEW nodes, NEW E, NEW n \in nodes, NEW C \in SUBSET nodes, n \in C, NoneLeaves(C, E)
  PROVE  Component(n, nodes, E) \subseteq C
BY DEF Component

\* A node of a component has the same component.
LEMMA ComponentShared ==
  ASSUME NEW nodes, NEW E \in SUBSET Ends(nodes), NEW n \in nodes,
         NEW m \in Component(n, nodes, E)
  PROVE  Component(m, nodes, E) = Component(n, nodes, E)
<1> DEFINE cn == Component(n, nodes, E)
           cm == Component(m, nodes, E)
<1>1. /\ NoneLeaves(cn, E) /\ n \in cn /\ cn \subseteq nodes /\ m \in nodes
  BY ComponentClosed
<1>2. NoneLeaves(cm, E) /\ m \in cm /\ cm \subseteq nodes
  BY <1>1, ComponentClosed
<1>3. cm \subseteq cn
  BY <1>1, ComponentLeast
<1>4. NoneLeaves(cn \ cm, E) /\ cn \ cm \in SUBSET nodes
  BY <1>1, <1>2 DEF NoneLeaves
<1>5. n \in cm
  <2> SUFFICES ASSUME n \notin cm PROVE FALSE
    OBVIOUS
  <2>1. n \in cn \ cm
    BY <1>1
  <2>2. cn \subseteq cn \ cm
    BY <1>4, <2>1, ComponentLeast
  <2> QED BY <1>2, <2>2
<1>6. cn \subseteq cm
  BY <1>2, <1>5, ComponentLeast
<1> QED BY <1>3, <1>6

\* One edge more joins the components of its two ends, and no others.
LEMMA ComponentJoins ==
  ASSUME NEW nodes, NEW E \in SUBSET Ends(nodes), NEW e \in Ends(nodes), NEW n \in nodes
  PROVE  Component(n, nodes, E \cup {e}) =
           IF Component(n, nodes, E) \cap {e.from, e.to} # {}
           THEN Component(e.from, nodes, E) \cup Component(e.to, nodes, E)
           ELSE Component(n, nodes, E)
<1> DEFINE F == E \cup {e}
           cn == Component(n, nodes, E)
           a == Component(e.from, nodes, E)
           b == Component(e.to, nodes, E)
           more == Component(n, nodes, F)
<1>1. e.from \in nodes /\ e.to \in nodes /\ F \in SUBSET Ends(nodes)
  BY DEF Ends
<1>2. /\ NoneLeaves(cn, E) /\ n \in cn /\ cn \subseteq nodes
      /\ NoneLeaves(a, E) /\ e.from \in a /\ a \subseteq nodes
      /\ NoneLeaves(b, E) /\ e.to \in b /\ b \subseteq nodes
  BY <1>1, ComponentClosed
<1>3. NoneLeaves(more, F) /\ n \in more /\ more \subseteq nodes
  BY <1>1, ComponentClosed
<1>4. NoneLeaves(more, E) /\ (e.from \in more <=> e.to \in more)
  BY <1>3 DEF NoneLeaves
<1>5. cn \subseteq more
  BY <1>3, <1>4, ComponentLeast
<1>6. CASE cn \cap {e.from, e.to} # {}
  <2>1. cn = a \/ cn = b
    BY <1>1, <1>6, ComponentShared
  <2>2. e.from \in more /\ e.to \in more
    BY <1>4, <1>5, <1>6
  <2>3. a \cup b \subseteq more
    BY <1>1, <1>3, <1>4, <2>2, ComponentLeast
  <2>4. NoneLeaves(a \cup b, F) /\ n \in a \cup b /\ a \cup b \in SUBSET nodes
    BY <1>2, <2>1 DEF NoneLeaves
  <2>5. more \subseteq a \cup b
    BY <2>4, ComponentLeast
  <2> QED BY <1>6, <2>3, <2>5
<1>7. CASE cn \cap {e.from, e.to} = {}
  <2>1. NoneLeaves(cn, F)
    BY <1>2, <1>7 DEF NoneLeaves
  <2>2. more \subseteq cn
    BY <1>2, <2>1, ComponentLeast
  <2> QED BY <1>5, <1>7, <2>2
<1> QED BY <1>6, <1>7

\* What the fold does with an edge.
Absorbed(e, parts) == LET met == {P \in parts : P \cap {e.from, e.to} # {}}
                      IN  (parts \ met) \cup {UNION met}

\* It is what the edge does to the components.
LEMMA PartsAbsorb ==
  ASSUME NEW nodes, NEW E \in SUBSET Ends(nodes), NEW e \in Ends(nodes)
  PROVE  Parts(nodes, E \cup {e}) = Absorbed(e, Parts(nodes, E))
<1> DEFINE a == Component(e.from, nodes, E)
           b == Component(e.to, nodes, E)
           old == Parts(nodes, E)
           new == Parts(nodes, E \cup {e})
           met == {P \in old : P \cap {e.from, e.to} # {}}
<1>1. e.from \in nodes /\ e.to \in nodes /\ a \in old /\ b \in old
  BY DEF Ends, Parts
<1>2. e.from \in a /\ e.to \in b
  BY <1>1, ComponentClosed
<1>3. met = {a, b}
  <2>1. ASSUME NEW P \in met PROVE P \in {a, b}
    <3>1. PICK n \in nodes : P = Component(n, nodes, E)
      BY DEF Parts
    <3> QED BY <1>1, <3>1, ComponentShared
  <2> QED BY <1>1, <1>2, <2>1
<1>4. UNION met = a \cup b
  BY <1>3
<1>5. ASSUME NEW n \in nodes
      PROVE  Component(n, nodes, E \cup {e}) =
               IF Component(n, nodes, E) \in met THEN a \cup b ELSE Component(n, nodes, E)
  BY <1>5, ComponentJoins DEF Parts
<1>6. ASSUME NEW P \in new PROVE P \in (old \ met) \cup {a \cup b}
  BY <1>5 DEF Parts
<1>7. ASSUME NEW P \in (old \ met) \cup {a \cup b} PROVE P \in new
  <2>1. CASE P = a \cup b
    <3>1. Component(e.from, nodes, E \cup {e}) = a \cup b
      BY <1>1, <1>3, <1>5
    <3> QED BY <1>1, <2>1, <3>1 DEF Parts
  <2>2. CASE P \in old \ met
    BY <1>5, <2>2 DEF Parts
  <2> QED BY <2>1, <2>2
<1> HIDE DEF old, new, met
<1>8. new = (old \ met) \cup {UNION met}
  BY <1>4, <1>6, <1>7
<1> QED BY <1>8 DEF Absorbed, old, new, met

\* What Partition computes.
LEMMA PartitionIsParts ==
  ASSUME NEW nodes, NEW E \in SUBSET Ends(nodes), IsFiniteSet(E)
  PROVE  Partition(nodes, E) = Parts(nodes, E)
<1> DEFINE single == {{n} : n \in nodes}
           Fold(h) == [s \in SUBSET E |->
                         IF s = {} THEN single
                         ELSE LET x == CHOOSE x \in s : TRUE IN Absorbed(x, h[s \ {x}])]
           g == [s \in SUBSET E |-> Parts(nodes, s)]
<1>1. Parts(nodes, {}) = single
  <2>1. ASSUME NEW n \in nodes PROVE Component(n, nodes, {}) = {n}
    <3>1. NoneLeaves({n}, {}) /\ {n} \in SUBSET nodes
      BY DEF NoneLeaves
    <3>2. Component(n, nodes, {}) \subseteq {n}
      BY <3>1, ComponentLeast
    <3> QED BY <3>2 DEF Component
  <2> QED BY <2>1 DEF Parts
<1>2. ASSUME NEW s \in SUBSET E, s # {}, NEW x \in s
      PROVE  Parts(nodes, s) = Absorbed(x, Parts(nodes, s \ {x}))
  <2>1. s \ {x} \in SUBSET Ends(nodes) /\ x \in Ends(nodes) /\ (s \ {x}) \cup {x} = s
    OBVIOUS
  <2> QED BY <2>1, PartsAbsorb
<1>3. g = Fold(g)
  <2>1. ASSUME NEW s \in SUBSET E PROVE g[s] = Fold(g)[s]
    <3>1. CASE s = {} BY <1>1, <3>1
    <3>2. CASE s # {}
      <4>1. PICK x : x = CHOOSE y \in s : TRUE
        OBVIOUS
      <4>2. x \in s
        BY <3>2, <4>1
      <4>3. Parts(nodes, s) = Absorbed(x, Parts(nodes, s \ {x}))
        BY <3>2, <4>2, <1>2
      <4>4. s \ {x} \in SUBSET E /\ g[s \ {x}] = Parts(nodes, s \ {x})
        OBVIOUS
      <4> QED BY <3>2, <4>1, <4>3, <4>4
    <3> QED BY <3>1, <3>2
  <2> QED BY <2>1
<1> HIDE DEF single
<1>4. ASSUME NEW h, h = Fold(h) PROVE h = g
  <2> DEFINE wrong == {s \in SUBSET E : h[s] # g[s]}
  <2>1. wrong = {}
    <3> SUFFICES ASSUME wrong # {} PROVE FALSE
      OBVIOUS
    <3> DEFINE R == StrictSubsetOrdering(E)
    <3>1. IsWellFoundedOn(R, FiniteSubsetsOf(E))
      BY FS_StrictSubsetOrderingWellFounded
    <3>2. FiniteSubsetsOf(E) = SUBSET E
      BY FS_FiniteSubsetsOfFinite
    <3>3. PICK s \in wrong : \A t \in wrong : <<t, s>> \notin R
      <4> HIDE DEF R
      <4>1. wrong \subseteq FiniteSubsetsOf(E)
        BY <3>2
      <4> HIDE DEF wrong
      <4> QED BY <3>1, <4>1, WFMin
    <3>4. s # {}
      BY <1>1, <1>3, <1>4
    <3>5. PICK x : x = CHOOSE y \in s : TRUE
      OBVIOUS
    <3>6. x \in s
      BY <3>4, <3>5
    <3>7. <<s \ {x}, s>> \in R
      BY <3>6 DEF StrictSubsetOrdering
    <3>8. s \ {x} \in SUBSET E /\ h[s \ {x}] = g[s \ {x}]
      BY <3>3, <3>7
    <3>9. h[s] = Absorbed(x, h[s \ {x}]) /\ g[s] = Absorbed(x, g[s \ {x}])
      BY <1>3, <1>4, <3>4, <3>5
    <3> QED BY <3>8, <3>9
  <2> QED BY <1>4, <2>1
<1>5. Partition(nodes, E) = g[E]
  BY <1>3, <1>4 DEF Partition, FoldSet, MapThenFoldSet, Absorbed, single
<1> QED BY <1>5

-----------------------------------------------------------------------------
(***************************************************************************)
(* The label of a pixel is the solution of the recursion of find().        *)
(***************************************************************************)

\* Every set of natural numbers with a member has a least one.
LEMMA LeastNatural ==
  ASSUME NEW T \in SUBSET Nat, T # {}
  PROVE  \E x \in T : \A y \in T : x <= y
<1> DEFINE R == OpToRel(<, Nat)
<1>1. IsWellFoundedOn(R, Nat)
  BY NatLessThanWellFounded
<1>2. \A x, y \in Nat : x < y => <<x, y>> \in R
  BY DEF OpToRel
<1> HIDE DEF R
<1>3. PICK x \in T : \A y \in T : <<y, x>> \notin R
  BY <1>1, WFMin
<1>4. \A y \in T : ~ (y < x)
  BY <1>2, <1>3
<1> QED BY <1>3, <1>4

\* The label of a pixel is not above it.
LEMMA LabelDown ==
  ASSUME IInv, NEW p \in PixelIDs
  PROVE  label[p] <= p
<1> DEFINE above == {q \in PixelIDs : ~(label[q] <= q)}
<1>1. above = {}
  <2> SUFFICES ASSUME above # {} PROVE FALSE
    OBVIOUS
  <2>1. above \in SUBSET Nat
    BY DEF PixelIDs
  <2>2. PICK q \in above : \A r \in above : q <= r
    <3> HIDE DEF above
    <3> QED BY <2>1, LeastNatural
  <2>3. Parent(parentID, q) \in PixelIDs
    BY ParentType DEF IInv, TypeOK
  <2>4. /\ Parent(parentID, q) <= q /\ label[Parent(parentID, q)] = label[q]
        /\ Parent(parentID, q) = q => label[q] = q
    BY DEF IInv, Downhill, LabelInv
  <2>5. PICK r : r = Parent(parentID, q)
    OBVIOUS
  <2>6. q \in Int /\ r \in Int /\ label[q] \in Int
    BY <2>3, <2>5 DEF PixelIDs, IInv, TypeOK
  <2>7. r \in above
    BY <2>2, <2>3, <2>4, <2>5, <2>6
  <2> QED BY <2>2, <2>4, <2>5, <2>6, <2>7
<1> QED BY <1>1

\* find() returns the label, from wherever it starts.
LEMMA FindIsLabel ==
  ASSUME IInv, NEW p \in PixelIDs
  PROVE  find(parentID, p) = label[p]
<1> DEFINE Root(f) == [q \in PixelIDs |-> IF Parent(parentID, q) = q THEN q
                                          ELSE f[Parent(parentID, q)]]
<1>1. ASSUME NEW q \in PixelIDs
      PROVE  /\ Parent(parentID, q) \in PixelIDs /\ Parent(parentID, q) <= q
             /\ label[Parent(parentID, q)] = label[q]
             /\ Parent(parentID, q) = q => label[q] = q
  BY ParentType DEF IInv, TypeOK, Downhill, LabelInv
<1>2. label = Root(label)
  BY <1>1 DEF IInv, TypeOK
<1>3. ASSUME NEW f, f = Root(f) PROVE f = label
  <2> DEFINE wrong == {q \in PixelIDs : f[q] # label[q]}
  <2>1. wrong = {}
    <3> SUFFICES ASSUME wrong # {} PROVE FALSE
      OBVIOUS
    <3>1. wrong \in SUBSET Nat
      BY DEF PixelIDs
    <3>2. PICK q \in wrong : \A r \in wrong : q <= r
      <4> HIDE DEF wrong
      <4> QED BY <3>1, LeastNatural
    <3>3. PICK r : r = Parent(parentID, q)
      OBVIOUS
    <3>4. r \in PixelIDs /\ r <= q /\ label[r] = label[q] /\ (r = q => label[q] = q)
      BY <1>1, <3>3
    <3>5. f[q] = IF r = q THEN q ELSE f[r]
      BY <1>3, <3>3
    <3>6. r # q /\ r \in wrong
      BY <3>2, <3>4, <3>5
    <3> QED BY <3>2, <3>4, <3>6 DEF PixelIDs
  <2>2. f \in [PixelIDs -> {f[q] : q \in PixelIDs}]
    <3>1. f = [q \in PixelIDs |-> f[q]]
      BY <1>3
    <3> QED BY <3>1
  <2> QED BY <2>1, <2>2 DEF IInv, TypeOK
<1> QED BY <1>2, <1>3 DEF find

-----------------------------------------------------------------------------
(***************************************************************************)
(* The pass: which edges it has seen, and what each of its steps adds.     *)
(***************************************************************************)

\* The threshold, in the plain meaning of it.
LEMMA SameColour ==
  ASSUME LabelTypeOK, NEW p \in PixelIDs, NEW q \in PixelIDs
  PROVE  isSameColor(pixels[p], pixels[q]) <=> pixels[p] - pixels[q] \in -1 .. 1
<1>1. pixels[p] \in Colours /\ pixels[q] \in Colours
  BY DEF LabelTypeOK, Pixels
<1>2. pixels[p] \in Int /\ pixels[q] \in Int
  <2>1. \A colour \in Colours : colour \in 0 .. 255
    BY ColourAssumption DEF Shades
  <2> QED BY <1>1, <2>1
<1>3. PICK a, b : a = pixels[p] /\ b = pixels[q]
  OBVIOUS
<1>4. a \in Int /\ b \in Int
  BY <1>2, <1>3
<1>5. isSameColor(a, b) <=> a - b \in -1 .. 1
  BY <1>4 DEF isSameColor, distance, SIMILARITY_THRESHOLD
<1> QED BY <1>3, <1>5

\* An edge to a neighbour that looks alike.
Edge(p, q) == [from |-> p, to |-> q]
Alike(p, N) == {Edge(p, q) : q \in {q \in N : isSameColor(pixels[p], pixels[q])}}

\* What is known of the edges that have been seen.
LEMMA SeenMembers ==
  LabelTypeOK => \A e : e \in SeenEdges <=>
                    \E p \in PixelIDs, q \in PixelIDs : q \in Right(p) \cup Below(p) /\
                      e = Edge(p, q) /\ Seen(p, q) /\ isSameColor(pixels[p], pixels[q])
<1> SUFFICES ASSUME LabelTypeOK, NEW e
             PROVE  e \in SeenEdges <=>
                      \E p \in PixelIDs, q \in PixelIDs : q \in Right(p) \cup Below(p) /\
                        e = Edge(p, q) /\ Seen(p, q) /\ isSameColor(pixels[p], pixels[q])
  OBVIOUS
<1>1. ASSUME e \in SeenEdges
      PROVE  \E p \in PixelIDs, q \in PixelIDs : q \in Right(p) \cup Below(p) /\
               e = Edge(p, q) /\ Seen(p, q) /\ isSameColor(pixels[p], pixels[q])
  <2>1. /\ e.from \in PixelIDs /\ e.to \in PixelIDs /\ e = Edge(e.from, e.to)
        /\ e.to \in Right(e.from) \cup Below(e.from) /\ Seen(e.from, e.to)
        /\ pixels[e.from] - pixels[e.to] \in -1 .. 1
    BY <1>1 DEF SeenEdges, Edge
  <2>2. isSameColor(pixels[e.from], pixels[e.to])
    BY <2>1, SameColour
  <2> QED BY <2>1, <2>2
<1>2. ASSUME NEW p \in PixelIDs, NEW q \in Right(p) \cup Below(p),
             e = Edge(p, q), Seen(p, q), isSameColor(pixels[p], pixels[q])
      PROVE  e \in SeenEdges
  <2>1. q \in PixelIDs
    BY NeighboursAreLater
  <2>2. pixels[p] - pixels[q] \in -1 .. 1
    BY <1>2, <2>1, SameColour
  <2> QED BY <1>2, <2>1, <2>2 DEF SeenEdges, Edge
<1> QED BY <1>1, <1>2

\* And after a step.
LEMMA SeenMembersNext ==
  LabelTypeOK' => \A e : e \in SeenEdges' <=>
                     \E p \in PixelIDs, q \in PixelIDs : q \in Right(p) \cup Below(p) /\
                       e = Edge(p, q) /\ Seen(p, q)' /\ isSameColor(pixels'[p], pixels'[q])
<1>1. (LabelTypeOK => \A e : e \in SeenEdges <=>
                    \E p \in PixelIDs, q \in PixelIDs : q \in Right(p) \cup Below(p) /\
                      e = Edge(p, q) /\ Seen(p, q) /\ isSameColor(pixels[p], pixels[q]))'
  BY SeenMembers, PTL
<1> QED BY <1>1

\* The right neighbour and the one below are two.
LEMMA RightNotBelow ==
  ASSUME NEW p \in PixelIDs
  PROVE  /\ Right(p) \cap Below(p) = {}
         /\ \A q \in Right(p) : Right(p) = {q}
         /\ \A q \in Below(p) : Below(p) = {q}
<1>1. p \in Int /\ Width \in Nat /\ getY(p) \in Nat
  BY RowAndColumn, RasterAssumption DEF PixelIDs, Columns
<1> QED BY <1>1 DEF Right, Below

\* What a step of the pass adds to them.
LEMMA RightSeen ==
  ASSUME LabelTypeOK, LabelTypeOK', at = "right", at' = "bottom", UNCHANGED <<pixels, pos>>
  PROVE  /\ SeenEdges' = SeenEdges \cup Alike(pos, Right(pos))
         /\ SeenEdges \cap Alike(pos, Right(pos)) = {}
<1>1. pos \in PixelIDs
  BY DEF LabelTypeOK
<1>2. \A p \in PixelIDs, q \in PixelIDs :
        /\ Seen(p, q) <=> p < pos
        /\ Seen(p, q)' <=> p < pos \/ (p = pos /\ q \in Right(p))
  BY DEF Seen
<1>3. \A p \in PixelIDs : p = pos => ~(p < pos)
  BY DEF PixelIDs
<1>4. ASSUME NEW e PROVE e \in SeenEdges' <=> e \in SeenEdges \cup Alike(pos, Right(pos))
  <2>1. ASSUME e \in SeenEdges' PROVE e \in SeenEdges \cup Alike(pos, Right(pos))
    <3>1. PICK p \in PixelIDs, q \in PixelIDs : q \in Right(p) \cup Below(p) /\
            e = Edge(p, q) /\ Seen(p, q)' /\ isSameColor(pixels[p], pixels[q])
      BY <2>1, SeenMembersNext
    <3>2. q \in PixelIDs
      BY NeighboursAreLater
    <3>3. CASE Seen(p, q)
      BY <3>1, <3>3, SeenMembers
    <3>4. CASE p = pos /\ q \in Right(p)
      BY <3>1, <3>4 DEF Alike
    <3> QED BY <1>2, <3>1, <3>2, <3>3, <3>4
  <2>2. ASSUME e \in SeenEdges PROVE e \in SeenEdges'
    <3>1. PICK p \in PixelIDs, q \in PixelIDs : q \in Right(p) \cup Below(p) /\
            e = Edge(p, q) /\ Seen(p, q) /\ isSameColor(pixels[p], pixels[q])
      BY <2>2, SeenMembers
    <3>2. q \in PixelIDs
      BY NeighboursAreLater
    <3> QED BY <1>2, <3>1, <3>2, SeenMembersNext
  <2>3. ASSUME e \in Alike(pos, Right(pos)) PROVE e \in SeenEdges'
    <3>1. PICK q \in Right(pos) : e = Edge(pos, q) /\ isSameColor(pixels[pos], pixels[q])
      BY <2>3 DEF Alike
    <3>2. q \in PixelIDs
      BY <1>1, NeighboursAreLater
    <3> QED BY <1>1, <1>2, <3>1, <3>2, SeenMembersNext
  <2> QED BY <2>1, <2>2, <2>3
<1>5. ASSUME NEW e \in SeenEdges PROVE e \notin Alike(pos, Right(pos))
  <2>1. PICK p \in PixelIDs, q \in PixelIDs :
          q \in Right(p) \cup Below(p) /\ e = Edge(p, q) /\ Seen(p, q)
    BY <1>5, SeenMembers
  <2>2. q \in PixelIDs /\ e.from = p
    BY <2>1, NeighboursAreLater DEF Edge
  <2>3. e.from # pos
    BY <1>2, <1>3, <2>1, <2>2
  <2> QED BY <2>3 DEF Alike, Edge
<1> QED BY <1>4, <1>5

\* And what its other half does.
LEMMA BottomSeen ==
  ASSUME LabelTypeOK, LabelTypeOK', at = "bottom", UNCHANGED pixels,
         at' = IF pos = LastPixel THEN "print" ELSE "right",
         pos' = IF pos = LastPixel THEN 0 ELSE pos + 1
  PROVE  /\ SeenEdges' = SeenEdges \cup Alike(pos, Below(pos))
         /\ SeenEdges \cap Alike(pos, Below(pos)) = {}
<1>1. pos \in PixelIDs
  BY DEF LabelTypeOK
<1>2. \A p \in PixelIDs, q \in PixelIDs :
        /\ Seen(p, q) <=> p < pos \/ (p = pos /\ q \in Right(p))
        /\ Seen(p, q)' <=> p <= pos
  <2>1. \A p \in PixelIDs : p <= LastPixel /\ p \in Int
    BY PixelCount, RasterAssumption DEF PixelIDs, LastPixel
  <2> QED BY <1>1, <2>1 DEF Seen
<1>3. \A p \in PixelIDs : (p <= pos <=> p < pos \/ p = pos) /\ (p = pos => ~(p < pos))
  BY <1>1 DEF PixelIDs
<1>4. ASSUME NEW e PROVE e \in SeenEdges' <=> e \in SeenEdges \cup Alike(pos, Below(pos))
  <2>1. ASSUME e \in SeenEdges' PROVE e \in SeenEdges \cup Alike(pos, Below(pos))
    <3>1. PICK p \in PixelIDs, q \in PixelIDs : q \in Right(p) \cup Below(p) /\
            e = Edge(p, q) /\ Seen(p, q)' /\ isSameColor(pixels[p], pixels[q])
      BY <2>1, SeenMembersNext
    <3>2. q \in PixelIDs
      BY NeighboursAreLater
    <3>3. CASE Seen(p, q)
      BY <3>1, <3>3, SeenMembers
    <3>4. CASE p = pos /\ q \in Below(p)
      BY <3>1, <3>4 DEF Alike
    <3> QED BY <1>2, <1>3, <3>1, <3>2, <3>3, <3>4
  <2>2. ASSUME e \in SeenEdges PROVE e \in SeenEdges'
    <3>1. PICK p \in PixelIDs, q \in PixelIDs : q \in Right(p) \cup Below(p) /\
            e = Edge(p, q) /\ Seen(p, q) /\ isSameColor(pixels[p], pixels[q])
      BY <2>2, SeenMembers
    <3>2. q \in PixelIDs
      BY NeighboursAreLater
    <3> QED BY <1>2, <1>3, <3>1, <3>2, SeenMembersNext
  <2>3. ASSUME e \in Alike(pos, Below(pos)) PROVE e \in SeenEdges'
    <3>1. PICK q \in Below(pos) : e = Edge(pos, q) /\ isSameColor(pixels[pos], pixels[q])
      BY <2>3 DEF Alike
    <3>2. q \in PixelIDs
      BY <1>1, NeighboursAreLater
    <3> QED BY <1>1, <1>2, <1>3, <3>1, <3>2, SeenMembersNext
  <2> QED BY <2>1, <2>2, <2>3
<1>5. ASSUME NEW e \in SeenEdges PROVE e \notin Alike(pos, Below(pos))
  <2>1. PICK p \in PixelIDs, q \in PixelIDs :
          q \in Right(p) \cup Below(p) /\ e = Edge(p, q) /\ Seen(p, q)
    BY <1>5, SeenMembers
  <2>2. q \in PixelIDs /\ e.from = p
    BY <2>1, NeighboursAreLater DEF Edge
  <2>3. e.from # pos \/ q \notin Below(pos)
    BY <1>1, <1>2, <1>3, <2>1, <2>2, RightNotBelow
  <2> QED BY <2>1, <2>3 DEF Alike, Edge
<1> QED BY <1>4, <1>5

-----------------------------------------------------------------------------
(***************************************************************************)
(* What the steps do to the labels of the seen edges.                      *)
(***************************************************************************)

\* Edges and labels as they were.
LEMMA EdgeStill ==
  ASSUME EdgeInv, label' = label, United' = United, pc' \in {"find1", "find2"} => InUnion' # {}
  PROVE  EdgeInv'
BY DEF EdgeInv

\* A call of the pass, or none, and the edge it is about.
LEMMA CallPreserves ==
  ASSUME PassIInv, NEW N \in SUBSET PixelIDs, \A q \in N : N = {q}, UnionIfSame(N),
         SeenEdges' = SeenEdges \cup Alike(pos, N), SeenEdges \cap Alike(pos, N) = {}
  PROVE  EdgeInv'
<1>1. EdgeInv
  BY DEF PassIInv
<1>2. pc = "ready" /\ label' = label
  BY DEF UnionIfSame, CallUnion, vars
<1>3. United = SeenEdges
  BY <1>2 DEF United, InUnion
<1>4. CASE \E q \in N : isSameColor(pixels[pos], pixels[q]) /\ CallUnion(pos, q)
  <2>1. PICK q \in N : isSameColor(pixels[pos], pixels[q]) /\ CallUnion(pos, q)
    BY <1>4
  <2>2. Alike(pos, N) = {Edge(pos, q)} /\ Edge(pos, q) \in SeenEdges'
    BY <2>1 DEF Alike
  <2>3. pc' = "find1" /\ request'.item1 = pos /\ request'.item2 = q
    BY <2>1 DEF CallUnion
  <2>4. InUnion' = {Edge(pos, q)}
    <3>1. ASSUME NEW e \in InUnion' PROVE e = Edge(pos, q)
      <4>1. e \in SeenEdges' /\ e.from = pos /\ e.to = q
        BY <2>3 DEF InUnion
      <4>2. e \in [from : PixelIDs, to : PixelIDs]
        BY <4>1 DEF SeenEdges
      <4> QED BY <4>1, <4>2 DEF Edge
    <3>2. Edge(pos, q) \in InUnion'
      BY <2>2, <2>3 DEF InUnion, Edge
    <3> QED BY <3>1, <3>2
  <2>5. United' = SeenEdges' \ {Edge(pos, q)}
    BY <2>4 DEF United
  <2>6. United' = United
    BY <1>3, <2>2, <2>5
  <2> QED BY <1>1, <1>2, <2>4, <2>6, EdgeStill
<1>5. CASE UNCHANGED vars /\ \A q \in N : ~isSameColor(pixels[pos], pixels[q])
  <2>1. Alike(pos, N) = {} /\ pc' = "ready"
    BY <1>2, <1>5 DEF Alike, vars
  <2>2. United' = SeenEdges'
    BY <2>1 DEF United, InUnion
  <2>3. United' = United
    BY <1>3, <2>1, <2>2
  <2> QED BY <1>1, <1>2, <2>1, <2>3, EdgeStill
<1> QED BY <1>4, <1>5 DEF UnionIfSame

\* The edge of the union under way.
LEMMA TheEdge ==
  ASSUME IInv, EdgeInv, pc \in {"find1", "find2"}
  PROVE  \E e \in SeenEdges : /\ InUnion = {e} /\ e.from = request.item1 /\ e.to = request.item2
                              /\ e.from \in PixelIDs /\ e.to \in PixelIDs
<1>1. PICK e \in InUnion : TRUE
  BY DEF EdgeInv
<1>2. /\ e \in SeenEdges /\ e.from = request.item1 /\ e.to = request.item2
      /\ e.from \in PixelIDs /\ e.to \in PixelIDs
  BY <1>1 DEF InUnion, SeenEdges
<1>3. ASSUME NEW f \in InUnion PROVE f = e
  <2>1. f.from = e.from /\ f.to = e.to
    BY <1>2, <1>3 DEF InUnion
  <2>2. f \in [from : PixelIDs, to : PixelIDs] /\ e \in [from : PixelIDs, to : PixelIDs]
    BY <1>1, <1>3 DEF InUnion, SeenEdges
  <2> QED BY <2>1, <2>2
<1> QED BY <1>1, <1>2, <1>3

\* The steps of a call that link nothing.
LEMMA ClimbEdges ==
  ASSUME IInv, PassIInv, Climb \/ FindReturns \/ FirstRoot \/ SameRoot, UNCHANGED <<pixels, loops>>
  PROVE  EdgeInv'
<1>1. EdgeInv /\ SeenEdges' = SeenEdges /\ label' = label
  <2>1. UNCHANGED <<pixels, at, pos>>
    BY DEF loops
  <2> QED BY <2>1 DEF PassIInv, SeenEdges, Seen, Climb, FindReturns, FirstRoot, SameRoot
<1>2. CASE Climb \/ FirstRoot
  <2>1. request' = request /\ pc' \in {"find1", "find2"} <=> pc \in {"find1", "find2"}
    BY <1>2 DEF Climb, FirstRoot
  <2>2. InUnion' = InUnion
    BY <1>1, <1>2, <2>1 DEF InUnion, Climb, FirstRoot
  <2>3. United' = United
    BY <1>1, <2>2 DEF United
  <2> QED BY <1>1, <1>2, <2>2, <2>3, EdgeStill DEF EdgeInv, Climb, FirstRoot
<1>3. CASE FindReturns
  <2>1. pc' = "ready" /\ InUnion' = {} /\ InUnion = {}
    BY <1>3 DEF FindReturns, InUnion
  <2>2. United' = United
    BY <1>1, <2>1 DEF United
  <2> QED BY <1>1, <2>1, <2>2, EdgeStill
<1>4. CASE SameRoot
  <2>1. PICK e \in SeenEdges : /\ InUnion = {e} /\ e.from = request.item1 /\ e.to = request.item2
                               /\ e.from \in PixelIDs /\ e.to \in PixelIDs
    BY <1>1, <1>4, TheEdge DEF SameRoot
  <2>2. label[e.from] = label[e.to]
    BY <1>4, <2>1 DEF SameRoot, AtRoot, IInv, TypeOK, LabelInv, CallInv
  <2>3. pc' = "ready" /\ United' = SeenEdges
    BY <1>1, <1>4 DEF SameRoot, United, InUnion
  <2>4. United' = United \cup {e}
    BY <2>1, <2>3 DEF United
  <2>5. \A C : NoneLeaves(C, United') => NoneLeaves(C, United)
    BY <2>4 DEF NoneLeaves
  <2> QED BY <1>1, <2>2, <2>3, <2>4, <2>5 DEF EdgeInv
<1> QED BY <1>2, <1>3, <1>4

\* Linking two roots joins the labels of the two ends of the edge.
LEMMA LinkEdges ==
  ASSUME IInv, PassIInv, Link, UNCHANGED <<pixels, loops>>
  PROVE  EdgeInv'
<1>1. EdgeInv /\ SeenEdges' = SeenEdges
  <2>1. UNCHANGED <<pixels, at, pos>>
    BY DEF loops
  <2> QED BY <2>1 DEF PassIInv, SeenEdges, Seen
<1>2. PICK e \in SeenEdges : /\ InUnion = {e} /\ e.from = request.item1 /\ e.to = request.item2
                             /\ e.from \in PixelIDs /\ e.to \in PixelIDs
  BY <1>1, TheEdge DEF Link
<1>3. root1 = label[e.from] /\ pixel = label[e.to] /\ root1 # pixel
      /\ root1 \in PixelIDs /\ pixel \in PixelIDs /\ label \in [PixelIDs -> PixelIDs]
  BY <1>2, LinkFacts DEF IInv, TypeOK
<1>4. pc' = "ready" /\ United' = SeenEdges
  BY <1>1 DEF Link, United, InUnion
<1>5. United' = United \cup {e}
  BY <1>2, <1>4 DEF United
<1>6. PICK g, l : /\ {g, l} = {root1, pixel} /\ g # l
                  /\ label' = [p \in PixelIDs |-> IF label[p] = g THEN l ELSE label[p]]
  <2>1. {Lesser(root1, pixel), Greater(root1, pixel)} = {root1, pixel}
        /\ Lesser(root1, pixel) # Greater(root1, pixel)
    BY <1>3 DEF Lesser, Greater
  <2> QED BY <2>1 DEF Link, Merged
<1>7. ASSUME NEW f \in United' PROVE label'[f.from] = label'[f.to]
  <2>1. f.from \in PixelIDs /\ f.to \in PixelIDs
    BY <1>4, <1>7 DEF SeenEdges
  <2>2. CASE f = e
    BY <1>2, <1>3, <1>6, <2>2
  <2>3. CASE f \in United
    BY <1>1, <1>6, <2>1, <2>3 DEF EdgeInv
  <2> QED BY <1>5, <2>2, <2>3
<1>8. ASSUME NEW C \in SUBSET PixelIDs, NoneLeaves(C, United'),
             NEW p \in C, NEW q \in PixelIDs, label'[q] = label'[p]
      PROVE  q \in C
  <2>1. NoneLeaves(C, United) /\ (e.from \in C <=> e.to \in C)
    BY <1>5, <1>8 DEF NoneLeaves
  <2>2. ASSUME NEW r \in C, NEW s \in PixelIDs, label[s] = label[r] PROVE s \in C
    BY <1>1, <2>1, <2>2 DEF EdgeInv
  <2>3. CASE label[q] = label[p]
    BY <2>2, <2>3
  <2>4. CASE label[q] # label[p]
    <3>1. label[p] \in {root1, pixel} /\ label[q] \in {root1, pixel}
      BY <1>6, <1>8, <2>4
    <3>2. e.from \in C /\ e.to \in C
      BY <1>2, <1>3, <2>1, <2>2, <3>1
    <3> QED BY <1>3, <2>2, <3>1, <3>2
  <2> QED BY <2>3, <2>4
<1> QED BY <1>4, <1>7, <1>8 DEF EdgeInv

-----------------------------------------------------------------------------
(***************************************************************************)
(* What the pass promises.                                                 *)
(***************************************************************************)

\* There are finitely many edges.
LEMMA EdgesFinite ==
  ASSUME NEW E \in SUBSET Ends(PixelIDs)
  PROVE  IsFiniteSet(E)
<1> DEFINE pair == [e \in E |-> <<e.from, e.to>>]
<1>1. IsFiniteSet(PixelIDs \X PixelIDs)
  BY PixelCount, FS_Product
<1>2. pair \in Injection(E, PixelIDs \X PixelIDs)
  <2>1. \A e \in E : e \in Ends(PixelIDs)
    OBVIOUS
  <2>2. pair \in [E -> PixelIDs \X PixelIDs]
    BY <2>1 DEF Ends
  <2>3. ASSUME NEW e \in E, NEW f \in E, pair[e] = pair[f] PROVE e = f
    BY <2>1, <2>3 DEF Ends
  <2> HIDE DEF pair
  <2> QED BY <2>2, <2>3 DEF Injection, IsInjective
<1> HIDE DEF pair
<1> QED BY <1>1, <1>2, FS_Injection

\* Between two calls the region of a pixel is what has its label.
LEMMA RegionIsLabel ==
  ASSUME IInv, PassIInv, pc = "ready"
  PROVE  /\ Regions = {Component(p, PixelIDs, SeenEdges) : p \in PixelIDs}
         /\ \A p \in PixelIDs :
              Component(p, PixelIDs, SeenEdges) = {q \in PixelIDs : label[q] = label[p]}
<1>1. SeenEdges \in SUBSET Ends(PixelIDs) /\ United = SeenEdges /\ EdgeInv
  BY DEF SeenEdges, Ends, United, InUnion, PassIInv
<1>2. Regions = {Component(p, PixelIDs, SeenEdges) : p \in PixelIDs}
  BY <1>1, EdgesFinite, PartitionIsParts DEF Regions, Parts
<1>3. ASSUME NEW p \in PixelIDs
      PROVE  Component(p, PixelIDs, SeenEdges) = {q \in PixelIDs : label[q] = label[p]}
  <2> DEFINE own == {q \in PixelIDs : label[q] = label[p]}
             cp == Component(p, PixelIDs, SeenEdges)
  <2>1. NoneLeaves(own, SeenEdges)
    <3>1. ASSUME NEW e \in SeenEdges
          PROVE  /\ e.from \in PixelIDs /\ e.to \in PixelIDs
                 /\ label[e.from] = label[e.to]
      BY <1>1 DEF EdgeInv, Ends
    <3> QED BY <3>1 DEF NoneLeaves
  <2>2. cp \subseteq own
    BY <2>1, ComponentLeast
  <2>3. NoneLeaves(cp, United) /\ p \in cp /\ cp \in SUBSET PixelIDs
    BY <1>1, ComponentClosed
  <2>4. own \subseteq cp
    <3> HIDE DEF cp
    <3> QED BY <1>1, <2>3 DEF EdgeInv
  <2> QED BY <2>2, <2>4
<1> QED BY <1>2, <1>3

\* The invariant says what the pass promises.
LEMMA PassIInvPass == IInv /\ PassIInv => PassInv
<1> SUFFICES ASSUME IInv, PassIInv PROVE PassInv
  OBVIOUS
<1>1. RegionsLabelled
  <2> SUFFICES ASSUME pc = "ready", NEW R \in Regions
               PROVE  \E first \in R : \A p \in R : first <= p /\ find(parentID, p) = first
    BY DEF RegionsLabelled
  <2>1. PICK p \in PixelIDs : R = {q \in PixelIDs : label[q] = label[p]}
    BY RegionIsLabel
  <2>2. label[p] \in PixelIDs /\ label[label[p]] = label[p]
    BY DEF IInv, TypeOK, LabelInv
  <2>3. label[p] \in R
    BY <2>1, <2>2
  <2>4. ASSUME NEW q \in R PROVE label[p] <= q /\ find(parentID, q) = label[p]
    BY <2>1, LabelDown, FindIsLabel
  <2> QED BY <2>3, <2>4
<1>2. CountIsRegions
  <2> SUFFICES ASSUME pc = "ready" PROVE count = Cardinality(Regions)
    BY DEF CountIsRegions
  <2> DEFINE of == [r \in Roots |-> {q \in PixelIDs : label[q] = r}]
  <2>1. \A r \in Roots : r \in PixelIDs /\ label[r] = r
    BY DEF Roots, IInv, LabelInv
  <2>2. of \in [Roots -> Regions]
    <3> SUFFICES ASSUME NEW r \in Roots PROVE {q \in PixelIDs : label[q] = r} \in Regions
      OBVIOUS
    <3> QED BY <2>1, RegionIsLabel
  <2>3. ASSUME NEW r \in Roots, NEW s \in Roots, of[r] = of[s] PROVE r = s
    <3>1. r \in of[r] /\ s \in of[s]
      BY <2>1
    <3> QED BY <2>1, <2>3, <3>1
  <2>4. ASSUME NEW R \in Regions PROVE \E r \in Roots : of[r] = R
    <3>1. PICK p \in PixelIDs : R = {q \in PixelIDs : label[q] = label[p]}
      BY RegionIsLabel
    <3>2. label[p] \in Roots
      BY DEF IInv, TypeOK, LabelInv, Roots
    <3> QED BY <3>1, <3>2
  <2> HIDE DEF of
  <2>5. of \in Bijection(Roots, Regions)
    BY <2>2, <2>3, <2>4 DEF Bijection, Injection, Surjection, IsInjective
  <2>6. IsFiniteSet(Roots)
    BY PixelCount, FS_Subset DEF Roots
  <2>7. Cardinality(Regions) = Cardinality(Roots)
    BY <2>5, <2>6, FS_Bijection DEF ExistsBijection
  <2> QED BY <2>7 DEF IInv, CountIsRoots
<1> QED BY <1>1, <1>2 DEF PassInv, PassIInv

\* At first no edge has been seen.
LEMMA InitPassIInv == LabelInit => PassIInv
<1> SUFFICES ASSUME LabelInit PROVE PassIInv
  OBVIOUS
<1>1. LabelTypeOK
  BY LastIsAPixel DEF LabelInit, LabelTypeOK
<1>2. SeenEdges = {}
  <2>1. \A p \in PixelIDs : ~(p < 0)
    BY DEF PixelIDs
  <2> QED BY <2>1 DEF SeenEdges, Seen, LabelInit
<1>3. EdgeInv
  BY <1>2 DEF EdgeInv, United, InUnion, LabelInit, Init
<1> QED BY <1>1, <1>3 DEF PassIInv

\* Every step of the program keeps the invariant.
LEMMA PassPreserved ==
  ASSUME IInv, PassIInv, [LabelNext]_<<vars, pixels, loops>>
  PROVE  PassIInv'
<1>1. LabelTypeOK'
  <2>1. OnImage' /\ pixels' = pixels /\ at' \in {"right", "bottom", "print", "done"}
    <3>1. CASE LabelNext
      BY <3>1, StepCalls
         DEF PassIInv, LabelTypeOK, OnImage, LabelNext, UniteRight, UniteBottom, PrintLabel,
             InUnionFind, loops
    <3>2. CASE UNCHANGED <<vars, pixels, loops>>
      BY <3>2 DEF PassIInv, LabelTypeOK, OnImage, loops
    <3> QED BY <3>1, <3>2
  <2> QED BY <2>1 DEF PassIInv, LabelTypeOK, OnImage
<1>2. LabelTypeOK /\ EdgeInv /\ pos \in PixelIDs
  BY DEF PassIInv, LabelTypeOK
<1>3. CASE UniteRight
  <2>1. /\ SeenEdges' = SeenEdges \cup Alike(pos, Right(pos))
        /\ SeenEdges \cap Alike(pos, Right(pos)) = {}
    BY <1>1, <1>2, <1>3, RightSeen DEF UniteRight
  <2>2. Right(pos) \in SUBSET PixelIDs /\ \A q \in Right(pos) : Right(pos) = {q}
    BY <1>2, NeighboursAreLater, RightNotBelow
  <2>3. EdgeInv'
    BY <1>3, <2>1, <2>2, CallPreserves DEF UniteRight
  <2> QED BY <1>1, <2>3 DEF PassIInv
<1>4. CASE UniteBottom
  <2>1. /\ SeenEdges' = SeenEdges \cup Alike(pos, Below(pos))
        /\ SeenEdges \cap Alike(pos, Below(pos)) = {}
    BY <1>1, <1>2, <1>4, BottomSeen DEF UniteBottom
  <2>2. Below(pos) \in SUBSET PixelIDs /\ \A q \in Below(pos) : Below(pos) = {q}
    BY <1>2, NeighboursAreLater, RightNotBelow
  <2>3. EdgeInv'
    BY <1>4, <2>1, <2>2, CallPreserves DEF UniteBottom
  <2> QED BY <1>1, <2>3 DEF PassIInv
<1>5. CASE PrintLabel
  <2>1. SeenEdges' = SeenEdges
    BY <1>5 DEF PrintLabel, SeenEdges, Seen
  <2>2. pc' = "find" /\ pc = "ready" /\ label' = label
    BY <1>5 DEF PrintLabel, CallFind
  <2>3. United' = United
    BY <2>1, <2>2 DEF United, InUnion
  <2> QED BY <1>1, <1>2, <2>2, <2>3, EdgeStill DEF PassIInv
<1>6. CASE InUnionFind
  BY <1>1, <1>6, ClimbEdges, LinkEdges DEF InUnionFind, PassIInv
<1>7. CASE UNCHANGED <<vars, pixels, loops>>
  <2>1. SeenEdges' = SeenEdges /\ InUnion' = InUnion /\ United' = United
    BY <1>7 DEF loops, vars, SeenEdges, Seen, InUnion, United
  <2>2. EdgeInv'
    BY <1>2, <1>7, <2>1, EdgeStill DEF vars, EdgeInv
  <2> QED BY <1>1, <2>2 DEF PassIInv
<1> QED BY <1>3, <1>4, <1>5, <1>6, <1>7 DEF LabelNext

\* On an image of any size and any colours, wherever the pass has got to: two
\* pixels have one label exactly when a chain of similar neighbours seen so far
\* joins them, it is the first pixel of the region, find returns it, and count()
\* is the number of regions (ImageRegions.java:25-47, RasterUnionFind.java).
THEOREM LabellingPass == LabelSpec => []PassInv
<1>1. LabelInit => IInv /\ PassIInv
  BY InitIInv, InitPassIInv DEF LabelInit
<1>2. IInv /\ PassIInv /\ [LabelNext]_<<vars, pixels, loops>> => (IInv /\ PassIInv)'
  <2> SUFFICES ASSUME IInv, PassIInv, [LabelNext]_<<vars, pixels, loops>>
               PROVE  (IInv /\ PassIInv)'
    OBVIOUS
  <2>1. Next \/ UNCHANGED vars
    BY StepCalls DEF PassIInv, LabelTypeOK, OnImage
  <2>2. IInv'
    BY <2>1, ClimbPreserves, LinkPreserves, StutterPreserves DEF Next
  <2> QED BY <2>2, PassPreserved
<1>3. IInv /\ PassIInv => PassInv
  BY PassIInvPass
<1> QED BY <1>1, <1>2, <1>3, PTL DEF LabelSpec

-----------------------------------------------------------------------------
(***************************************************************************)
(* The grid.                                                               *)
(***************************************************************************)
\* One row up.
LEMMA OneRowLess ==
  ASSUME NEW i \in Int, NEW w \in Int
  PROVE  (i - 1) * w = w * i - w /\ w * i \in Int
OBVIOUS

\* The neighbours of a pixel are other pixels, one of them before it if any is.
LEMMA NeighboursArePixels ==
  ASSUME NEW p \in PixelIDs
  PROVE  /\ Neighbours(p) \in SUBSET PixelIDs
         /\ p \notin Neighbours(p)
         /\ p # 0 => \E q \in Neighbours(p) : q < p
<1>1. /\ getX(p) \in Rows /\ getY(p) \in Columns /\ p = Width * getX(p) + getY(p)
      /\ Width \in Nat \ {0} /\ Height \in Nat \ {0} /\ p \in Nat
  BY RowAndColumn, RasterAssumption DEF PixelIDs
<1>2. ASSUME getY(p) > 0 PROVE p - 1 \in PixelIDs
  <2>1. getY(p) - 1 \in Columns
    BY <1>1, <1>2 DEF Columns
  <2>2. getX(p) * Width + (getY(p) - 1) \in PixelIDs
    BY <1>1, <2>1, PixelAt
  <2>3. getX(p) * Width + (getY(p) - 1) = p - 1
    BY <1>1, SMT DEF Rows, Columns
  <2> QED BY <2>2, <2>3
<1>3. ASSUME getX(p) > 0 PROVE p - Width \in PixelIDs
  <2>1. getX(p) - 1 \in Rows
    BY <1>1, <1>3 DEF Rows
  <2>2. (getX(p) - 1) * Width + getY(p) \in PixelIDs
    BY <1>1, <2>1, PixelAt
  <2>3. (getX(p) - 1) * Width + getY(p) = p - Width
    <3>1. getX(p) \in Int /\ getY(p) \in Int /\ Width \in Int
      BY <1>1 DEF Rows, Columns
    <3>2. (getX(p) - 1) * Width = Width * getX(p) - Width /\ Width * getX(p) \in Int
      BY <3>1, OneRowLess
    <3>3. p = Width * getX(p) + getY(p)
      BY <1>1
    <3> DEFINE m == Width * getX(p)
    <3>4. m \in Int /\ p = m + getY(p) /\ (getX(p) - 1) * Width = m - Width
      BY <3>2, <3>3
    <3> HIDE DEF m
    <3> QED BY <3>1, <3>4
  <2> QED BY <2>2, <2>3
<1>4. Right(p) \subseteq PixelIDs /\ Below(p) \subseteq PixelIDs
  BY NeighboursAreLater
<1>5. Neighbours(p) \in SUBSET PixelIDs
  <2>1. Left(p) \subseteq PixelIDs
    BY <1>1, <1>2 DEF Left
  <2>2. Above(p) \subseteq PixelIDs
    BY <1>1, <1>3 DEF Above
  <2> QED BY <1>4, <2>1, <2>2 DEF Neighbours
<1>6. p \notin Neighbours(p)
  <2>1. p \in Int /\ Width \in Nat \ {0}
    BY <1>1
  <2> QED BY <2>1 DEF Neighbours, Left, Above, Right, Below
<1>7. ASSUME p # 0 PROVE \E q \in Neighbours(p) : q < p
  <2>1. getY(p) \in Nat /\ getX(p) \in Nat
    BY <1>1 DEF Rows, Columns
  <2>2. CASE getY(p) > 0
    <3>1. p - 1 \in Neighbours(p) /\ p - 1 < p
      BY <1>1, <2>2 DEF Neighbours, Left
    <3> QED BY <3>1
  <2>3. CASE getX(p) > 0
    <3>1. p - Width \in Neighbours(p) /\ p - Width < p
      BY <1>1, <2>3 DEF Neighbours, Above
    <3> QED BY <3>1
  <2>4. CASE getX(p) = 0 /\ getY(p) = 0
    BY <1>1, <1>7, <2>4
  <2> QED BY <2>1, <2>2, <2>3, <2>4
<1> QED BY <1>5, <1>6, <1>7

\* The grid is connected: what is the same across every edge is the same everywhere.
LEMMA GridConnected ==
  ASSUME NEW f, \A p \in PixelIDs : \A q \in Neighbours(p) : f[q] = f[p]
  PROVE  \A p \in PixelIDs : f[p] = f[0]
<1> DEFINE odd == {p \in PixelIDs : f[p] # f[0]}
<1> SUFFICES ASSUME odd # {} PROVE FALSE
  OBVIOUS
<1>1. odd \in SUBSET Nat
  BY DEF PixelIDs
<1>2. PICK p \in odd : \A q \in odd : p <= q
  <2> HIDE DEF odd
  <2> QED BY <1>1, LeastNatural
<1>3. p \in PixelIDs /\ p # 0 /\ p \in Nat
  BY <1>1
<1>4. PICK q \in Neighbours(p) : q < p
  BY <1>3, NeighboursArePixels
<1>5. q \in PixelIDs /\ q \in Nat
  BY <1>3, NeighboursArePixels DEF PixelIDs
<1>6. q \in odd
  BY <1>3, <1>4, <1>5
<1> QED BY <1>2, <1>3, <1>4, <1>5, <1>6

-----------------------------------------------------------------------------
(***************************************************************************)
(* A union.                                                                *)
(***************************************************************************)
\* The labels in use.
Labels == {region[p] : p \in PixelIDs}

\* The labels in use are finitely many.
LEMMA LabelsFinite ==
  ASSUME region \in [PixelIDs -> PixelIDs]
  PROVE  Labels \in SUBSET PixelIDs /\ IsFiniteSet(Labels) /\ Cardinality(Labels) \in Nat
<1>1. Labels \in SUBSET PixelIDs
  BY DEF Labels
<1> QED BY <1>1, PixelCount, FS_Subset, FS_CardinalityType

\* What a union that merges does to regions and labels.
LEMMA MergeRegions ==
  ASSUME region \in [PixelIDs -> PixelIDs], RegionInv,
         NEW a \in PixelIDs, NEW b \in PixelIDs, region[a] # region[b],
         region' = [p \in PixelIDs |-> IF region[p] = Greater(region[a], region[b])
                                       THEN Lesser(region[a], region[b]) ELSE region[p]]
  PROVE  \E g, l : /\ {g, l} = {region[a], region[b]} /\ g # l
                   /\ region' = [p \in PixelIDs |-> IF region[p] = g THEN l ELSE region[p]]
                   /\ region[g] = g /\ region[l] = l /\ g \in PixelIDs /\ l \in PixelIDs
                   /\ Labels' = Labels \ {g} /\ g \in Labels
<1>1. region[a] \in PixelIDs /\ region[b] \in PixelIDs
  OBVIOUS
<1>2. PICK g, l : g = Greater(region[a], region[b]) /\ l = Lesser(region[a], region[b])
  OBVIOUS
<1>3. {g, l} = {region[a], region[b]} /\ g # l
  BY <1>2, LesserGreater
<1>4. region' = [p \in PixelIDs |-> IF region[p] = g THEN l ELSE region[p]]
  BY <1>2
<1>5. region[g] = g /\ region[l] = l /\ g \in PixelIDs /\ l \in PixelIDs
  BY <1>1, <1>3 DEF RegionInv
<1>6. Labels' = Labels \ {g} /\ g \in Labels
  <2>1. g \in Labels /\ l \in Labels
    BY <1>5 DEF Labels
  <2>2. Labels' = {region'[p] : p \in PixelIDs}
    BY DEF Labels
  <2>3. ASSUME NEW x \in Labels' PROVE x \in Labels \ {g}
    <3>1. PICK p \in PixelIDs : x = region'[p]
      BY <2>2
    <3> QED BY <1>3, <1>4, <2>1, <3>1 DEF Labels
  <2>4. ASSUME NEW x \in Labels \ {g} PROVE x \in Labels'
    <3>1. PICK p \in PixelIDs : x = region[p] /\ x # g
      BY DEF Labels
    <3> QED BY <1>4, <2>2, <3>1
  <2> QED BY <2>1, <2>3, <2>4
<1> QED BY <1>3, <1>4, <1>5, <1>6

\* A union keeps to what regions are.
LEMMA UnionKeeps ==
  ASSUME region \in [PixelIDs -> PixelIDs], RegionInv, regionCount \in 1 .. Width * Height,
         joined \subseteq Edges, NEW e \in Edges, union(e)
  PROVE  /\ region' \in [PixelIDs -> PixelIDs] /\ RegionInv'
         /\ regionCount' \in 1 .. Width * Height /\ joined' \subseteq Edges
         /\ joined \subseteq joined' /\ joined' \subseteq joined \cup {e}
         /\ region[e.from] # region[e.to] =>
              regionCount' = regionCount - 1 /\ joined' = joined \cup {e}
         /\ region[e.from] = region[e.to] => UNCHANGED <<region, regionCount, joined>>
         /\ region'[e.from] = region'[e.to]
<1>1. e.from \in PixelIDs /\ e.to \in PixelIDs /\ Width * Height \in Nat
  BY RasterAssumption, SMT DEF Edges
<1>2. CASE region[e.from] = region[e.to]
  <2>1. UNCHANGED <<region, regionCount, joined>>
    BY <1>2 DEF union
  <2>2. RegionInv'
    BY <2>1 DEF RegionInv
  <2> QED BY <1>2, <2>1, <2>2
<1>3. CASE region[e.from] # region[e.to]
  <2>1. /\ region' = [p \in PixelIDs |->
                        IF region[p] = Greater(region[e.from], region[e.to])
                        THEN Lesser(region[e.from], region[e.to]) ELSE region[p]]
        /\ regionCount' = regionCount - 1 /\ joined' = joined \cup {e}
    BY <1>3 DEF union
  <2>2. PICK g, l : /\ {g, l} = {region[e.from], region[e.to]} /\ g # l
                    /\ region' = [p \in PixelIDs |-> IF region[p] = g THEN l ELSE region[p]]
                    /\ region[g] = g /\ region[l] = l /\ g \in PixelIDs /\ l \in PixelIDs
                    /\ Labels' = Labels \ {g} /\ g \in Labels
    BY <1>1, <1>3, <2>1, MergeRegions
  <2>3. region' \in [PixelIDs -> PixelIDs]
    BY <2>2
  <2>4. ASSUME NEW f \in joined' PROVE region'[f.from] = region'[f.to]
    <3>1. f.from \in PixelIDs /\ f.to \in PixelIDs
      BY <2>1 DEF Edges
    <3>2. CASE f = e
      BY <1>1, <2>2, <3>2
    <3>3. CASE f \in joined
      BY <2>2, <3>1, <3>3 DEF RegionInv
    <3> QED BY <2>1, <3>2, <3>3
  <2>5. ASSUME NEW C \in SUBSET PixelIDs, NoneLeaves(C, joined'),
               NEW p \in C, NEW q \in PixelIDs, region'[q] = region'[p]
        PROVE  q \in C
    <3>1. NoneLeaves(C, joined) /\ (e.from \in C <=> e.to \in C)
      BY <2>1, <2>5 DEF NoneLeaves
    <3>2. ASSUME NEW r \in C, NEW s \in PixelIDs, region[s] = region[r] PROVE s \in C
      BY <3>1, <3>2 DEF RegionInv
    <3>3. CASE region[q] = region[p]
      BY <3>2, <3>3
    <3>4. CASE region[q] # region[p]
      <4>1. region[p] \in {g, l} /\ region[q] \in {g, l}
        BY <2>2, <2>5, <3>4
      <4>2. e.from \in C /\ e.to \in C
        BY <1>1, <2>2, <3>1, <3>2, <4>1
      <4> QED BY <2>2, <3>2, <4>1, <4>2
    <3> QED BY <3>3, <3>4
  <2>6. ASSUME NEW p \in PixelIDs PROVE region'[region'[p]] = region'[p]
    <3>1. region[p] \in PixelIDs /\ region[region[p]] = region[p]
      BY DEF RegionInv
    <3> QED BY <2>2, <3>1
  <2>7. regionCount' = Cardinality(Labels') /\ Cardinality(Labels') \in Nat
    <3>1. regionCount = Cardinality(Labels)
      BY DEF RegionInv, Labels
    <3>2. IsFiniteSet(Labels)
      BY LabelsFinite
    <3>3. Cardinality(Labels \ {g}) = Cardinality(Labels) - 1 /\ IsFiniteSet(Labels \ {g})
      BY <2>2, <3>2, FS_RemoveElement
    <3> QED BY <2>1, <2>2, <3>1, <3>3, FS_CardinalityType
  <2>8. regionCount' # 0
    <3>1. IsFiniteSet(Labels')
      BY <2>2, LabelsFinite, FS_RemoveElement
    <3>2. region'[0] \in Labels'
      BY PixelCount DEF Labels
    <3> QED BY <2>7, <3>1, <3>2, FS_EmptySet
  <2>9. regionCount' + Cardinality(joined') = Width * Height
    <3>1. e \notin joined
      BY <1>3 DEF RegionInv
    <3>2. Edges \subseteq Ends(PixelIDs)
      BY DEF Edges, Ends
    <3>3. IsFiniteSet(joined)
      BY <3>2, EdgesFinite
    <3>4. Cardinality(joined') = Cardinality(joined) + 1 /\ Cardinality(joined) \in Nat
      BY <2>1, <3>1, <3>3, FS_AddElement, FS_CardinalityType
    <3> QED BY <2>1, <3>4 DEF RegionInv
  <2>10. RegionInv'
    BY <2>4, <2>5, <2>6, <2>7, <2>9 DEF RegionInv, Labels
  <2>11. regionCount' \in 1 .. Width * Height
    BY <1>1, <2>1, <2>7, <2>8
  <2>12. region'[e.from] = region'[e.to]
    BY <1>1, <2>2
  <2> QED BY <1>3, <2>1, <2>3, <2>10, <2>11, <2>12
<1> QED BY <1>2, <1>3


-----------------------------------------------------------------------------
(***************************************************************************)
(* The steps of the program.                                               *)
(***************************************************************************)
\* A weight is a number, the same in both directions.
LEMMA WeightType ==
  ASSUME pixels \in Images, NEW e \in Edges
  PROVE  /\ e.from \in PixelIDs /\ e.to \in PixelIDs /\ pixels[e.from] \in Shades
         /\ Weight(e) \in Nat /\ Weight(e) = distance(pixels[e.from], pixels[e.to])
<1>1. e.from \in PixelIDs /\ e.to \in PixelIDs
  BY DEF Edges
<1>2. pixels[e.from] \in Shades /\ pixels[e.to] \in Shades
  BY <1>1, ImageAssumption
<1>3. ASSUME NEW a \in Shades, NEW b \in Shades PROVE distance(a, b) \in Nat
  BY DEF distance, Shades
<1> QED BY <1>1, <1>2, <1>3 DEF Weight

\* The edges of a pixel are edges, known by their ends.
LEMMA EdgesOfPixel ==
  ASSUME NEW p \in PixelIDs
  PROVE  /\ EdgesOf(p) \in SUBSET Edges
         /\ \A e \in EdgesOf(p) : e.from = p /\ e.to \in Neighbours(p)
         /\ \A q \in Neighbours(p) : [from |-> p, to |-> q] \in EdgesOf(p)
BY NeighboursArePixels DEF EdgesOf, Edges

\* The next pixel, or the first one and the next loop.
LEMMA AdvanceFacts ==
  ASSUME pos \in PixelIDs, NEW following, Advance(following)
  PROVE  /\ pos' \in PixelIDs
         /\ \/ /\ phase' = phase
               /\ \A p \in PixelIDs : p < pos' <=> p < pos \/ p = pos
            \/ /\ phase' = following /\ pos' = 0
               /\ \A p \in PixelIDs : p < pos \/ p = pos
<1>1. 0 \in PixelIDs /\ Width * Height \in Int /\ pos \in Int
  BY PixelCount, RasterAssumption, SMT DEF PixelIDs
<1>2. CASE pos + 1 \in PixelIDs
  <2>1. pos' = pos + 1 /\ phase' = phase
    BY <1>2 DEF Advance
  <2> QED BY <1>1, <1>2, <2>1 DEF PixelIDs
<1>3. CASE pos + 1 \notin PixelIDs
  <2>1. pos' = 0 /\ phase' = following
    BY <1>3 DEF Advance
  <2>2. pos = Width * Height - 1
    BY <1>1, <1>3 DEF PixelIDs
  <2> QED BY <1>1, <2>1, <2>2 DEF PixelIDs
<1> QED BY <1>2, <1>3

\* The first loop.
LEMMA ConnectKeeps == KruskalIInv /\ connectToNeighbors => KruskalIInv'
<1> SUFFICES ASSUME KruskalIInv, connectToNeighbors PROVE KruskalIInv'
  OBVIOUS
<1>1. /\ KruskalTypeOK /\ RegionInv /\ QueueInv /\ StopInv /\ PaintInv
      /\ phase = "connect" /\ edges' = edges \cup EdgesOf(pos) /\ Advance("poll")
      /\ UNCHANGED <<pixels, image, numberOfDesiredRegions, region, regionCount, colors, joined>>
  BY DEF KruskalIInv, connectToNeighbors
<1>2. pos \in PixelIDs /\ joined = {}
  BY <1>1 DEF KruskalTypeOK, QueueInv
<1>3. /\ pos' \in PixelIDs
      /\ \/ /\ phase' = "connect"
            /\ \A p \in PixelIDs : p < pos' <=> p < pos \/ p = pos
         \/ /\ phase' = "poll" /\ pos' = 0
            /\ \A p \in PixelIDs : p < pos \/ p = pos
  BY <1>1, <1>2, AdvanceFacts
<1>4. EdgesOf(pos) \in SUBSET Edges /\ \A e \in EdgesOf(pos) : e.to \in Neighbours(e.from)
  BY <1>2, EdgesOfPixel
<1>5. KruskalTypeOK'
  BY <1>1, <1>3, <1>4 DEF KruskalTypeOK
<1>6. RegionInv'
  BY <1>1 DEF RegionInv
<1>7. QueueInv'
  <2>1. \A p \in PixelIDs : p < pos \/ p = pos => EdgesOf(p) \subseteq edges'
    BY <1>1 DEF QueueInv
  <2>2. joined' = {} /\ phase' \in {"connect", "poll"}
    BY <1>1, <1>2, <1>3
  <2>3. \A e \in edges' \cup joined' : e.to \in Neighbours(e.from)
    BY <1>1, <1>4 DEF QueueInv
  <2>4. phase' = "connect" => \A p \in PixelIDs : p < pos' => EdgesOf(p) \subseteq edges'
    BY <1>3, <2>1
  <2>5. phase' # "connect" => \A p \in PixelIDs : EdgesOf(p) \ edges' = {}
    BY <1>3, <2>1
  <2> QED BY <2>2, <2>3, <2>4, <2>5 DEF QueueInv
<1>8. StopInv'
  BY <1>1, <1>3 DEF StopInv
<1>9. PaintInv'
  BY <1>1, <1>3 DEF PaintInv
<1> QED BY <1>5, <1>6, <1>7, <1>8, <1>9 DEF KruskalIInv

\* An edge that leaves the queue leaves it in order.
LEMMA QueueKeeps ==
  ASSUME KruskalIInv, phase = "poll", phase' # "connect", UNCHANGED pixels,
         NEW e \in edges, Lightest(e), edges' = edges \ {e}, union(e)
  PROVE  QueueInv'
<1>1. KruskalTypeOK /\ RegionInv /\ QueueInv /\ e \in Edges
  BY DEF KruskalIInv, KruskalTypeOK
<1>2. /\ region' \in [PixelIDs -> PixelIDs] /\ RegionInv'
      /\ joined \subseteq joined' /\ joined' \subseteq joined \cup {e}
      /\ region'[e.from] = region'[e.to] /\ joined' \subseteq Edges
  BY <1>1, UnionKeeps DEF KruskalTypeOK
<1>3. \A f : Weight(f)' = Weight(f)
  BY DEF Weight
<1>4. \A f \in joined' : Weight(f) <= Weight(e)
  <2>1. Weight(e) \in Nat
    BY <1>1, WeightType DEF KruskalTypeOK
  <2> QED BY <1>1, <1>2, <2>1 DEF QueueInv
<1>5. \A f \in edges' \cup joined' : f.to \in Neighbours(f.from)
  BY <1>1, <1>2 DEF QueueInv
<1>6. ASSUME NEW f \in joined', NEW g \in edges' PROVE Weight(f)' <= Weight(g)'
  <2>1. Weight(f) <= Weight(e) /\ Weight(e) <= Weight(g)
    BY <1>4 DEF Lightest
  <2>2. f \in Edges /\ g \in Edges
    BY <1>1, <1>2 DEF KruskalTypeOK
  <2>3. Weight(f) \in Nat /\ Weight(e) \in Nat /\ Weight(g) \in Nat
    BY <1>1, <2>2, WeightType DEF KruskalTypeOK
  <2> QED BY <1>3, <2>1, <2>3
<1>7. ASSUME NEW p \in PixelIDs, NEW f \in EdgesOf(p) \ edges', NEW C \in SUBSET PixelIDs,
             NoneLeaves(C, JoinedBy(Weight(f))')
      PROVE  f.from \in C <=> f.to \in C
  <2>1. JoinedBy(Weight(f))' = {g \in joined' : Weight(g) <= Weight(f)}
    BY <1>3 DEF JoinedBy
  <2>2. CASE f \notin edges
    <3>1. JoinedBy(Weight(f)) \subseteq JoinedBy(Weight(f))'
      BY <1>2, <2>1 DEF JoinedBy
    <3>2. NoneLeaves(C, JoinedBy(Weight(f)))
      BY <1>7, <3>1 DEF NoneLeaves
    <3> QED BY <1>1, <2>2, <3>2 DEF QueueInv
  <2>3. CASE f = e
    <3>1. JoinedBy(Weight(f))' = joined'
      BY <1>4, <2>1, <2>3
    <3>2. NoneLeaves(C, joined')
      BY <1>7, <3>1
    <3>3. \A r \in C : \A s \in PixelIDs : region'[s] = region'[r] => s \in C
      BY <1>2, <3>2 DEF RegionInv
    <3>4. f.from \in PixelIDs /\ f.to \in PixelIDs
      BY <1>1, <2>3 DEF Edges
    <3> QED BY <1>2, <2>3, <3>3, <3>4
  <2> QED BY <2>2, <2>3
<1> QED BY <1>3, <1>5, <1>6, <1>7 DEF QueueInv

\* Neighbours are in two regions only while the edge between them is in the queue.
LEMMA PolledTogether ==
  ASSUME KruskalIInv, phase # "connect", NEW p \in PixelIDs, NEW e \in EdgesOf(p), e \notin edges
  PROVE  region[e.from] = region[e.to]
<1> DEFINE own == {q \in PixelIDs : region[q] = region[e.from]}
<1>1. e \in Edges /\ e.from \in PixelIDs /\ e.to \in PixelIDs
  BY EdgesOfPixel DEF Edges
<1>2. ASSUME NEW f \in joined PROVE f.from \in own <=> f.to \in own
  <2>1. f.from \in PixelIDs /\ f.to \in PixelIDs
    BY DEF KruskalIInv, KruskalTypeOK, Edges
  <2> QED BY <2>1 DEF KruskalIInv, RegionInv
<1>3. NoneLeaves(own, JoinedBy(Weight(e))) /\ own \in SUBSET PixelIDs
  BY <1>2 DEF NoneLeaves, JoinedBy
<1>4. e.from \in own
  BY <1>1
<1>5. e.to \in own
  <2> HIDE DEF own
  <2> QED BY <1>3, <1>4 DEF KruskalIInv, QueueInv
<1> QED BY <1>5

\* With the queue empty there is one region.
LEMMA DrainedOne ==
  ASSUME KruskalIInv, phase # "connect", edges = {}
  PROVE  regionCount = 1
<1>1. ASSUME NEW p \in PixelIDs, NEW q \in Neighbours(p) PROVE region[q] = region[p]
  <2>1. [from |-> p, to |-> q] \in EdgesOf(p)
    BY EdgesOfPixel
  <2>2. PICK e : e = [from |-> p, to |-> q]
    OBVIOUS
  <2>3. region[e.from] = region[e.to]
    BY <2>1, <2>2, PolledTogether
  <2> QED BY <2>2, <2>3
<1>2. \A p \in PixelIDs : region[p] = region[0]
  BY <1>1, GridConnected
<1>3. Labels = {region[0]}
  BY <1>2, PixelCount DEF Labels
<1> QED BY <1>3, FS_Singleton DEF KruskalIInv, RegionInv, Labels

\* With no edge joined every pixel is a region, so that the next edge joins two.
LEMMA FirstJoins ==
  ASSUME KruskalIInv, NEW e \in edges, regionCount = Width * Height
  PROVE  region[e.from] # region[e.to]
<1>1. e \in Edges /\ e.to \in Neighbours(e.from) /\ joined \subseteq Edges
  BY DEF KruskalIInv, KruskalTypeOK, QueueInv
<1>2. e.from \in PixelIDs /\ e.to \in PixelIDs
  BY <1>1 DEF Edges
<1>3. joined = {}
  <2>1. joined \in SUBSET Ends(PixelIDs)
    BY <1>1 DEF Edges, Ends
  <2>2. IsFiniteSet(joined)
    BY <2>1, EdgesFinite
  <2>3. Cardinality(joined) = 0
    BY <2>2, FS_CardinalityType, RasterAssumption, SMT DEF KruskalIInv, RegionInv
  <2> QED BY <2>2, <2>3, FS_EmptySet
<1>4. NoneLeaves({e.from}, joined) /\ {e.from} \in SUBSET PixelIDs
  BY <1>2, <1>3 DEF NoneLeaves
<1>5. \A p \in {e.from} : \A q \in PixelIDs : region[q] = region[p] => q \in {e.from}
  BY <1>4 DEF KruskalIInv, RegionInv
<1>6. e.to # e.from
  BY <1>1, <1>2, NeighboursArePixels
<1> QED BY <1>2, <1>5, <1>6


\* The loop of kruskal().
LEMMA PollKeeps == KruskalIInv /\ Poll => KruskalIInv'
<1> SUFFICES ASSUME KruskalIInv, Poll PROVE KruskalIInv'
  OBVIOUS
<1>1. /\ KruskalTypeOK /\ RegionInv /\ QueueInv /\ StopInv /\ PaintInv /\ phase = "poll"
      /\ phase' = IF regionCount' = numberOfDesiredRegions THEN "assign" ELSE "poll"
      /\ UNCHANGED <<pixels, image, numberOfDesiredRegions, colors, pos>>
  BY DEF KruskalIInv, Poll
<1>2. PICK e \in edges : Lightest(e) /\ edges' = edges \ {e} /\ union(e)
  BY DEF Poll
<1>3. e \in Edges
  BY <1>1 DEF KruskalTypeOK
<1>4. /\ region' \in [PixelIDs -> PixelIDs] /\ RegionInv'
      /\ regionCount' \in 1 .. Width * Height /\ joined' \subseteq Edges
      /\ region[e.from] # region[e.to] => regionCount' = regionCount - 1
      /\ region[e.from] = region[e.to] => regionCount' = regionCount
  BY <1>1, <1>2, <1>3, UnionKeeps DEF KruskalTypeOK
<1>5. KruskalTypeOK'
  BY <1>1, <1>2, <1>4 DEF KruskalTypeOK
<1>6. QueueInv'
  BY <1>1, <1>2, QueueKeeps
<1>7. StopInv'
  <2>1. PICK n, size, c, d : /\ n = numberOfDesiredRegions /\ size = Width * Height
                             /\ c = regionCount /\ d = regionCount'
    OBVIOUS
  <2>2. n \in Nat /\ size \in Nat /\ c \in 1 .. size /\ d \in 1 .. size /\ d \in {c, c - 1}
    BY <1>1, <1>4, <2>1, DesiredAssumption, RasterAssumption, SMT DEF KruskalTypeOK
  <2>3. c = size => d = c - 1
    BY <1>2, <1>4, <2>1, FirstJoins
  <2>4. n \in 1 .. size - 1 => c > n
    BY <1>1, <2>1 DEF StopInv
  <2>5. CASE d = n
    <3>1. d = IF n \in 1 .. size - 1 THEN n ELSE 1
      BY <2>2, <2>3, <2>5
    <3>2. phase' = "assign"
      BY <1>1, <2>1, <2>5
    <3>3. RegionsAtEnd'
      BY <1>1, <2>1, <3>1 DEF RegionsAtEnd
    <3> QED BY <3>2, <3>3 DEF StopInv
  <2>6. CASE d # n
    <3>1. n \in 1 .. size - 1 => d > n
      BY <2>2, <2>4, <2>6
    <3>2. phase' = "poll"
      BY <1>1, <2>1, <2>6
    <3> QED BY <1>1, <2>1, <3>1, <3>2 DEF StopInv
  <2> QED BY <2>5, <2>6
<1>8. PaintInv'
  <2>1. DOMAIN colors' = {} /\ pos' = 0 /\ phase' \in {"poll", "assign"}
    BY <1>1 DEF PaintInv
  <2>2. \A p \in PixelIDs : ~(p < 0)
    BY DEF PixelIDs
  <2> QED BY <2>1, <2>2 DEF PaintInv
<1> QED BY <1>4, <1>5, <1>6, <1>7, <1>8 DEF KruskalIInv

\* Its end, with no edge left.
LEMMA DrainedKeeps == KruskalIInv /\ Drained => KruskalIInv'
<1> SUFFICES ASSUME KruskalIInv, Drained PROVE KruskalIInv'
  OBVIOUS
<1>1. /\ KruskalTypeOK /\ RegionInv /\ QueueInv /\ StopInv /\ PaintInv
      /\ phase = "poll" /\ edges = {} /\ phase' = "assign"
      /\ UNCHANGED <<pixels, image, numberOfDesiredRegions, edges, region, regionCount, colors,
                     pos, joined>>
  BY DEF KruskalIInv, Drained
<1>2. KruskalTypeOK'
  BY <1>1 DEF KruskalTypeOK
<1>3. RegionInv'
  BY <1>1 DEF RegionInv
<1>4. QueueInv'
  <2>1. \A e : Weight(e)' = Weight(e)
    BY <1>1 DEF Weight
  <2>2. \A w : JoinedBy(w)' = JoinedBy(w)
    BY <1>1, <2>1 DEF JoinedBy
  <2> QED BY <1>1, <2>1, <2>2 DEF QueueInv
<1>5. StopInv'
  <2>1. regionCount = 1
    BY <1>1, DrainedOne
  <2>2. numberOfDesiredRegions \notin 1 .. Width * Height - 1
    <3>1. numberOfDesiredRegions \in Nat
      BY <1>1, DesiredAssumption DEF KruskalTypeOK
    <3>2. numberOfDesiredRegions \in 1 .. Width * Height - 1 => 1 > numberOfDesiredRegions
      BY <1>1, <2>1 DEF StopInv
    <3> QED BY <3>1, <3>2
  <2> QED BY <1>1, <2>1, <2>2 DEF StopInv, RegionsAtEnd
<1>6. PaintInv'
  <2>1. DOMAIN colors' = {} /\ pos' = 0 /\ phase' = "assign"
    BY <1>1 DEF PaintInv
  <2>2. \A p \in PixelIDs : ~(p < 0)
    BY DEF PixelIDs
  <2> QED BY <2>1, <2>2 DEF PaintInv
<1> QED BY <1>2, <1>3, <1>4, <1>5, <1>6 DEF KruskalIInv

\* The loops that paint leave the regions alone.
LEMMA RegionsStay ==
  ASSUME KruskalIInv, phase \in {"assign", "recolor"},
         phase' \in {"assign", "recolor", "done"},
         UNCHANGED <<pixels, numberOfDesiredRegions, edges, region, regionCount, joined>>
  PROVE  RegionInv' /\ QueueInv' /\ StopInv'
<1>1. RegionInv /\ QueueInv /\ StopInv
  BY DEF KruskalIInv
<1>2. RegionInv'
  BY <1>1 DEF RegionInv
<1>3. QueueInv'
  <2>1. \A e : Weight(e)' = Weight(e)
    BY DEF Weight
  <2>2. \A w : JoinedBy(w)' = JoinedBy(w)
    BY <2>1 DEF JoinedBy
  <2> QED BY <1>1, <2>1, <2>2 DEF QueueInv
<1>4. StopInv'
  BY <1>1 DEF StopInv, RegionsAtEnd
<1> QED BY <1>2, <1>3, <1>4

\* The colour that comes of two lies between them.
LEMMA AverageBetween ==
  ASSUME NEW a \in Shades, NEW b \in Shades
  PROVE  /\ average(a, b) \in Shades
         /\ a <= average(a, b) \/ b <= average(a, b)
         /\ a >= average(a, b) \/ b >= average(a, b)
BY DEF average, Shades

\* And so no pixel need be looked for that was not there before.
LEMMA AverageBounded ==
  ASSUME NEW a \in Shades, NEW b \in Shades, NEW n \in Shades, NEW x \in Shades
  PROVE  /\ x <= a /\ (a <= n \/ b <= n) => x <= n \/ b <= n
         /\ x >= a /\ (a >= n \/ b >= n) => x >= n \/ b >= n
BY DEF Shades

\* The loop of assignColorToEachRegion().
LEMMA AssignKeeps == KruskalIInv /\ assignColor => KruskalIInv'
<1> SUFFICES ASSUME KruskalIInv, assignColor PROVE KruskalIInv'
  OBVIOUS
<1>1. /\ KruskalTypeOK /\ PaintInv /\ phase = "assign" /\ Advance("recolor")
      /\ UNCHANGED <<pixels, image, numberOfDesiredRegions, edges, region, regionCount, joined>>
  BY DEF KruskalIInv, assignColor
<1>2. pos \in PixelIDs /\ pixels[pos] \in Shades /\ region[pos] \in PixelIDs
  BY <1>1, ImageAssumption DEF KruskalTypeOK
<1>3. /\ pos' \in PixelIDs
      /\ \/ /\ phase' = "assign"
            /\ \A p \in PixelIDs : p < pos' <=> p < pos \/ p = pos
         \/ /\ phase' = "recolor" /\ pos' = 0
            /\ \A p \in PixelIDs : p < pos \/ p = pos
  BY <1>1, <1>2, AdvanceFacts
<1>4. PICK l : l = region[pos]
  OBVIOUS
<1>5. /\ DOMAIN colors' = DOMAIN colors \cup {l}
      /\ \A m \in DOMAIN colors : m # l => colors'[m] = colors[m]
      /\ colors'[l] = IF l \in DOMAIN colors THEN average(colors[l], pixels[pos])
                      ELSE pixels[pos]
  BY <1>4 DEF assignColor, put
<1>6. /\ colors'[l] \in Shades
      /\ \E q \in PixelIDs : region[q] = l /\ pixels[q] <= colors'[l]
      /\ \E q \in PixelIDs : region[q] = l /\ pixels[q] >= colors'[l]
  <2>1. CASE l \notin DOMAIN colors
    <3>1. colors'[l] = pixels[pos] /\ pixels[pos] <= pixels[pos] /\ pixels[pos] >= pixels[pos]
      BY <1>2, <1>5, <2>1 DEF Shades
    <3> QED BY <1>2, <1>4, <3>1
  <2>2. CASE l \in DOMAIN colors
    <3>1. PICK new : new = average(colors[l], pixels[pos])
      OBVIOUS
    <3>2. colors'[l] = new
      BY <1>5, <2>2, <3>1
    <3>3. colors[l] \in Shades
      BY <1>1, <2>2 DEF KruskalTypeOK
    <3>4. /\ new \in Shades
          /\ colors[l] <= new \/ pixels[pos] <= new
          /\ colors[l] >= new \/ pixels[pos] >= new
      BY <1>2, <3>1, <3>3, AverageBetween
    <3>5. PICK q \in PixelIDs : region[q] = l /\ pixels[q] <= colors[l]
      BY <1>1, <2>2 DEF PaintInv
    <3>6. PICK r \in PixelIDs : region[r] = l /\ pixels[r] >= colors[l]
      BY <1>1, <2>2 DEF PaintInv
    <3>7. pixels[q] \in Shades /\ pixels[r] \in Shades
      BY <1>1, ImageAssumption DEF KruskalTypeOK
    <3>8. pixels[q] <= new \/ pixels[pos] <= new
      BY <1>2, <3>3, <3>4, <3>5, <3>7, AverageBounded
    <3>9. pixels[r] >= new \/ pixels[pos] >= new
      BY <1>2, <3>3, <3>4, <3>6, <3>7, AverageBounded
    <3> QED BY <1>2, <1>4, <3>2, <3>4, <3>5, <3>6, <3>8, <3>9
  <2> QED BY <2>1, <2>2
<1>7. KruskalTypeOK'
  <2>1. DOMAIN colors' \subseteq PixelIDs
    BY <1>1, <1>2, <1>4, <1>5 DEF KruskalTypeOK
  <2>2. \A m \in DOMAIN colors' : colors'[m] \in Shades
    BY <1>1, <1>5, <1>6 DEF KruskalTypeOK
  <2> QED BY <1>1, <1>3, <2>1, <2>2 DEF KruskalTypeOK
<1>8. PaintInv'
  <2>1. ASSUME NEW m \in DOMAIN colors'
        PROVE  /\ \E q \in PixelIDs : region'[q] = m /\ pixels'[q] <= colors'[m]
               /\ \E q \in PixelIDs : region'[q] = m /\ pixels'[q] >= colors'[m]
    <3>1. CASE m = l
      BY <1>1, <1>6, <3>1
    <3>2. CASE m # l
      BY <1>1, <1>5, <2>1, <3>2 DEF PaintInv
    <3> QED BY <3>1, <3>2
  <2>2. ASSUME NEW p \in PixelIDs, p < pos \/ p = pos PROVE region'[p] \in DOMAIN colors'
    BY <1>1, <1>4, <1>5, <2>2 DEF PaintInv
  <2>3. \A p \in PixelIDs : ~(p < 0)
    BY DEF PixelIDs
  <2> QED BY <1>3, <2>1, <2>2, <2>3 DEF PaintInv
<1> QED BY <1>1, <1>3, <1>7, <1>8, RegionsStay DEF KruskalIInv

\* The loop of reColor().
LEMMA RecolorKeeps == KruskalIInv /\ reColor => KruskalIInv'
<1> SUFFICES ASSUME KruskalIInv, reColor PROVE KruskalIInv'
  OBVIOUS
<1>1. /\ KruskalTypeOK /\ PaintInv /\ phase = "recolor" /\ Advance("done")
      /\ image' = [image EXCEPT ![pos] = colors[region[pos]]]
      /\ UNCHANGED <<pixels, numberOfDesiredRegions, edges, region, regionCount, colors, joined>>
  BY DEF KruskalIInv, reColor
<1>2. pos \in PixelIDs /\ image \in [PixelIDs -> Shades]
  BY <1>1 DEF KruskalTypeOK
<1>3. /\ pos' \in PixelIDs
      /\ \/ /\ phase' = "recolor"
            /\ \A p \in PixelIDs : p < pos' <=> p < pos \/ p = pos
         \/ /\ phase' = "done" /\ pos' = 0
            /\ \A p \in PixelIDs : p < pos \/ p = pos
  BY <1>1, <1>2, AdvanceFacts
<1>4. region[pos] \in DOMAIN colors /\ colors[region[pos]] \in Shades
  BY <1>1, <1>2 DEF PaintInv, KruskalTypeOK
<1>5. /\ image' \in [PixelIDs -> Shades] /\ image'[pos] = colors[region[pos]]
      /\ \A p \in PixelIDs : p # pos => image'[p] = image[p]
  BY <1>1, <1>2, <1>4
<1>6. KruskalTypeOK'
  BY <1>1, <1>3, <1>5 DEF KruskalTypeOK
<1>7. PaintInv'
  <2>1. ASSUME NEW p \in PixelIDs, p < pos \/ p = pos PROVE image'[p] = colors'[region'[p]]
    BY <1>1, <1>5, <2>1 DEF PaintInv
  <2> QED BY <1>1, <1>3, <2>1 DEF PaintInv
<1> QED BY <1>1, <1>3, <1>6, <1>7, RegionsStay DEF KruskalIInv

\* At first every pixel is a region.
LEMMA InitKruskal == KruskalInit => KruskalIInv
<1> SUFFICES ASSUME KruskalInit PROVE KruskalIInv
  OBVIOUS
<1>1. /\ pixels \in Images /\ image = pixels /\ numberOfDesiredRegions \in Desired
      /\ edges = {} /\ region = [p \in PixelIDs |-> p] /\ regionCount = Height * Width
      /\ colors = << >> /\ phase = "connect" /\ pos = 0 /\ joined = {}
  BY DEF KruskalInit
<1>2. /\ IsFiniteSet(PixelIDs) /\ Cardinality(PixelIDs) = Height * Width
      /\ Height * Width \in Nat /\ 0 \in PixelIDs
  BY PixelCount
<1>3. Width * Height = Height * Width /\ Height * Width > 0 /\ DOMAIN colors = {}
  BY <1>1, RasterAssumption, SMT
<1>4. KruskalTypeOK
  BY <1>1, <1>2, <1>3, ImageAssumption DEF KruskalTypeOK
<1>5. RegionInv
  <2>1. {region[p] : p \in PixelIDs} = PixelIDs
    BY <1>1
  <2> QED BY <1>1, <1>2, <1>3, <2>1, FS_EmptySet DEF RegionInv
<1>6. QueueInv
  <2>1. \A p \in PixelIDs : ~(p < 0)
    BY DEF PixelIDs
  <2> QED BY <1>1, <2>1 DEF QueueInv
<1>7. StopInv
  <2>1. numberOfDesiredRegions \in Nat
    BY <1>1, DesiredAssumption
  <2> QED BY <1>1, <1>2, <1>3, <2>1 DEF StopInv
<1>8. PaintInv
  BY <1>1, <1>3 DEF PaintInv
<1> QED BY <1>4, <1>5, <1>6, <1>7, <1>8 DEF KruskalIInv

\* It is kept when nothing changes.
LEMMA KruskalStutter == KruskalIInv /\ UNCHANGED kruskalVars => KruskalIInv'
<1> SUFFICES ASSUME KruskalIInv, UNCHANGED kruskalVars PROVE KruskalIInv'
  OBVIOUS
<1>1. /\ KruskalTypeOK /\ RegionInv /\ QueueInv /\ StopInv /\ PaintInv
      /\ UNCHANGED <<pixels, pos, image, numberOfDesiredRegions, edges, region, regionCount,
                     colors, phase, joined>>
  BY DEF KruskalIInv, kruskalVars
<1>2. KruskalTypeOK'
  BY <1>1 DEF KruskalTypeOK
<1>3. RegionInv'
  BY <1>1 DEF RegionInv
<1>4. QueueInv'
  <2>1. \A e : Weight(e)' = Weight(e)
    BY <1>1 DEF Weight
  <2>2. \A w : JoinedBy(w)' = JoinedBy(w)
    BY <1>1, <2>1 DEF JoinedBy
  <2> QED BY <1>1, <2>1, <2>2 DEF QueueInv
<1>5. StopInv'
  BY <1>1 DEF StopInv, RegionsAtEnd
<1>6. PaintInv'
  BY <1>1 DEF PaintInv
<1> QED BY <1>2, <1>3, <1>4, <1>5, <1>6 DEF KruskalIInv

\* The strengthened invariant of the segmentation.
THEOREM KruskalInvariant == KruskalSpec => []KruskalIInv
<1>1. KruskalIInv /\ [KruskalNext]_kruskalVars => KruskalIInv'
  BY ConnectKeeps, PollKeeps, DrainedKeeps, AssignKeeps, RecolorKeeps, KruskalStutter
     DEF KruskalNext
<1> QED BY <1>1, InitKruskal, PTL DEF KruskalSpec

\* The regions are the components that the joined edges make.
LEMMA RegionIsComponent ==
  ASSUME KruskalIInv
  PROVE  /\ joined \in SUBSET Ends(PixelIDs) /\ IsFiniteSet(joined)
         /\ \A p \in PixelIDs :
              Component(p, PixelIDs, joined) = {q \in PixelIDs : region[q] = region[p]}
         /\ Partition(PixelIDs, joined)
              = {{q \in PixelIDs : region[q] = region[p]} : p \in PixelIDs}
<1>1. joined \in SUBSET Ends(PixelIDs) /\ RegionInv
  BY DEF KruskalIInv, KruskalTypeOK, Edges, Ends
<1>2. IsFiniteSet(joined)
  BY <1>1, EdgesFinite
<1>3. ASSUME NEW p \in PixelIDs
      PROVE  Component(p, PixelIDs, joined) = {q \in PixelIDs : region[q] = region[p]}
  <2> DEFINE own == {q \in PixelIDs : region[q] = region[p]}
             cp == Component(p, PixelIDs, joined)
  <2>1. NoneLeaves(own, joined)
    <3>1. \A e \in joined : /\ e.from \in PixelIDs /\ e.to \in PixelIDs
                            /\ region[e.from] = region[e.to]
      BY <1>1 DEF RegionInv, Ends
    <3> QED BY <3>1 DEF NoneLeaves
  <2>2. cp \subseteq own
    BY <2>1, ComponentLeast
  <2>3. NoneLeaves(cp, joined) /\ p \in cp /\ cp \in SUBSET PixelIDs
    BY <1>1, ComponentClosed
  <2>4. own \subseteq cp
    <3> HIDE DEF cp
    <3> QED BY <1>1, <2>3 DEF RegionInv
  <2> QED BY <2>2, <2>4
<1>4. Partition(PixelIDs, joined) = {Component(p, PixelIDs, joined) : p \in PixelIDs}
  BY <1>1, <1>2, PartitionIsParts DEF Parts
<1> QED BY <1>1, <1>2, <1>3, <1>4

\* Kruskal's invariant, from the strengthened one.
LEMMA ForestFollows == KruskalIInv => ForestInv
<1> SUFFICES ASSUME KruskalIInv PROVE ForestInv
  OBVIOUS
<1>1. ForestSpans
  BY RegionIsComponent DEF ForestSpans, KruskalIInv, RegionInv
<1>2. CheapestFirst
  <2> SUFFICES ASSUME phase # "connect", NEW p \in PixelIDs, NEW q \in Neighbours(p),
                      region[p] # region[q], NEW e \in joined
               PROVE  Weight(e) <= distance(pixels[p], pixels[q])
    BY DEF CheapestFirst
  <2>1. PICK f : f = [from |-> p, to |-> q]
    OBVIOUS
  <2>2. f \in EdgesOf(p) /\ f.from = p /\ f.to = q
    BY <2>1, EdgesOfPixel
  <2>3. f \in edges
    BY <2>2, PolledTogether
  <2>4. Weight(e) <= Weight(f)
    BY <2>3 DEF KruskalIInv, QueueInv
  <2> QED BY <2>2, <2>4 DEF Weight
<1> QED BY <1>1, <1>2 DEF ForestInv, KruskalIInv

\* What the painted image shows, from the strengthened invariant.
LEMMA ColourFollows == KruskalIInv => OneColourEach
<1> SUFFICES ASSUME KruskalIInv, phase = "done", NEW p \in PixelIDs
             PROVE  /\ \A q \in RegionOf(p) : image[q] = image[p]
                    /\ \E q \in RegionOf(p) : pixels[q] <= image[p]
                    /\ \E q \in RegionOf(p) : pixels[q] >= image[p]
  BY DEF OneColourEach
<1>1. \A q \in PixelIDs : region[q] \in DOMAIN colors /\ image[q] = colors[region[q]]
  BY DEF KruskalIInv, PaintInv
<1>2. \A q \in RegionOf(p) : q \in PixelIDs /\ region[q] = region[p]
  BY DEF RegionOf
<1>3. \A q \in PixelIDs : region[q] = region[p] => q \in RegionOf(p)
  BY DEF RegionOf
<1>4. /\ \E q \in PixelIDs : region[q] = region[p] /\ pixels[q] <= colors[region[p]]
      /\ \E q \in PixelIDs : region[q] = region[p] /\ pixels[q] >= colors[region[p]]
  BY <1>1 DEF KruskalIInv, PaintInv
<1> QED BY <1>1, <1>2, <1>3, <1>4

\* Kruskal's invariant, for an image of any size: the regions are what the joined
\* edges connect, each of which was needed and none of which is heavier than an
\* edge between two regions.
THEOREM KruskalForest == KruskalSpec => []ForestInv
BY KruskalInvariant, ForestFollows, PTL

\* kruskal() ends with as many regions as desired, or one.
THEOREM KruskalStops == KruskalSpec => []RegionsAtEnd
<1>1. KruskalIInv => RegionsAtEnd
  BY DEF KruskalIInv, StopInv, RegionsAtEnd
<1> QED BY <1>1, KruskalInvariant, PTL

\* Every region of the image that is saved has one colour, of its own range.
THEOREM KruskalPaints == KruskalSpec => []OneColourEach
BY KruskalInvariant, ColourFollows, PTL


-----------------------------------------------------------------------------
(***************************************************************************)
(* Least forests: how many parts edges leave, and what a forest costs.     *)
(***************************************************************************)
\* The parts of finitely many nodes are finitely many.
LEMMA PartsFinite ==
  ASSUME NEW nodes, IsFiniteSet(nodes), NEW E \in SUBSET Ends(nodes)
  PROVE  IsFiniteSet(Parts(nodes, E)) /\ Cardinality(Parts(nodes, E)) \in Nat
<1>1. Parts(nodes, E) \in SUBSET (SUBSET nodes)
  BY ComponentClosed DEF Parts
<1>2. IsFiniteSet(SUBSET nodes)
  BY FS_SUBSET
<1> QED BY <1>1, <1>2, FS_Subset, FS_CardinalityType

\* With no edges every node is a part.
LEMMA PartsOfNone ==
  ASSUME NEW nodes, IsFiniteSet(nodes)
  PROVE  Cardinality(Parts(nodes, {})) = Cardinality(nodes)
<1>1. ASSUME NEW n \in nodes PROVE Component(n, nodes, {}) = {n}
  <2>1. NoneLeaves({n}, {}) /\ {n} \in SUBSET nodes
    BY DEF NoneLeaves
  <2>2. Component(n, nodes, {}) \subseteq {n}
    BY <2>1, ComponentLeast
  <2> QED BY <2>2 DEF Component
<1> DEFINE f == [n \in nodes |-> {n}]
<1>2. f \in Bijection(nodes, Parts(nodes, {}))
  BY <1>1 DEF Parts, Bijection, Injection, Surjection, IsInjective
<1> HIDE DEF f
<1> QED BY <1>2, FS_Bijection DEF ExistsBijection

\* An edge joins two parts at most.
LEMMA EdgeJoinsTwo ==
  ASSUME NEW nodes, IsFiniteSet(nodes), NEW E \in SUBSET Ends(nodes), NEW e \in Ends(nodes)
  PROVE  Cardinality(Parts(nodes, E \cup {e})) >= Cardinality(Parts(nodes, E)) - 1
<1> DEFINE a == Component(e.from, nodes, E)
           b == Component(e.to, nodes, E)
           old == Parts(nodes, E)
           met == {P \in old : P \cap {e.from, e.to} # {}}
<1>1. e.from \in nodes /\ e.to \in nodes /\ a \in old /\ b \in old
  BY DEF Ends, Parts
<1>2. e.from \in a /\ e.to \in b
  BY <1>1, ComponentClosed
<1>3. met = {a, b}
  <2>1. ASSUME NEW P \in met PROVE P \in {a, b}
    <3>1. PICK n \in nodes : P = Component(n, nodes, E)
      BY DEF Parts
    <3> QED BY <1>1, <3>1, ComponentShared
  <2> QED BY <1>1, <1>2, <2>1
<1>4. Parts(nodes, E \cup {e}) = (old \ met) \cup {UNION met}
  BY PartsAbsorb DEF Absorbed
<1>5. UNION met \notin old \ met
  <2>1. e.from \in UNION met
    BY <1>2, <1>3
  <2> QED BY <2>1
<1>6. IsFiniteSet(old) /\ Cardinality(old) \in Nat
  BY PartsFinite
<1>7. Cardinality(old \cap met) <= 2 /\ Cardinality(old \cap met) \in Nat
  <2>1. old \cap met = {a} \cup {b}
    BY <1>1, <1>3
  <2>2. IsFiniteSet({a}) /\ Cardinality({a}) = 1
    BY FS_Singleton
  <2>3. /\ IsFiniteSet({a} \cup {b})
        /\ Cardinality({a} \cup {b}) = IF b \in {a} THEN 1 ELSE 1 + 1
    BY <2>2, FS_AddElement
  <2>4. PICK c : c = Cardinality({a} \cup {b})
    OBVIOUS
  <2>5. c \in {1, 2}
    BY <2>3, <2>4
  <2>6. Cardinality(old \cap met) = c
    BY <2>1, <2>4
  <2> QED BY <2>5, <2>6
<1> HIDE DEF old, met
<1>8. /\ IsFiniteSet(old \ met)
      /\ Cardinality(old \ met) = Cardinality(old) - Cardinality(old \cap met)
  BY <1>6, FS_Difference
<1>9. Cardinality((old \ met) \cup {UNION met}) = Cardinality(old \ met) + 1
  <2>1. PICK S, u : S = old \ met /\ u = UNION met
    OBVIOUS
  <2>2. IsFiniteSet(S) /\ u \notin S
    BY <1>5, <1>8, <2>1
  <2>3. Cardinality(S \cup {u}) = Cardinality(S) + 1
    BY <2>2, FS_AddElement
  <2> QED BY <2>1, <2>3
<1>10. PICK n, m, k : /\ n = Cardinality(old) /\ m = Cardinality(old \cap met)
                      /\ k = Cardinality((old \ met) \cup {UNION met})
  OBVIOUS
<1>11. n \in Nat /\ m \in Nat /\ m <= 2 /\ k = (n - m) + 1
  BY <1>6, <1>7, <1>8, <1>9, <1>10
<1>12. k >= n - 1
  BY <1>11
<1>13. Cardinality(Parts(nodes, E \cup {e})) = k /\ Cardinality(Parts(nodes, E)) = n
  BY <1>4, <1>10 DEF old
<1> QED BY <1>12, <1>13

\* And so many edges at most as many.
LEMMA EdgesJoin ==
  ASSUME NEW nodes, IsFiniteSet(nodes), NEW F \in SUBSET Ends(nodes), IsFiniteSet(F),
         NEW G \in SUBSET F
  PROVE  Cardinality(Parts(nodes, F)) >= Cardinality(Parts(nodes, G)) - Cardinality(F \ G)
<1> DEFINE good(H) ==
             Cardinality(Parts(nodes, H)) >= Cardinality(Parts(nodes, G)) - Cardinality(H \ G)
           wrong == {H \in SUBSET F : G \subseteq H /\ ~good(H)}
<1>1. wrong = {}
  <2> SUFFICES ASSUME wrong # {} PROVE FALSE
    OBVIOUS
  <2> DEFINE R == StrictSubsetOrdering(F)
  <2>1. IsWellFoundedOn(R, FiniteSubsetsOf(F)) /\ FiniteSubsetsOf(F) = SUBSET F
    BY FS_StrictSubsetOrderingWellFounded, FS_FiniteSubsetsOfFinite
  <2>2. PICK H \in wrong : \A K \in wrong : <<K, H>> \notin R
    <3> HIDE DEF R
    <3>1. wrong \subseteq FiniteSubsetsOf(F)
      BY <2>1
    <3> HIDE DEF wrong
    <3> QED BY <2>1, <3>1, WFMin
  <2>3. H \in SUBSET F /\ G \subseteq H /\ ~good(H) /\ H \in SUBSET Ends(nodes)
    OBVIOUS
  <2>4. /\ Cardinality(Parts(nodes, G)) \in Nat
        /\ Cardinality(Parts(nodes, H)) \in Nat
    BY <2>3, PartsFinite
  <2>5. H # G
    <3>1. Cardinality(G \ G) = 0
      BY FS_EmptySet
    <3>2. good(G)
      BY <2>4, <3>1
    <3> QED BY <2>3, <3>2
  <2>6. PICK x \in H : x \notin G
    BY <2>3, <2>5
  <2>7. <<H \ {x}, H>> \in R
    BY <2>3, <2>6 DEF StrictSubsetOrdering
  <2>8. good(H \ {x})
    BY <2>2, <2>3, <2>6, <2>7
  <2>9. IsFiniteSet(H \ G) /\ Cardinality(H \ G) \in Nat
    BY <2>3, FS_Subset, FS_CardinalityType
  <2>10. (H \ {x}) \ G = (H \ G) \ {x} /\ x \in H \ G
    BY <2>6
  <2>11. Cardinality((H \ {x}) \ G) = Cardinality(H \ G) - 1
    <3>1. PICK K : K = H \ G
      OBVIOUS
    <3>2. IsFiniteSet(K) /\ x \in K
      BY <2>9, <2>10, <3>1
    <3>3. Cardinality(K \ {x}) = Cardinality(K) - 1
      BY <3>2, FS_RemoveElement
    <3> QED BY <2>10, <3>1, <3>3
  <2>12. /\ H \ {x} \in SUBSET Ends(nodes) /\ x \in Ends(nodes)
         /\ (H \ {x}) \cup {x} = H
    BY <2>3, <2>6
  <2>13. Cardinality(Parts(nodes, H)) >= Cardinality(Parts(nodes, H \ {x})) - 1
    BY <2>12, EdgeJoinsTwo
  <2>14. Cardinality(Parts(nodes, H \ {x})) \in Nat
    BY <2>12, PartsFinite
  <2> QED BY <2>3, <2>4, <2>8, <2>9, <2>11, <2>13, <2>14
<1>2. F \notin wrong
  BY <1>1
<1> QED BY <1>2

\* Edges that lead out of no set that others do not lead out of leave as many parts at least.
LEMMA FewerParts ==
  ASSUME NEW nodes, IsFiniteSet(nodes), NEW A \in SUBSET Ends(nodes), NEW B \in SUBSET Ends(nodes),
         \A C \in SUBSET nodes : NoneLeaves(C, A) => NoneLeaves(C, B)
  PROVE  Cardinality(Parts(nodes, A)) <= Cardinality(Parts(nodes, B))
<1> DEFINE h == [Q \in Parts(nodes, A) |-> Component(CHOOSE n \in Q : TRUE, nodes, B)]
<1>1. ASSUME NEW Q \in Parts(nodes, A)
      PROVE  /\ (CHOOSE n \in Q : TRUE) \in nodes
             /\ Q = Component(CHOOSE n \in Q : TRUE, nodes, A)
  <2>1. PICK n \in nodes : Q = Component(n, nodes, A)
    BY DEF Parts
  <2>2. n \in Q /\ Q \subseteq nodes
    BY <2>1, ComponentClosed
  <2>3. PICK m : m = CHOOSE k \in Q : TRUE
    OBVIOUS
  <2>4. m \in Q
    BY <2>2, <2>3
  <2>5. Q = Component(m, nodes, A)
    BY <2>1, <2>4, ComponentShared
  <2> QED BY <2>2, <2>3, <2>4, <2>5
<1>2. ASSUME NEW n \in nodes PROVE Component(n, nodes, B) \subseteq Component(n, nodes, A)
  <2>1. /\ NoneLeaves(Component(n, nodes, A), A) /\ n \in Component(n, nodes, A)
        /\ Component(n, nodes, A) \in SUBSET nodes
    BY ComponentClosed
  <2> QED BY <2>1, ComponentLeast
<1>3. h \in [Parts(nodes, A) -> Parts(nodes, B)]
  BY <1>1 DEF Parts
<1>4. ASSUME NEW P \in Parts(nodes, A), NEW Q \in Parts(nodes, A), h[P] = h[Q] PROVE P = Q
  <2>1. PICK p, q : p = (CHOOSE n \in P : TRUE) /\ q = (CHOOSE n \in Q : TRUE)
    OBVIOUS
  <2>2. /\ p \in nodes /\ P = Component(p, nodes, A)
        /\ q \in nodes /\ Q = Component(q, nodes, A)
    BY <1>1, <2>1
  <2>3. Component(p, nodes, B) = Component(q, nodes, B)
    BY <1>4, <2>1
  <2>4. q \in Component(q, nodes, B)
    BY <2>2, ComponentClosed
  <2>5. q \in Component(p, nodes, A)
    BY <1>2, <2>2, <2>3, <2>4
  <2> QED BY <2>2, <2>5, ComponentShared
<1> HIDE DEF h
<1>5. h \in Injection(Parts(nodes, A), Parts(nodes, B))
  BY <1>3, <1>4 DEF Injection, IsInjective
<1> QED BY <1>5, PartsFinite, FS_Injection

\* Of two finite sets the one with no more members can be mapped into the other.
LEMMA InjectionExists ==
  ASSUME NEW S, NEW T, IsFiniteSet(S), IsFiniteSet(T), Cardinality(S) <= Cardinality(T)
  PROVE  \E f : f \in Injection(S, T)
<1>1. /\ Cardinality(S) \in Nat /\ Cardinality(T) \in Nat
      /\ ExistsBijection(1 .. Cardinality(T), T)
  BY FS_CardinalityType
<1>2. PICK t : t \in Bijection(1 .. Cardinality(T), T)
  BY <1>1 DEF ExistsBijection
<1>3. IsFiniteSet(1 .. Cardinality(S)) /\ Cardinality(1 .. Cardinality(S)) = Cardinality(S)
  BY <1>1, FS_Interval
<1>4. PICK s : s \in Bijection(S, 1 .. Cardinality(S))
  BY <1>3, FS_SameCardinalityBij DEF ExistsBijection
<1> DEFINE f == [x \in S |-> t[s[x]]]
<1>5. /\ s \in [S -> 1 .. Cardinality(S)]
      /\ \A x, y \in S : s[x] = s[y] => x = y
      /\ t \in [1 .. Cardinality(T) -> T]
      /\ \A x, y \in 1 .. Cardinality(T) : t[x] = t[y] => x = y
  BY <1>2, <1>4 DEF Bijection, Injection, IsInjective
<1>6. \A x \in S : s[x] \in 1 .. Cardinality(T)
  BY <1>1, <1>5
<1>7. f \in [S -> T] /\ \A x, y \in S : f[x] = f[y] => x = y
  BY <1>5, <1>6
<1> HIDE DEF f
<1>8. f \in Injection(S, T)
  BY <1>7 DEF Injection, IsInjective
<1> QED BY <1>8


\* The units that edges weigh: what they cost is how many there are.
UnitsOf(x) == {<<x, i>> : i \in 1 .. Weight(x)}
Units(E) == {u \in E \X Nat : 1 <= u[2] /\ u[2] <= Weight(u[1])}

\* The units of one edge.
LEMMA UnitsOfEdge ==
  ASSUME NEW x, Weight(x) \in Nat
  PROVE  IsFiniteSet(UnitsOf(x)) /\ Cardinality(UnitsOf(x)) = Weight(x)
<1> DEFINE f == [i \in 1 .. Weight(x) |-> <<x, i>>]
<1>1. f \in Bijection(1 .. Weight(x), UnitsOf(x))
  BY DEF UnitsOf, Bijection, Injection, Surjection, IsInjective
<1>2. IsFiniteSet(1 .. Weight(x)) /\ Cardinality(1 .. Weight(x)) = Weight(x)
  BY FS_Interval
<1> HIDE DEF f
<1> QED BY <1>1, <1>2, FS_Bijection DEF ExistsBijection

\* One edge more has its units more.
LEMMA UnitsAdd ==
  ASSUME NEW E, \A e \in E : Weight(e) \in Nat, NEW x \in E, IsFiniteSet(Units(E \ {x}))
  PROVE  /\ IsFiniteSet(Units(E))
         /\ Cardinality(Units(E)) = Weight(x) + Cardinality(Units(E \ {x}))
<1>1. Units(E) = UnitsOf(x) \cup Units(E \ {x}) /\ UnitsOf(x) \cap Units(E \ {x}) = {}
  <2>1. ASSUME NEW u \in Units(E) PROVE u \in UnitsOf(x) \cup Units(E \ {x})
    <3>1. u \in E \X Nat /\ 1 <= u[2] /\ u[2] <= Weight(u[1]) /\ u = <<u[1], u[2]>>
      BY DEF Units
    <3>2. CASE u[1] = x
      <4>1. u[2] \in 1 .. Weight(x)
        BY <3>1, <3>2
      <4> QED BY <3>1, <3>2, <4>1 DEF UnitsOf
    <3>3. CASE u[1] # x
      BY <3>1, <3>3 DEF Units
    <3> QED BY <3>2, <3>3
  <2>2. ASSUME NEW u \in UnitsOf(x) PROVE u \in Units(E) /\ u \notin Units(E \ {x})
    BY DEF UnitsOf, Units
  <2>3. ASSUME NEW u \in Units(E \ {x}) PROVE u \in Units(E)
    BY DEF Units
  <2> QED BY <2>1, <2>2, <2>3
<1>2. IsFiniteSet(UnitsOf(x)) /\ Cardinality(UnitsOf(x)) = Weight(x) /\ Weight(x) \in Nat
  BY UnitsOfEdge
<1>3. PICK S, T : S = UnitsOf(x) /\ T = Units(E \ {x})
  OBVIOUS
<1>4. IsFiniteSet(S) /\ IsFiniteSet(T) /\ S \cap T = {} /\ Cardinality(S \cap T) = 0
  BY <1>1, <1>2, <1>3, FS_EmptySet
<1>5. /\ IsFiniteSet(S \cup T)
      /\ Cardinality(S \cup T) = Cardinality(S) + Cardinality(T) - Cardinality(S \cap T)
  BY <1>4, FS_Union
<1>6. Cardinality(S) \in Nat /\ Cardinality(T) \in Nat
  BY <1>4, FS_CardinalityType
<1>7. Cardinality(S \cup T) = Cardinality(S) + Cardinality(T)
  BY <1>4, <1>5, <1>6
<1> QED BY <1>1, <1>2, <1>3, <1>5, <1>7

\* The units of finitely many edges are finitely many.
LEMMA UnitsFinite ==
  ASSUME NEW E, IsFiniteSet(E), \A e \in E : Weight(e) \in Nat
  PROVE  \A S \in SUBSET E : IsFiniteSet(Units(S))
<1> DEFINE wrong == {S \in SUBSET E : ~IsFiniteSet(Units(S))}
           R == StrictSubsetOrdering(E)
<1> SUFFICES ASSUME wrong # {} PROVE FALSE
  OBVIOUS
<1>1. IsWellFoundedOn(R, FiniteSubsetsOf(E))
  BY FS_StrictSubsetOrderingWellFounded
<1>2. FiniteSubsetsOf(E) = SUBSET E
  BY FS_FiniteSubsetsOfFinite
<1>3. PICK S \in wrong : \A T \in wrong : <<T, S>> \notin R
  <2> HIDE DEF R
  <2>1. wrong \subseteq FiniteSubsetsOf(E)
    BY <1>2
  <2> HIDE DEF wrong
  <2> QED BY <1>1, <2>1, WFMin
<1>4. S # {}
  <2>1. Units({}) = {}
    BY DEF Units
  <2> QED BY <2>1, FS_EmptySet
<1>5. PICK x \in S : TRUE
  BY <1>4
<1>6. <<S \ {x}, S>> \in R
  BY <1>5 DEF StrictSubsetOrdering
<1>7. S \ {x} \in SUBSET E /\ IsFiniteSet(Units(S \ {x}))
  BY <1>3, <1>6
<1> QED BY <1>5, <1>7, UnitsAdd

\* What Cost sums up.
LEMMA CostIsUnits ==
  ASSUME NEW E, IsFiniteSet(E), \A e \in E : Weight(e) \in Nat
  PROVE  Cost(E) = Cardinality(Units(E))
<1> DEFINE Sum(h) == [s \in SUBSET E |->
                        IF s = {} THEN 0
                        ELSE LET x == CHOOSE x \in s : TRUE IN Weight(x) + h[s \ {x}]]
           g == [s \in SUBSET E |-> Cardinality(Units(s))]
<1>1. Cardinality(Units({})) = 0
  <2>1. Units({}) = {}
    BY DEF Units
  <2> QED BY <2>1, FS_EmptySet
<1>2. ASSUME NEW s \in SUBSET E, NEW x \in s
      PROVE  Cardinality(Units(s)) = Weight(x) + Cardinality(Units(s \ {x}))
  <2>1. s \ {x} \in SUBSET E
    OBVIOUS
  <2> QED BY <2>1, UnitsFinite, UnitsAdd
<1>3. g = Sum(g)
  <2>1. ASSUME NEW s \in SUBSET E PROVE g[s] = Sum(g)[s]
    <3>1. CASE s = {}
      BY <1>1, <3>1
    <3>2. CASE s # {}
      <4>1. PICK x : x = CHOOSE y \in s : TRUE
        OBVIOUS
      <4>2. x \in s
        BY <3>2, <4>1
      <4>3. g[s] = Weight(x) + g[s \ {x}]
        BY <1>2, <4>2
      <4> QED BY <3>2, <4>1, <4>3
    <3> QED BY <3>1, <3>2
  <2> QED BY <2>1
<1>4. ASSUME NEW h, h = Sum(h) PROVE h = g
  <2> DEFINE wrong == {s \in SUBSET E : h[s] # g[s]}
  <2>1. wrong = {}
    <3> SUFFICES ASSUME wrong # {} PROVE FALSE
      OBVIOUS
    <3> DEFINE R == StrictSubsetOrdering(E)
    <3>1. IsWellFoundedOn(R, FiniteSubsetsOf(E))
      BY FS_StrictSubsetOrderingWellFounded
    <3>2. FiniteSubsetsOf(E) = SUBSET E
      BY FS_FiniteSubsetsOfFinite
    <3>3. PICK s \in wrong : \A t \in wrong : <<t, s>> \notin R
      <4> HIDE DEF R
      <4>1. wrong \subseteq FiniteSubsetsOf(E)
        BY <3>2
      <4> HIDE DEF wrong
      <4> QED BY <3>1, <4>1, WFMin
    <3>4. s # {}
      BY <1>1, <1>3, <1>4
    <3>5. PICK x : x = CHOOSE y \in s : TRUE
      OBVIOUS
    <3>6. x \in s
      BY <3>4, <3>5
    <3>7. <<s \ {x}, s>> \in R
      BY <3>6 DEF StrictSubsetOrdering
    <3>8. s \ {x} \in SUBSET E /\ h[s \ {x}] = g[s \ {x}]
      BY <3>3, <3>7
    <3>9. h[s] = Weight(x) + h[s \ {x}] /\ g[s] = Weight(x) + g[s \ {x}]
      BY <1>3, <1>4, <3>4, <3>5
    <3> QED BY <3>8, <3>9
  <2> QED BY <1>4, <2>1
<1>5. Cost(E) = g[E]
  <2> HIDE DEF g
  <2>1. g = CHOOSE h : h = Sum(h)
    BY <1>3, <1>4
  <2> QED BY <2>1 DEF Cost, MapThenSumSet, MapThenFoldSet
<1> QED BY <1>5

\* What has at most as many edges of every weight upwards costs no more.
LEMMA CostsNoMore ==
  ASSUME NEW J, NEW F, IsFiniteSet(J), IsFiniteSet(F), \A e \in J \cup F : Weight(e) \in Nat,
         \A i \in Nat : Cardinality({e \in J : Weight(e) >= i})
                          <= Cardinality({e \in F : Weight(e) >= i})
  PROVE  Cost(J) <= Cost(F)
<1> DEFINE above(E, i) == {e \in E : Weight(e) >= i}
           G == [i \in Nat |-> CHOOSE f : f \in Injection(above(J, i), above(F, i))]
           h == [u \in Units(J) |-> <<G[u[2]][u[1]], u[2]>>]
<1>1. ASSUME NEW i \in Nat PROVE G[i] \in Injection(above(J, i), above(F, i))
  <2>1. above(J, i) \in SUBSET J /\ above(F, i) \in SUBSET F
    OBVIOUS
  <2>2. IsFiniteSet(above(J, i)) /\ IsFiniteSet(above(F, i))
    BY <2>1, FS_Subset
  <2>3. Cardinality(above(J, i)) <= Cardinality(above(F, i))
    OBVIOUS
  <2> HIDE DEF above
  <2>4. \E f : f \in Injection(above(J, i), above(F, i))
    BY <2>2, <2>3, InjectionExists
  <2> QED BY <2>4
<1>2. ASSUME NEW i \in Nat
      PROVE  /\ \A e \in J : Weight(e) >= i => G[i][e] \in F /\ Weight(G[i][e]) >= i
             /\ \A e, f \in J :
                  Weight(e) >= i /\ Weight(f) >= i /\ G[i][e] = G[i][f] => e = f
  <2> HIDE DEF G
  <2> DEFINE g == G[i]
  <2>1. g \in Injection(above(J, i), above(F, i))
    BY <1>1
  <2> HIDE DEF g
  <2>2. /\ g \in [above(J, i) -> above(F, i)]
        /\ \A e, f \in above(J, i) : g[e] = g[f] => e = f
    <3> HIDE DEF above
    <3> QED BY <2>1 DEF Injection, IsInjective
  <2>3. /\ \A e \in J : Weight(e) >= i => g[e] \in F /\ Weight(g[e]) >= i
        /\ \A e, f \in J : Weight(e) >= i /\ Weight(f) >= i /\ g[e] = g[f] => e = f
    <3>1. ASSUME NEW e \in J, Weight(e) >= i PROVE g[e] \in F /\ Weight(g[e]) >= i
      <4>1. e \in above(J, i)
        BY <3>1
      <4>2. g[e] \in above(F, i)
        BY <2>2, <4>1
      <4> QED BY <4>2
    <3>2. ASSUME NEW e \in J, NEW f \in J, Weight(e) >= i, Weight(f) >= i, g[e] = g[f]
          PROVE  e = f
      <4>1. e \in above(J, i) /\ f \in above(J, i)
        BY <3>2
      <4> HIDE DEF above
      <4> QED BY <2>2, <3>2, <4>1
    <3> QED BY <3>1, <3>2
  <2> QED BY <2>3 DEF g
<1> HIDE DEF G
<1>3. ASSUME NEW u \in Units(J)
      PROVE  /\ u[1] \in J /\ u[2] \in Nat /\ u = <<u[1], u[2]>>
             /\ 1 <= u[2] /\ Weight(u[1]) >= u[2]
  BY DEF Units
<1>4. ASSUME NEW u \in Units(J) PROVE h[u] \in Units(F)
  <2>1. PICK e, i : e = u[1] /\ i = u[2]
    OBVIOUS
  <2>2. e \in J /\ i \in Nat /\ 1 <= i /\ Weight(e) >= i
    BY <1>3, <2>1
  <2>3. G[i][e] \in F /\ Weight(G[i][e]) >= i /\ Weight(G[i][e]) \in Nat
    BY <1>2, <2>2
  <2>4. <<G[i][e], i>> \in Units(F)
    BY <2>2, <2>3 DEF Units
  <2> QED BY <2>1, <2>4
<1>5. ASSUME NEW u \in Units(J), NEW v \in Units(J), h[u] = h[v] PROVE u = v
  <2>1. G[u[2]][u[1]] = G[v[2]][v[1]] /\ u[2] = v[2]
    BY <1>5
  <2>2. u[1] = v[1]
    BY <1>2, <1>3, <2>1
  <2> QED BY <1>3, <2>1, <2>2
<1>6. h \in [Units(J) -> Units(F)]
  BY <1>4
<1> HIDE DEF h
<1>7. h \in Injection(Units(J), Units(F))
  BY <1>5, <1>6 DEF Injection, IsInjective
<1>8. IsFiniteSet(Units(F))
  BY UnitsFinite
<1>9. Cardinality(Units(J)) <= Cardinality(Units(F))
  BY <1>7, <1>8, FS_Injection
<1> QED BY <1>9, CostIsUnits

\* Up to every weight as many edges have joined as a forest can have.
LEMMA JoinedAreMost ==
  ASSUME KruskalIInv, phase # "connect", NEW F \in SUBSET GridEdges,
         Cardinality(F) = Cardinality(joined),
         Cardinality(Partition(PixelIDs, F)) = regionCount, NEW w \in Nat
  PROVE  Cardinality({f \in F : Weight(f) <= w}) <= Cardinality(JoinedBy(w))
<1> DEFINE low == {f \in F : Weight(f) <= w}
<1>1. /\ F \in SUBSET Ends(PixelIDs) /\ joined \in SUBSET Ends(PixelIDs)
      /\ F \in SUBSET Edges /\ joined \in SUBSET Edges
      /\ pixels \in Images /\ edges \subseteq Edges
  BY DEF GridEdges, Edges, Ends, KruskalIInv, KruskalTypeOK
<1>2. IsFiniteSet(F) /\ IsFiniteSet(joined) /\ IsFiniteSet(PixelIDs)
  BY <1>1, EdgesFinite, PixelCount
<1>3. /\ low \in SUBSET F /\ IsFiniteSet(low) /\ low \in SUBSET Ends(PixelIDs)
      /\ Cardinality(low) \in Nat /\ Cardinality(low) <= Cardinality(F)
      /\ Cardinality(F) \in Nat
  <2>1. low \in SUBSET F /\ low \in SUBSET Ends(PixelIDs)
    BY <1>1
  <2> HIDE DEF low
  <2> QED BY <1>2, <2>1, FS_Subset, FS_CardinalityType
<1>4. /\ JoinedBy(w) \in SUBSET joined /\ JoinedBy(w) \in SUBSET Ends(PixelIDs)
      /\ IsFiniteSet(JoinedBy(w)) /\ Cardinality(JoinedBy(w)) \in Nat
  <2>1. JoinedBy(w) \in SUBSET joined /\ JoinedBy(w) \in SUBSET Ends(PixelIDs)
    BY <1>1 DEF JoinedBy
  <2> QED BY <1>2, <2>1, FS_Subset, FS_CardinalityType
<1>5. CASE \E f \in low : f \in edges
  <2>1. PICK f \in low : f \in edges
    BY <1>5
  <2>2. Weight(f) <= w /\ Weight(f) \in Nat
    BY <1>1, <2>1, WeightType
  <2>3. ASSUME NEW e \in joined PROVE Weight(e) <= w
    <3>1. Weight(e) <= Weight(f) /\ Weight(e) \in Nat
      BY <1>1, <2>1, WeightType DEF KruskalIInv, QueueInv
    <3> QED BY <2>2, <3>1
  <2>4. JoinedBy(w) = joined
    BY <2>3 DEF JoinedBy
  <2> QED BY <1>3, <2>4
<1>6. CASE \A f \in low : f \notin edges
  <2>1. ASSUME NEW C \in SUBSET PixelIDs, NoneLeaves(C, JoinedBy(w)), NEW f \in low
        PROVE  f.from \in C <=> f.to \in C
    <3>1. f \in GridEdges /\ f \in Edges /\ Weight(f) <= w /\ Weight(f) \in Nat
      BY <1>1, WeightType
    <3>2. /\ f.from \in PixelIDs /\ f.to \in Neighbours(f.from)
          /\ f = [from |-> f.from, to |-> f.to]
      BY <3>1 DEF GridEdges, Edges, Neighbours
    <3>3. f \in EdgesOf(f.from) \ edges
      BY <1>6, <3>2 DEF EdgesOf
    <3>4. JoinedBy(Weight(f)) \subseteq JoinedBy(w)
      <4>1. \A e \in joined : Weight(e) \in Nat
        BY <1>1, WeightType
      <4> QED BY <3>1, <4>1 DEF JoinedBy
    <3>5. NoneLeaves(C, JoinedBy(Weight(f)))
      BY <2>1, <3>4 DEF NoneLeaves
    <3> QED BY <3>2, <3>3, <3>5 DEF KruskalIInv, QueueInv
  <2>2. \A C \in SUBSET PixelIDs : NoneLeaves(C, JoinedBy(w)) => NoneLeaves(C, low)
    BY <2>1 DEF NoneLeaves
  <2> HIDE DEF low
  <2>3. Cardinality(Parts(PixelIDs, JoinedBy(w))) <= Cardinality(Parts(PixelIDs, low))
    BY <1>2, <1>3, <1>4, <2>2, FewerParts
  <2>4. Cardinality(Parts(PixelIDs, JoinedBy(w)))
          >= Cardinality(PixelIDs) - Cardinality(JoinedBy(w))
    <3>1. {} \in SUBSET JoinedBy(w) /\ JoinedBy(w) \ {} = JoinedBy(w)
      OBVIOUS
    <3> QED BY <1>2, <1>4, <3>1, EdgesJoin, PartsOfNone
  <2>5. /\ Cardinality(Parts(PixelIDs, F))
             >= Cardinality(Parts(PixelIDs, low)) - Cardinality(F \ low)
        /\ Cardinality(F \ low) = Cardinality(F) - Cardinality(low)
    <3>1. F \cap low = low
      BY <1>3
    <3>2. Cardinality(F \ low) = Cardinality(F) - Cardinality(F \cap low)
      BY <1>2, FS_Difference, Zenon
    <3>3. Cardinality(Parts(PixelIDs, F))
             >= Cardinality(Parts(PixelIDs, low)) - Cardinality(F \ low)
      BY <1>1, <1>2, <1>3, EdgesJoin
    <3> QED BY <3>1, <3>2, <3>3
  <2>6. Cardinality(Parts(PixelIDs, F)) = regionCount
    BY <1>1, <1>2, PartitionIsParts
  <2>7. /\ regionCount + Cardinality(F) = Cardinality(PixelIDs)
        /\ Cardinality(PixelIDs) \in Nat /\ regionCount \in Nat
    <3>1. regionCount + Cardinality(joined) = Width * Height /\ regionCount \in 1 .. Width * Height
      BY DEF KruskalIInv, RegionInv, KruskalTypeOK
    <3>2. Width * Height = Height * Width /\ Cardinality(PixelIDs) = Height * Width
          /\ Height * Width \in Nat
      BY PixelCount, RasterAssumption, SMT
    <3> QED BY <3>1, <3>2
  <2>8. /\ Cardinality(Parts(PixelIDs, JoinedBy(w))) \in Nat
        /\ Cardinality(Parts(PixelIDs, low)) \in Nat
    BY <1>2, <1>3, <1>4, PartsFinite
  <2>9. PICK n, k, c, l, j, pj, pl : /\ n = Cardinality(PixelIDs) /\ k = Cardinality(F)
          /\ c = regionCount /\ l = Cardinality(low) /\ j = Cardinality(JoinedBy(w))
          /\ pj = Cardinality(Parts(PixelIDs, JoinedBy(w)))
          /\ pl = Cardinality(Parts(PixelIDs, low))
    OBVIOUS
  <2>10. /\ n \in Nat /\ k \in Nat /\ c \in Nat /\ l \in Nat
         /\ j \in Nat /\ pj \in Nat /\ pl \in Nat
         /\ pj <= pl /\ pj >= n - j /\ c >= pl - (k - l) /\ c + k = n
    BY <1>3, <1>4, <2>3, <2>4, <2>5, <2>6, <2>7, <2>8, <2>9
  <2>11. l <= j
    BY <2>10
  <2> QED BY <2>9, <2>11 DEF low
<1> QED BY <1>5, <1>6

\* The joined edges cost least, from the strengthened invariant.
LEMMA LeastFollows == KruskalIInv => MinimumForest
<1> SUFFICES ASSUME KruskalIInv, phase = "assign",
                    NEW F \in kSubset(Cardinality(joined), GridEdges),
                    Cardinality(Partition(PixelIDs, F)) = regionCount
             PROVE  Cost(joined) <= Cost(F)
  BY DEF MinimumForest
<1>1. F \in SUBSET GridEdges /\ Cardinality(F) = Cardinality(joined)
  BY DEF kSubset
<1>2. /\ F \in SUBSET Edges /\ joined \in SUBSET Edges
      /\ F \in SUBSET Ends(PixelIDs) /\ joined \in SUBSET Ends(PixelIDs) /\ pixels \in Images
  BY <1>1 DEF GridEdges, Edges, Ends, KruskalIInv, KruskalTypeOK
<1>3. IsFiniteSet(F) /\ IsFiniteSet(joined)
  BY <1>2, EdgesFinite
<1>4. \A e \in joined \cup F : Weight(e) \in Nat
  BY <1>2, WeightType
<1>5. ASSUME NEW i \in Nat
      PROVE  Cardinality({e \in joined : Weight(e) >= i}) <= Cardinality({e \in F : Weight(e) >= i})
  <2>1. CASE i = 0
    <3>1. {e \in joined : Weight(e) >= i} = joined /\ {e \in F : Weight(e) >= i} = F
      BY <1>4, <2>1
    <3>2. Cardinality(F) \in Nat
      BY <1>3, FS_CardinalityType
    <3> QED BY <1>1, <3>1, <3>2
  <2>2. CASE i # 0
    <3>1. PICK w \in Nat : i = w + 1
      <4>1. i - 1 \in Nat /\ i = (i - 1) + 1
        BY <2>2
      <4> QED BY <4>1
    <3>2. PICK low : low = {e \in F : Weight(e) <= w}
      OBVIOUS
    <3>3. /\ {e \in joined : Weight(e) >= i} = joined \ JoinedBy(w)
          /\ {e \in F : Weight(e) >= i} = F \ low
      BY <1>4, <3>1, <3>2 DEF JoinedBy
    <3>4. joined \cap JoinedBy(w) = JoinedBy(w) /\ F \cap low = low
      BY <3>2 DEF JoinedBy
    <3>5. /\ Cardinality(joined \ JoinedBy(w)) = Cardinality(joined) - Cardinality(JoinedBy(w))
          /\ Cardinality(F \ low) = Cardinality(F) - Cardinality(low)
      BY <1>3, <3>4, FS_Difference
    <3>6. Cardinality(low) <= Cardinality(JoinedBy(w))
      BY <1>1, <3>2, JoinedAreMost
    <3>7. /\ Cardinality(low) \in Nat /\ Cardinality(JoinedBy(w)) \in Nat
          /\ Cardinality(joined) \in Nat
      <4>1. low \in SUBSET F /\ JoinedBy(w) \in SUBSET joined
        BY <3>2 DEF JoinedBy
      <4> QED BY <1>3, <4>1, FS_Subset, FS_CardinalityType
    <3>8. Cardinality(joined \ JoinedBy(w)) <= Cardinality(F \ low)
      BY <1>1, <3>5, <3>6, <3>7
    <3> QED BY <3>3, <3>8
  <2> QED BY <2>1, <2>2
<1> QED BY <1>3, <1>4, <1>5, CostsNoMore

\* Kruskal's algorithm is right: for an image of any size and any number of desired
\* regions, no forest of the grid that leaves as many regions costs less than the
\* edges it joined.
THEOREM KruskalLeast == KruskalSpec => []MinimumForest
BY KruskalInvariant, LeastFollows, PTL
=============================================================================
