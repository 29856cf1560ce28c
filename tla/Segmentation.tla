---------------------------- MODULE Segmentation ----------------------------
(***************************************************************************)
(* ImageSegmentation.java: Kruskal's algorithm over the pixels of an image,*)
(* stopped at a desired number of regions, each region then painted in one *)
(* colour.                                                                 *)
(*                                                                         *)
(* A colour is one channel.  The queue is a set: the two edges between two *)
(* neighbours differ in their direction, and poll() returns any edge of    *)
(* the least weight.  The regions are the labels of DisjointSets, which    *)
(* RasterUnionFind implements, the smaller label winning as in its Merged. *)
(***************************************************************************)
EXTENDS Picture, FiniteSets, FiniteSetsExt, Components

CONSTANTS Images,   \* the images that may be read
          Desired   \* the values kruskal() is called with

ASSUME ImageAssumption == Images \subseteq [PixelIDs -> Shades]
ASSUME DesiredAssumption == Desired \subseteq Nat

VARIABLES image,    \* the colours of the image, which reColor() overwrites
          numberOfDesiredRegions,
          edges,
          region, regionCount,   \* the labels of regions, and its count()
          colors,   \* the table from a region's label to its colour
          phase,    \* the loop that runs
          joined    \* history: the edges whose union merged two regions

kruskalVars == <<pixels, pos, image, numberOfDesiredRegions, edges, region, regionCount,
                 colors, phase, joined>>

SumUnhalved(c1, c2) == c1 + c2
average(c1, c2) == (c1 + c2) \div 2

Weight(e) == distance(pixels[e.from], pixels[e.to])

Neighbours(p) == Left(p) \cup Above(p) \cup Right(p) \cup Below(p)

EdgesOf(p) == {[from |-> p, to |-> q] : q \in Neighbours(p)}

KruskalInit == /\ pixels \in Images
               /\ image = pixels
               /\ numberOfDesiredRegions \in Desired
               /\ edges = {}
               /\ region = [p \in PixelIDs |-> p]
               /\ regionCount = Height * Width
               /\ colors = << >>
               /\ phase = "connect"
               /\ pos = 0
               /\ joined = {}

\* The two loops over the rows and columns, and what follows them.
Advance(following) == IF pos + 1 \in PixelIDs
                      THEN pos' = pos + 1 /\ UNCHANGED phase
                      ELSE pos' = 0 /\ phase' = following

connectToNeighbors ==
    /\ phase = "connect"
    /\ edges' = edges \cup EdgesOf(pos)
    /\ Advance("poll")
    /\ UNCHANGED <<pixels, image, numberOfDesiredRegions, region, regionCount, colors, joined>>

AnyEdge(e) == TRUE
Lightest(e) == \A f \in edges : Weight(e) <= Weight(f)

\* The union of a duplicate edge, counted as if it merged something.
UnionCounted(e) ==
    LET l1 == region[e.from]
        l2 == region[e.to]
    IN  /\ region' = [p \in PixelIDs |->
                         IF region[p] = Greater(l1, l2) THEN Lesser(l1, l2) ELSE region[p]]
        /\ regionCount' = regionCount - 1
        /\ joined' = joined \cup {e}

union(e) ==
    LET l1 == region[e.from]
        l2 == region[e.to]
    IN  IF l1 = l2
        THEN UNCHANGED <<region, regionCount, joined>>
        ELSE /\ region' = [p \in PixelIDs |->
                             IF region[p] = Greater(l1, l2) THEN Lesser(l1, l2) ELSE region[p]]
             /\ regionCount' = regionCount - 1
             /\ joined' = joined \cup {e}

\* Tests the number of regions before the union, not after it.
PollTestsFirst ==
    /\ phase = "poll"
    /\ \E e \in edges : /\ Lightest(e)
                        /\ edges' = edges \ {e}
                        /\ union(e)
    /\ phase' = IF regionCount = numberOfDesiredRegions THEN "assign" ELSE "poll"
    /\ UNCHANGED <<pixels, image, numberOfDesiredRegions, colors, pos>>

Poll ==
    /\ phase = "poll"
    /\ \E e \in edges : /\ Lightest(e)
                        /\ edges' = edges \ {e}
                        /\ union(e)
    /\ phase' = IF regionCount' = numberOfDesiredRegions THEN "assign" ELSE "poll"
    /\ UNCHANGED <<pixels, image, numberOfDesiredRegions, colors, pos>>

Drained ==
    /\ phase = "poll"
    /\ edges = {}
    /\ phase' = "assign"
    /\ UNCHANGED <<pixels, image, numberOfDesiredRegions, edges, region, regionCount, colors,
                   pos, joined>>

\* HashMap.put
put(map, key, value) == [k \in DOMAIN map \cup {key} |-> IF k = key THEN value ELSE map[k]]

assignColor ==
    /\ phase = "assign"
    /\ LET l == region[pos]
       IN  colors' = put(colors, l, IF l \notin DOMAIN colors THEN pixels[pos]
                                    ELSE average(colors[l], pixels[pos]))
    /\ Advance("recolor")
    /\ UNCHANGED <<pixels, image, numberOfDesiredRegions, edges, region, regionCount, joined>>

reColor ==
    /\ phase = "recolor"
    /\ image' = [image EXCEPT ![pos] = colors[region[pos]]]
    /\ Advance("done")
    /\ UNCHANGED <<pixels, numberOfDesiredRegions, edges, region, regionCount, colors, joined>>

KruskalNext == connectToNeighbors \/ Poll \/ Drained \/ assignColor \/ reColor

KruskalSpec == KruskalInit /\ [][KruskalNext]_kruskalVars

-----------------------------------------------------------------------------
Edges == {[from |-> p, to |-> q] : p \in PixelIDs, q \in PixelIDs}

\* The types of the variables.
KruskalTypeOK ==
    /\ pixels \in Images
    /\ image \in [PixelIDs -> Shades]
    /\ numberOfDesiredRegions \in Desired
    /\ edges \subseteq Edges
    /\ region \in [PixelIDs -> PixelIDs]
    /\ regionCount \in 1 .. Width * Height
    /\ DOMAIN colors \subseteq PixelIDs
    /\ \A l \in DOMAIN colors : colors[l] \in Shades
    /\ phase \in {"connect", "poll", "assign", "recolor", "done"}
    /\ pos \in PixelIDs
    /\ joined \subseteq Edges

\* The regions are what the merging edges connect, and each merging edge was
\* needed: duplicates and edges that would close a cycle change nothing.
ForestSpans ==
    /\ {{q \in PixelIDs : region[q] = region[p]} : p \in PixelIDs} = Partition(PixelIDs, joined)
    /\ regionCount + Cardinality(joined) = Width * Height
    /\ regionCount = Cardinality({region[p] : p \in PixelIDs})

\* No two neighbours in different regions are more alike than two pixels an
\* edge has already merged: the edges come out of the queue in order although
\* each is there twice and many weigh the same.
CheapestFirst ==
    phase # "connect" =>
        \A p \in PixelIDs : \A q \in Neighbours(p) :
            region[p] # region[q] =>
                \A e \in joined : Weight(e) <= distance(pixels[p], pixels[q])

\* Kruskal's invariant: a forest of the cheapest edges that spans the regions.
ForestInv == KruskalTypeOK /\ ForestSpans /\ CheapestFirst

Cost(E) == MapThenSumSet(Weight, E)
GridEdges == {e \in Edges : e.to \in Right(e.from) \cup Below(e.from)}

\* The merging edges are a cheapest way of joining the pixels into that many
\* regions, by comparison with every forest of the grid.
MinimumForest ==
    (phase = "assign" /\ pos = 0) =>
        \A F \in kSubset(Cardinality(joined), GridEdges) :
            Cardinality(Partition(PixelIDs, F)) = regionCount => Cost(joined) <= Cost(F)

\* kruskal() stops at exactly the desired number of regions when the first
\* union can still reach it, and otherwise merges the whole image.
RegionsAtEnd ==
    phase \in {"assign", "recolor", "done"} =>
        regionCount = IF numberOfDesiredRegions \in 1 .. Width * Height - 1
                      THEN numberOfDesiredRegions ELSE 1

RegionOf(p) == {q \in PixelIDs : region[q] = region[p]}

\* In the image that is saved a region has one colour, which is not darker
\* than all pixels it was made of, nor lighter than all of them.
OneColourEach ==
    phase = "done" =>
        \A p \in PixelIDs :
            /\ \A q \in RegionOf(p) : image[q] = image[p]
            /\ \E q \in RegionOf(p) : pixels[q] <= image[p]
            /\ \E q \in RegionOf(p) : pixels[q] >= image[p]

-----------------------------------------------------------------------------
(***************************************************************************)
(* The strengthenings behind the theorems of ImageProofs.                  *)
(***************************************************************************)
\* The regions are known without a path: joined pixels are in one region, and
\* a set that no joined edge leads out of has all of a region or none.
RegionInv ==
    /\ \A e \in joined : region[e.from] = region[e.to]
    /\ \A C \in SUBSET PixelIDs :
         NoneLeaves(C, joined) =>
             \A p \in C : \A q \in PixelIDs : region[q] = region[p] => q \in C
    /\ \A p \in PixelIDs : region[region[p]] = region[p]
    /\ regionCount = Cardinality({region[p] : p \in PixelIDs})
    /\ regionCount + Cardinality(joined) = Width * Height

\* What the edges no heavier than w have joined.
JoinedBy(w) == {e \in joined : Weight(e) <= w}

\* Edges join neighbours, none in the queue is lighter than one that joined, and
\* the ends of one that left it are joined by edges that are no heavier.
QueueInv ==
    /\ \A e \in edges \cup joined : e.to \in Neighbours(e.from)
    /\ phase = "connect" =>
         joined = {} /\ \A p \in PixelIDs : p < pos => EdgesOf(p) \subseteq edges
    /\ \A e \in joined : \A f \in edges : Weight(e) <= Weight(f)
    /\ phase # "connect" =>
         \A p \in PixelIDs : \A e \in EdgesOf(p) \ edges : \A C \in SUBSET PixelIDs :
           NoneLeaves(C, JoinedBy(Weight(e))) => (e.from \in C <=> e.to \in C)

\* Until the loop ends there are more regions than desired.
StopInv == IF phase \in {"connect", "poll"}
           THEN numberOfDesiredRegions \in 1 .. Width * Height - 1
                  => regionCount > numberOfDesiredRegions
           ELSE RegionsAtEnd

\* The loops begin at the first pixel; a colour lies between two pixels of its
\* region, and what the loops have passed is in the table, and painted.
PaintInv ==
    /\ phase \in {"connect", "poll"} => DOMAIN colors = {}
    /\ phase = "poll" => pos = 0
    /\ \A l \in DOMAIN colors : /\ \E q \in PixelIDs : region[q] = l /\ pixels[q] <= colors[l]
                                /\ \E q \in PixelIDs : region[q] = l /\ pixels[q] >= colors[l]
    /\ \A p \in PixelIDs :
         /\ (phase = "assign" /\ p < pos) \/ phase \in {"recolor", "done"}
              => region[p] \in DOMAIN colors
         /\ (phase = "recolor" /\ p < pos) \/ phase = "done"
              => image[p] = colors[region[p]]

KruskalIInv == KruskalTypeOK /\ RegionInv /\ QueueInv /\ StopInv /\ PaintInv
=============================================================================
