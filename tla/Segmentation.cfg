CONSTANTS
    Width = 3
    Height = 2
    Images <- MCImages
    Desired = {2, 6}
SPECIFICATION KruskalSpec
INVARIANTS ForestInv MinimumForest RegionsAtEnd OneColourEach
CHECK_DEADLOCK FALSE
