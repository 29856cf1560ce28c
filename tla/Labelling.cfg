CONSTANTS
    Width = 3
    Height = 3
    Colours = {0, 1, 2}
SPECIFICATION LabelSpec
INVARIANTS IInv PassInv
PROPERTY SetsSpec
CHECK_DEADLOCK FALSE
