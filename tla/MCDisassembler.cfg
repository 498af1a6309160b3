SPECIFICATION Spec
CONSTANTS
    Size = 8
    Data = {1, 2, 3, 4, 6, 7}
    Vectors <- MCVectors
    LineBytes = 3
    Memories <- MCMemories
    MaxPasses = 2
    MaxHints = 1
CHECK_DEADLOCK FALSE
INVARIANTS
    DecodesReachable
    ListingExact
    LabelsDefined
PROPERTY
    Terminates
