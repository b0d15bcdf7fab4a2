CONSTANTS
    MaxLives = 3
    SliceNs = 8
    UsedNs = {8}
SPECIFICATION FairSpec
INVARIANT NothingInherited
PROPERTY Reclaimed
