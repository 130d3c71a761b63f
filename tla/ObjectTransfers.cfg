CONSTANTS
    RangeUnits = 2
    Sizes = {0, 3, 4, 5}
    MaxObjects = 3
    PartUnits = 2
    MaxParts = 2
    MaxSize = 9
SPECIFICATION TransfersSpec
INVARIANTS
    SnapshotIsWhole
    ResultIsTrue
    BuffersBounded
