\* Three workers, eight pictures, at most one recoding pass.
SPECIFICATION Spec
CONSTANTS
    Threads = {w1, w2, w3}
    Layouts <- SmallLayouts
    PoolSize = 4
    MaxRecodes = 1
CHECK_DEADLOCK FALSE
INVARIANTS CountsAreExact SegmentsAreExclusive HandedOnComplete
PROPERTIES NeighboursFirst PictureIsCoded
