\* Seven streams, three pictures in work, a reorder queue that wraps.
SPECIFICATION Spec
CONSTANTS
    Streams <- AllStreams
    ChildPool = 3
    MaxLag = 3
    Depth = 7
    UndisplayedMax = 3
    OutputPool = 6
    None = None
CHECK_DEADLOCK FALSE
INVARIANTS OutputInDisplayOrder OutputInDecodeOrder EndIsMarkedLast MetadataStaysWithPicture
PROPERTY EverythingIsDelivered
