SPECIFICATION AheadSpec
CONSTANTS
    Streams <- AllStreams
    None = None
INVARIANTS ReferencesMatch DisplayOrderIsKept EveryPictureLeaves LookAheadIsWhole PaReferencesReleasedOnce
CHECK_DEADLOCK FALSE
