SPECIFICATION AheadSpec
CONSTANTS
    Streams <- OffPeriodStreams
    None = None
INVARIANTS ReferencesMatch
CHECK_DEADLOCK FALSE
