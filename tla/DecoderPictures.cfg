CONSTANTS
    Buffers <- MCBuffers
    RefSlots = {s1, s2, s3}
    None = None
    MaxFrames = 5
    MaxFailures = 1
    MaxEmptyRounds = 1
SPECIFICATION Spec
SYMMETRY SlotSymmetry
INVARIANTS CountsAreExact BuffersSuffice
PROPERTY ImplementsReferenceSlots
CHECK_DEADLOCK FALSE
