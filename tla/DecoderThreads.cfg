\* Three threads, five streams.
SPECIFICATION Spec
CONSTANTS
    Main = main
    Workers = {w1, w2}
    Streams <- SmallStreams
SYMMETRY WorkerSymmetry
\* A closed decoder does nothing, and the threads of one being closed may hang.
CHECK_DEADLOCK FALSE
INVARIANTS MotionFieldReady Wavefront FilteredInOrder FrameComplete NeverStuck
PROPERTIES NoResetUnderWork
