SPECIFICATION Spec
CONSTANTS
    Slots = {s1, s2}
    Dlf = {d1}
    Cdef = {c1, c2}
    Rest = {r1, r2}
    Ec = {e1, e2}
    Capacity <- FewOfEach
    Streams <- SmallStreams
    None = None
SYMMETRY WorkerSymmetry
CHECK_DEADLOCK FALSE
INVARIANTS SearchBeforeFilter OwnPictureOnly PassedOnComplete NeverStuck
