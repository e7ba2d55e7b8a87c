\* Two producer kernels and two consumer kernels over two objects, with shutdown.
SPECIFICATION FairSpec
CONSTANTS
    Objects = {o1, o2}
    Producers = {p1, p2}
    Consumers = {c1, c2}
    Polling = {}
    Pinners = {}
    MaxShared = 1
    MaxHeld = 0
    CountModulus = 5
    MayShutDown = TRUE
    None = None
CHECK_DEADLOCK FALSE
INVARIANTS SemaphoreCountsObjects NoLostWakeup NoReuseWhileReferenced NoLeak
PROPERTY ShutdownStopsConsumers
