\* One producer that also replaces a pinned object, and the polling
\* application as the one consumer.
SPECIFICATION FairSpec
CONSTANTS
    Objects = {o1, o2, o3}
    Producers = {p1}
    Consumers = {c1}
    Polling = {c1}
    Pinners = {p1}
    MaxShared = 1
    MaxHeld = 1
    CountModulus = 5
    MayShutDown = FALSE
    None = None
INVARIANT PollIsExact
PROPERTIES ImplementsPool PostedIsReceived WaitingProducerIsServed
