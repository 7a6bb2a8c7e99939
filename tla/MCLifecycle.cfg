SPECIFICATION LifecycleSpec
CONSTANTS
    p1 = p1  p2 = p2  q1 = q1  q2 = q2
    Replicas = {p1, p2}
    Reqs = {q1}
    Latest = 2
    Attempts = 2
    DrainDelay = 2
    ShutdownTimeout = 1
    ProbeEvery = 1
    MaxOutages = 1
INVARIANTS
    ServedFromCurrentSchema
    HandOffIsClean
    PoolOutlivesRequests
    ShutdownIsBounded
PROPERTIES
    ShutdownEnds
    BootEnds
