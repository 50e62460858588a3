\* Two replicas of one partition, a writer at each, racing puts on one key;
\* client 0 also reads, so a put can depend on a version of the other replica.
\* Heartbeats are on.  The replicas must agree when idle, every update must be
\* handled, and every put is stamped after the entries of its dependencies.
CONSTANTS
    NumReplicas = 2
    NumPartitions = 1
    Fanout = 2
    Keys = {0}
    Skew <- SkewByReplica
    Home <- OneEach
    Writers = {0, 1}
    Readers = {0}
    ClockInterval = 3
    MaxTime = 2
    MaxPuts = 2
    MaxGets = 1
SPECIFICATION Spec
INVARIANTS
    StampAfterDeps
    Convergence
    OneApplyPerSource
PROPERTY
    UpdatesHandled
