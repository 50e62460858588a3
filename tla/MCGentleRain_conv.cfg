\* Two replicas of one partition, a writer at each, racing puts on one key.
CONSTANTS
    NumReplicas = 2
    NumPartitions = 1
    Fanout = 2
    Keys = {0}
    Skew <- SkewByReplica
    Home <- OneEach
    Writers = {0, 1}
    Readers = {}
    ClockInterval = 2
    MaxTime = 2
    MaxPuts = 2
    MaxGets = 0
    MaxRotx = 0
SPECIFICATION Spec
INVARIANTS
    OneApplyPerSource
    SourceOrder
