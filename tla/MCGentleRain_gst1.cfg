\* Two replicas of one partition, one writer at replica 1: replica 0 runs
\* the single-partition shortcut of the GST computation.
CONSTANTS
    NumReplicas = 2
    NumPartitions = 1
    Fanout = 2
    Keys = {0}
    Skew <- SkewByReplica
    Home <- OneAtOne
    Writers = {1}
    Readers = {}
    ClockInterval = 1
    MaxTime = 3
    MaxPuts = 1
    MaxGets = 0
    MaxRotx = 0
SPECIFICATION Spec
INVARIANT
    GstSound
