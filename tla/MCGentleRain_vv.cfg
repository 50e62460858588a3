\* Two replicas of one partition, one writer at replica 0: heartbeats and
\* replica updates of replica 0 race for replica_locks[0] at replica 1.
CONSTANTS
    NumReplicas = 2
    NumPartitions = 1
    Fanout = 2
    Keys = {0}
    Skew <- SkewByReplica
    Home <- OneAtZero
    Writers = {1}
    Readers = {}
    ClockInterval = 1
    MaxTime = 3
    MaxPuts = 1
    MaxGets = 0
    MaxRotx = 0
SPECIFICATION Spec
PROPERTY
    VvMonotonic
