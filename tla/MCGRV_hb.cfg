\* Two replicas of one partition, one writer at replica 0: at replica 1 the
\* gst vector entry of replica 0 follows version_vector[0], which heartbeats
\* and replica updates of replica 0 set under lock_vv.
CONSTANTS
    NumReplicas = 2
    NumPartitions = 1
    Fanout = 2
    Keys = {0}
    Skew <- SkewByReplica
    Home <- OneAtZero
    Writers = {1}
    Readers = {}
    ClockInterval = 1
    MaxTime = 3
    MaxPuts = 1
    MaxGets = 0
SPECIFICATION Spec
INVARIANT
    GstVectorSound
