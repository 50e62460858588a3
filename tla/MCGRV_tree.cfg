\* One replica, four partitions in a tree of fanout 2: 0 -> {1, 2}, 1 -> {3}.
\* The clock ticks alone move the version vectors; no client.
CONSTANTS
    NumReplicas = 1
    NumPartitions = 4
    Fanout = 2
    Keys = {1}
    Skew <- SkewByNode
    Home <- NoClients
    Writers = {}
    Readers = {}
    ClockInterval = 1
    MaxTime = 1
    MaxPuts = 0
    MaxGets = 0
SPECIFICATION Spec
CONSTRAINT
    GstBacklog
INVARIANTS
    TypeOK
    LstOncePerRound
    GstBelowVv
