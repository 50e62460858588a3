\* One replica of two partitions whose clocks differ by one.  Client 1
\* runs a read-only transaction; client 2 writes.  A put stamped after the
\* snapshot time reaches the owner before the slice request does.
CONSTANTS
    NumReplicas = 1
    NumPartitions = 2
    Fanout = 2
    Keys = {0, 1}
    Skew <- SkewByNode
    Home <- TwoAtZero
    Writers = {2}
    Readers = {1}
    ClockInterval = 9
    MaxTime = 2
    MaxPuts = 1
    MaxGets = 0
    MaxRotx = 1
SPECIFICATION SpecR
INVARIANT SnapshotAtTime
