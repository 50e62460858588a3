\* One replica of two partitions whose clocks differ.  Both clients write;
\* client 1 also runs a read-only transaction (read-your-writes) and gets.
\* Requests reach a partition that does not own the key and are forwarded,
\* puts wait for the clock to pass their dependency, gets, snapshots and
\* slices raise gst, and a rotx parks until gst passes its dependency.
CONSTANTS
    NumReplicas = 1
    NumPartitions = 2
    Fanout = 2
    Keys = {0, 1}
    Skew <- SkewByNode
    Home <- TwoAtZero
    Writers = {1, 2}
    Readers = {1}
    ClockInterval = 2
    MaxTime = 1
    MaxPuts = 2
    MaxGets = 1
    MaxRotx = 1
SPECIFICATION Spec
INVARIANTS
    TypeOK
    GstBelowVv
    SnapshotStable
    CausalSnapshot
    RotxParked
