\* One replica, four partitions in a tree of fanout 2: 0 -> {1, 2}, 1 -> {3}.
\* One client at partition 0 writes key 1 (owned by partition 1, whose clock
\* runs one unit ahead) and key 2 (partition 2, no skew): the second put then
\* carries a dependency time ahead of its owner's clock and is postponed,
\* while the clock ticks drive gst rounds up the tree. Stamping a put
\* advances simulated time by one, so MaxTime 2 is the least bound under
\* which the postponed put's dependency time is still reached; the clock
\* interval 4 keeps the tick rounds few enough for the liveness check.
CONSTANTS
    NumReplicas = 1
    NumPartitions = 4
    Fanout = 2
    Keys = {1, 2}
    Skew <- SkewByNode
    Home <- OneAtZero
    Writers = {1}
    Readers = {}
    ClockInterval = 4
    MaxTime = 2
    MaxPuts = 2
    MaxGets = 0
    MaxRotx = 0
SPECIFICATION Spec
INVARIANTS
    LstOncePerRound
    GstBelowVv
PROPERTIES
    PostponedPutServed
