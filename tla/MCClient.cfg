\* Three clients over two partitions, one per workload: get_put_rr,
\* rotx_put_rr with two keys per rotx, two rotx and two puts per round, and
\* probabilistic with gets, puts and rotx.  Integer widths are scaled down
\* (int and unsigned int of 4 bits, gr_key of 6) keeping int < unsigned int
\* < gr_key, so that key_max = UINT_MAX and the wrap of the shift occur.
CONSTANTS
    Clients = {1, 2, 3}
    WorkloadOf <- ThreeWorkloads
    NumPartitions = 2
    KeysPerRotx = 2
    NumRotx = 2
    NumPut = 2
    ProbOps = {"get", "put", "rotx"}
    UintBits = 4
    KeyBits = 6
SPECIFICATION Spec
INVARIANTS
    OneToken
    WorkloadAsserts
PROPERTIES
    PartitionChoice
    KeyOnPartition
    Progress
