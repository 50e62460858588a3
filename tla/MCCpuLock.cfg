CONSTANTS
    o1 = o1
    o2 = o2
    o4 = o4
    o5 = o5
    o6 = o6
    o7 = o7
    l1 = l1
    l2 = l2
    rl = rl
    Ops = {o1, o2, o4, o5, o6, o7}
    Locks = {l1, l2}
    RwLocks = {rl}
    Cores = 2
    Plan <- MCPlan
    NoEventEnd <- MCNoEventEnd

SPECIFICATION Spec

INVARIANTS
    TypeOK
    MutualExclusion
    CoreAccounting
    OneContinuation
    RwExclusion

PROPERTIES
    AllComplete
    MutexSpec
    RwMutexSpec
