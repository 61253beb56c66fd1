CONSTANTS
    idle = idle
    a = a
    b = b
    c = c
    rq = rq
    m1 = m1
    m2 = m2
    NULL = NULL
    Idle = idle
    ready_queue = rq
    Task <- MCTask
    Mutex <- MCMutex
    Queue <- MCQueue
    PRIOCNT = 4
    AppPrio <- Mixed
    Rank <- InOrder
    Ordered = TRUE
    Exiting = {}
    Joining = {}
    BlocksLocked = TRUE
    MaxNesting = 1
    MaxLock = 0
    MaxRecur = 2
    RECUR_MOD = 256
SPECIFICATION MtxFairSpec
INVARIANTS
    MtxTypeOK
    LockResultIsTrue
    WaitersHaveAnOwner
    PrioIsInherited
    BoostEnds
    HeldUntilLastUnlock
    QueuesCoherent
PROPERTIES
    FifoOrder
    ImplementsAbstractMutex
    NoUnboundedInversion
