CONSTANTS
    idle = idle
    a = a
    b = b
    c = c
    rq = rq
    m1 = m1
    m2 = m2
    NULL = NULL
    Idle = idle
    ready_queue = rq
    Task <- MCTask
    Mutex <- MCMutex
    Queue <- MCQueue
    PRIOCNT = 4
    AppPrio <- Steps
    Rank <- InOrder
    Ordered = TRUE
    Exiting = {}
    Joining = {}
    BlocksLocked = FALSE
    MaxNesting = 0
    MaxLock = 1
    MaxRecur = 1
    RECUR_MOD = 256
SPECIFICATION MtxSpec
INVARIANT NeverBelowBase
