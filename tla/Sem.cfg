CONSTANTS
    idle = idle
    a = a
    b = b
    rq = rq
    s1 = s1
    NULL = NULL
    Idle = idle
    ready_queue = rq
    Task <- MCTask
    Semaphore <- MCSems
    Queue <- MCQueue
    PRIOCNT = 3
    AppPrio <- MCPrio
    Exiting = {b}
    Joining = {a}
    BlocksLocked = FALSE
    MaxNesting = 1
    MaxLock = 1
    Timeouts = {1, 2}
    MaxValue = 1
SPECIFICATION SemFairSpec
INVARIANTS
    SemTypeOK
    NoSleepWithSignals
    GuardsAreSafe
PROPERTIES
    ImplementsAbstractSem
    GuardedWaitEnds
    RoundRobin
