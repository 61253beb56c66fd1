CONSTANTS
    idle = idle
    a = a
    b = b
    c = c
    rq = rq
    NULL = NULL
    Idle = idle
    ready_queue = rq
    Task <- MCTask
    Queue <- MCQueue
    PRIOCNT = 3
    AppPrio <- MCPrio
    Exiting = {a, b, c}
    Joining = {a, b}
    BlocksLocked = TRUE
    MaxNesting = 2
    MaxLock = 1
SPECIFICATION Spec
INVARIANTS
    TypeOK
    QueuesCoherent
    EachTaskInItsPlace
    HighestPrioRuns
    JoinedTaskHasExited
    JoinIsNeverLost
PROPERTIES
    LockObeyed
    FifoOrder
    ImplementsAbstractSched
