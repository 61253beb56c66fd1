CONSTANTS
    idle = idle
    a = a
    b = b
    rq = rq
    q1 = q1
    q2 = q2
    NULL = NULL
    Idle = idle
    ready_queue = rq
    Task <- MCTask
    WaitQueues = {q1}
    Queue <- MCQueue
    PRIOCNT = 3
    AppPrio <- MCPrio
    Exiting = {}
    Joining = {}
    BlocksLocked = FALSE
    MaxNesting = 1
    MaxLock = 0
    Timeouts = {1}
    Counts = {1, 255}
SPECIFICATION WaitQueueSpec
PROPERTY ReceiverGivesWay
