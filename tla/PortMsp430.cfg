CONSTANTS
    idle = idle
    a = a
    Idle = idle
    Task <- MCTask
    Ports = {"msp430"}
    MaxNesting = 2
    MaxCritical = 1
    BYTE = 2
    Arguments = {2}
    Expected = {1}
SPECIFICATION AtomicSpec
INVARIANT CriticalSectionKept
