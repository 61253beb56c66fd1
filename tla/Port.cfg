CONSTANTS
    idle = idle
    a = a
    Idle = idle
    Task <- MCTask
    Ports = {"avr", "msp430", "linux"}
    MaxNesting = 2
    MaxCritical = 1
    BYTE = 2
    Arguments = {2}
    Expected = {1}
SPECIFICATION AtomicSpec
INVARIANTS
    ContextKept
    SavedContextIntact
    FlagKept
    BitmaskIsASet
PROPERTY ImplementsAtomic
