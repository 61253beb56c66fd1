CONSTANTS
    x = x
    y = y
    z = z
    NULL = NULL
    Timer <- MCTimers
    Timeouts <- MCTimeouts
    Reloads <- MCReloads
    OS_TIMER_UNSYNCH_MAX = 2
    TICKS_MOD = 8
    CallbackCreates = TRUE
    CallbackDestroysNext = TRUE
    CallbackDestroysReload = FALSE
SPECIFICATION TimerSpec
PROPERTY DestroyedNeverFires
