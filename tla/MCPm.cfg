SPECIFICATION PmSpec
CONSTANTS
    t1 = t1
    c1 = c1
    c2 = c2
    n1 = n1
    SwtTask = SwtTask
    Timers = {t1}
    TimerModes = {"ONCE"}
    HandlerArgs = {n1}
    Names = {n1}
    Callers = {c1, c2}
    Lives = 2
    HandleQueue = 1
    RestartOnce = FALSE
    OS_PM_LOCK_MAX = 2
    Modes = {"SHUTDOWN"}
    Nodes = {"DEVICE", "SYSCTRL"}
    Overfull = FALSE
    Unregister = FALSE
INVARIANTS
    PmInv
    TimersKept
    SuspensionSafe
PROPERTY DelayLockReleased
