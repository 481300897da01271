SPECIFICATION SwtmrSpec
CONSTANTS
    t1 = t1
    t2 = t2
    Timers = {t1, t2}
    TimerModes = {"ONCE", "PERIOD", "NO_SELFDELETE"}
    HandlerArgs = {"h"}
    Lives = 3
    HandleQueue = 2
    RestartOnce = FALSE
INVARIANTS
    SwtmrInv
    TickingIsTiming
PROPERTY ExpiryHandled
