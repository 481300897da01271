\* Three joinable tasks, of which one joins and detaches; tasks delete themselves.
SPECIFICATION Spec
CONSTANTS
    Tasks = {t1, t2, t3}
    Idle = Idle
    Dummy = Dummy
    LowestPrio = 2
    WaitObjs = {}
    Isr = Isr
    TaskCalls = {"create", "delete", "join", "detach"}
    IsrCalls = {}
    Joinables = {t1, t2, t3}
    Victims = {}
    Joiners = {t1}
    CreatePrios = {0, 1}
    MaxLock = 1
    t1 = t1
    t2 = t2
    t3 = t3
INVARIANTS
    NoFault
    JoinTakesTheDead
    ExitedNeverReady
    NoTcbLost
