\* Three tasks, every call but join, suspension from interrupts.
SPECIFICATION Spec
CONSTANTS
    Tasks = {t1, t2, t3}
    Idle = Idle
    Dummy = Dummy
    LowestPrio = 1
    WaitObjs = {}
    Isr = Isr
    TaskCalls = {"create", "createonly", "suspend", "suspendrunning", "resume", "priset", "delay", "yield", "lock", "delete"}
    IsrCalls = {"suspend", "suspendrunning"}
    Joinables = {}
    Victims = {t1, t2, t3}
    Joiners = {}
    CreatePrios = {0}
    MaxLock = 1
    t1 = t1
    t2 = t2
    t3 = t3
SYMMETRY TaskSymmetry
INVARIANTS
    TaskTypeOK
    NoFault
    NodeWhereStatusSays
    BitmapExact
    TimeoutArmed
    RunHighest
    BlockedThreadStops
