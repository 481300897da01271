\* Three tasks and one recursive mutex.
SPECIFICATION MuxSpec
CONSTANTS
    t1 = t1
    t2 = t2
    t3 = t3
    m1 = m1
    Tasks = {t1, t2, t3}
    Idle = Idle
    Dummy = Dummy
    LowestPrio = 2
    WaitObjs = {m1}
    Isr = Isr
    TaskCalls = {"muxcreate", "muxdelete", "muxpend", "muxpost", "delay"}
    IsrCalls = {}
    Joinables = {}
    Victims = {}
    Joiners = {}
    CreatePrios = {0, 1}
    MaxLock = 0
    NULL = NULL
    MaxNest = 2
SYMMETRY TaskSymmetry
INVARIANTS
    MuxInv
    NoFault
PROPERTY ImplementsMutex
