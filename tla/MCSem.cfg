\* Two tasks and interrupts that post, one semaphore created and deleted again and again.
SPECIFICATION SemSpec
CONSTANTS
    t1 = t1
    t2 = t2
    s1 = s1
    Tasks = {t1, t2}
    Idle = Idle
    Dummy = Dummy
    LowestPrio = 2
    WaitObjs = {s1}
    Isr = Isr
    TaskCalls = {"semcreate", "semdelete", "sempend", "sempost", "suspend", "resume", "delete"}
    IsrCalls = {"sempost", "suspend", "resume", "delete"}
    Joinables = {}
    Victims = {t1, t2}
    Joiners = {}
    CreatePrios = {0, 1}
    MaxLock = 0
    MaxCount = 2
SYMMETRY TaskSymmetry
INVARIANTS
    SemInv
    NoFault
    RunHighest
PROPERTY ImplementsSemaphore
