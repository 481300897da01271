\* An interrupt handler resumes the task that has just suspended itself.
SPECIFICATION Spec
CONSTANTS
    Tasks = {t1, t2}
    Idle = Idle
    Dummy = Dummy
    LowestPrio = 2
    WaitObjs = {}
    Isr = Isr
    TaskCalls = {"create", "suspendrunning", "resume"}
    IsrCalls = {"resume"}
    Joinables = {}
    Victims = {}
    Joiners = {}
    CreatePrios = {0, 1}
    MaxLock = 1
    t1 = t1
    t2 = t2
    t3 = t3
SYMMETRY TaskSymmetry
INVARIANTS
    NoFault
