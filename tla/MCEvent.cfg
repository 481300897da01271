\* Two tasks that read, two bits, writes by tasks and interrupts.
SPECIFICATION EventSpec
CONSTANTS
    t1 = t1
    t2 = t2
    e1 = e1
    b1 = b1
    b2 = b2
    Bits = {b1, b2}
    CloseInUse = FALSE
    Tasks = {t1, t2}
    Idle = Idle
    Dummy = Dummy
    LowestPrio = 2
    WaitObjs = {e1}
    Isr = Isr
    TaskCalls = {"eventinit", "eventread", "eventwrite", "eventclear", "eventpoll", "delete"}
    IsrCalls = {"eventwrite"}
    Joinables = {}
    Victims = {t1, t2}
    Joiners = {}
    CreatePrios = {0, 1}
    MaxLock = 0
SYMMETRY EventSymmetry
INVARIANTS
    EventInv
    RunHighest
