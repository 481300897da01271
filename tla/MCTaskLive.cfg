SPECIFICATION FairSpec
CONSTANTS
    Idle = Idle
    Dummy = Dummy
    Isr = Isr
    LowestPrio = 2
    WaitObjs = {}
    CreatePrios = {0, 1}
    MaxLock = 1
    t1 = t1
    t2 = t2
    t3 = t3
    Tasks = {t1, t2, t3}
    TaskCalls = {"create", "delay", "yield", "delete"}
    IsrCalls = {}
    Joinables = {}
    Victims = {}
    Joiners = {}
PROPERTY NoStarvation
