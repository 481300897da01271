\* Two tasks and interrupts that read and write a queue of one or two messages and
\* share one mail block.
SPECIFICATION QueueSpec
CONSTANTS
    t1 = t1
    t2 = t2
    v1 = v1
    v2 = v2
    b1 = b1
    Values = {v1, v2}
    Blocks = {b1}
    NULL = NULL
    MaxLen = 2
    Tasks = {t1, t2}
    Idle = Idle
    Dummy = Dummy
    LowestPrio = 2
    WaitObjs = {"read", "write", "mem"}
    Isr = Isr
    TaskCalls = {"queuecreate", "queuedelete", "queue", "mail"}
    IsrCalls = {"queue"}
    Joinables = {}
    Victims = {}
    Joiners = {}
    CreatePrios = {0, 1}
    MaxLock = 0
SYMMETRY QueueSymmetry
INVARIANTS
    QueueInv
    MailHanded
PROPERTY ImplementsDeque
