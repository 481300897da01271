-------------------------------- MODULE Sem --------------------------------
(***************************************************************************)
(* Semaphores (kernel/src/los_sem.c) on top of the scheduler and the task  *)
(* calls: a post may meet a waiter in any state, in the window before its  *)
(* switch, suspended, timing out or being deleted.                         *)
(***************************************************************************)
EXTENDS Task

CONSTANT
    MaxCount  \* bound: OS_SEM_COUNTING_MAX_COUNT, 0xFFFF in the code

\* g_allSem has LOSCFG_BASE_IPC_SEM_LIMIT control blocks.
ASSUME SemAssumption == MaxCount \in Nat \ {0} /\ IsFiniteSet(WaitObjs)

VARIABLES
    sem,       \* g_allSem
    unusedSem  \* g_unusedSemList

Sems == WaitObjs

OS_SEM_BINARY_MAX_COUNT == 1

SemTypeOK ==
    /\ k \in KernelState
    /\ ctx \in [TCB -> ThreadState(At \cup {"sem"})]
    /\ sem \in [Sems -> [used : BOOLEAN, count : 0..MaxCount, max : 0..MaxCount]]
    /\ \A s \in Sems : sem[s].count <= sem[s].max
    /\ \A s \in Sems : s \in Range(unusedSem) <=> ~sem[s].used
    /\ NoDup(unusedSem)

OsSemInit ==
    /\ sem = [s \in Sems |-> [used |-> FALSE, count |-> 0, max |-> 0]]
    /\ \E q \in [1..Cardinality(Sems) -> Sems] : Range(q) = Sems /\ NoDup(q) /\ unusedSem = q

SemInit == Init /\ OsSemInit

-----------------------------------------------------------------------------
\* LOS_SemCreate and LOS_BinarySemCreate; no check of OS_INT_ACTIVE.
OsSemCreate(c, count, max) ==
    /\ Caller(c, "semcreate")
    /\ count <= max
    /\ unusedSem # <<>>
    /\ sem' = [sem EXCEPT ![unusedSem[1]] = [used |-> TRUE, count |-> count, max |-> max]]
    /\ unusedSem' = Tail(unusedSem)
    /\ UNCHANGED <<k, ctx>>

LOS_SemDelete(c, s) ==
    /\ Caller(c, "semdelete")
    /\ sem[s].used
    /\ k.list[WaitList(s)] = <<>>
    /\ sem' = [sem EXCEPT ![s].used = FALSE]
    /\ unusedSem' = <<s>> \o unusedSem
    /\ UNCHANGED <<k, ctx>>

SetCount(s, n) == sem' = [sem EXCEPT ![s].count = n]

LOS_SemPend(c, s) ==
    /\ Caller(c, "sempend")
    /\ sem[s].used
    /\ k.lock = 0
    /\ \/ /\ sem[s].count > 0
          /\ SetCount(s, sem[s].count - 1)
          /\ UNCHANGED <<k, ctx>>
       \/ /\ sem[s].count = 0
          /\ \E timed \in BOOLEAN : k' = OsSchedTaskWait(k, WaitList(s), timed)
          /\ ctx' = [ctx EXCEPT ![c] = Thread("sem", s, TRUE)]
          /\ UNCHANGED sem
    /\ UNCHANGED unusedSem

\* Mutant: the timeout is reported and not taken back.
ReturnKeepsTimeout(c) ==
    /\ Running(c)
    /\ ctx[c].at = "sem"
    /\ ~ctx[c].win
    /\ ctx' = [ctx EXCEPT ![c] = UserThread]
    /\ UNCHANGED <<k, sem, unusedSem>>

\* LOS_SemPend after its LOS_Schedule: the result is LOS_ERRNO_SEM_TIMEOUT when
\* TIMEOUT is set and LOS_OK otherwise.
SemPendReturn(c) ==
    /\ Running(c)
    /\ ctx[c].at = "sem"
    /\ ~ctx[c].win
    /\ k' = SetStatus(k, c, {"TIMEOUT"}, {})
    /\ ctx' = [ctx EXCEPT ![c] = UserThread]
    /\ UNCHANGED <<sem, unusedSem>>

\* Mutant: no reschedule after the wake-up.
PostNoSchedule(c, s) ==
    /\ Caller(c, "sempost")
    /\ sem[s].used
    /\ sem[s].count # sem[s].max
    /\ IF k.list[WaitList(s)] # <<>>
       THEN Finish(c, OsSchedTaskWake(k, k.list[WaitList(s)][1]), FALSE) /\ UNCHANGED sem
       ELSE SetCount(s, sem[s].count + 1) /\ UNCHANGED <<k, ctx>>
    /\ UNCHANGED unusedSem

\* Mutant: the count goes up for a waiter, too.
PostTwice(c, s) ==
    /\ Caller(c, "sempost")
    /\ sem[s].used
    /\ sem[s].count # sem[s].max
    /\ IF k.list[WaitList(s)] # <<>>
       THEN Finish(c, OsSchedTaskWake(k, k.list[WaitList(s)][1]), TRUE)
       ELSE UNCHANGED <<k, ctx>>
    /\ SetCount(s, sem[s].count + 1)
    /\ UNCHANGED unusedSem

LOS_SemPost(c, s) ==
    /\ Caller(c, "sempost")
    /\ sem[s].used
    /\ sem[s].count # sem[s].max
    /\ IF k.list[WaitList(s)] # <<>>
       THEN Finish(c, OsSchedTaskWake(k, k.list[WaitList(s)][1]), TRUE) /\ UNCHANGED sem
       ELSE SetCount(s, sem[s].count + 1) /\ UNCHANGED <<k, ctx>>
    /\ UNCHANGED unusedSem

-----------------------------------------------------------------------------
SemNext ==
    \/ Next /\ UNCHANGED <<sem, unusedSem>>
    \/ \E c \in Tasks : SemPendReturn(c) \/ \E s \in Sems : LOS_SemPend(c, s)
    \/ \E c \in Tasks \cup {Isr} :
          \/ \E max \in {OS_SEM_BINARY_MAX_COUNT, MaxCount}, n \in 0..MaxCount :
                OsSemCreate(c, n, max)
          \/ \E s \in Sems : LOS_SemDelete(c, s) \/ LOS_SemPost(c, s)

SemSpec == SemInit /\ [][SemNext]_<<k, ctx, sem, unusedSem>>

-----------------------------------------------------------------------------
(***************************************************************************)
(* Properties.                                                             *)
(***************************************************************************)
\* No task waits for a semaphore that has a token: LOS_SemPost hands the token to
\* a waiter if there is one, and LOS_SemPend waits only if there is no token.
NoTokenWhileWaiting ==
    \A s \in Sems : sem[s].count > 0 => k.list[WaitList(s)] = <<>>

\* The threads inside LOS_SemPend(s) that are neither waiting nor dead.
Decided(s) ==
    {t \in Tasks : /\ ctx[t].at = "sem"
                   /\ ctx[t].obj = s
                   /\ ~Has(k, t, {"PEND", "EXIT", "UNUSED"})}

Abstract ==
    INSTANCE Semaphore
        WITH val <- [s \in Sems |-> sem[s].count],
             queue <- [s \in Sems |-> k.list[WaitList(s)]],
             got <- [s \in Sems |-> {t \in Decided(s) : ~Has(k, t, {"TIMEOUT"})}],
             late <- [s \in Sems |-> {t \in Decided(s) : Has(k, t, {"TIMEOUT"})}]

\* Each call is the abstract step of its kind, not merely some step.
CallsAreSteps ==
    \A s \in Sems :
        /\ \A c \in Tasks \cup {Isr} :
              LOS_SemPost(c, s) => Abstract!Put(s) \/ Abstract!Hand(s)
        /\ \A t \in Tasks :
              /\ LOS_SemPend(t, s) => Abstract!Take(s) \/ Abstract!Wait(s, t)
              /\ ctx[t].obj = s /\ SemPendReturn(t) => Abstract!Return(s, t)

\* los_sem.c implements the semaphore: each post is given to one task, the one
\* that waits longest, and a wait is ended either by a post or by its timeout and
\* LOS_SemPend reports which, whatever the scheduler, suspensions, deletions and
\* interrupts do in between.
ImplementsSemaphore ==
    Abstract!SemaphoreSpec /\ [][CallsAreSteps]_<<k, ctx, sem, unusedSem>>

\* Counts stay within the limits they were created with, and no token is kept while a task
\* waits for it: LOS_SemPost counts or hands over, never both or neither.
SemInv == SemTypeOK /\ NoTokenWhileWaiting
=============================================================================
