-------------------------------- MODULE Task --------------------------------
(***************************************************************************)
(* Task management (kernel/src/los_task.c): creation, suspension, delay,   *)
(* priorities, scheduler lock, deletion, join and the recycling of task    *)
(* control blocks, called by tasks and, where the code allows it, by       *)
(* interrupt handlers, in every interleaving.                              *)
(*                                                                         *)
(* A call that returns an error changes nothing and is not an action.      *)
(***************************************************************************)
EXTENDS Sched

CONSTANTS
    Isr,         \* the interrupt handler as a caller
    TaskCalls,   \* the calls tasks make ...
    IsrCalls,    \* ... and interrupt handlers make
    Joinables,   \* the TCBs that may be created with LOS_TASK_ATTR_JOINABLE
    Victims,     \* the tasks that may be deleted by somebody else
    Joiners,     \* the tasks that call LOS_TaskJoin and LOS_TaskDetach
    CreatePrios, \* the priorities given at creation
    MaxLock      \* bound: nesting of LOS_TaskLock

ASSUME TaskAssumption ==
    /\ Isr \notin TCB
    /\ Joinables \subseteq Tasks
    /\ Victims \subseteq Tasks
    /\ Joiners \subseteq Tasks
    /\ CreatePrios \subseteq 0..(LowestPrio - 1)
    /\ MaxLock \in Nat

\* Where a thread stands: in its own code, in the loop of
\* OsRecycleFinishedTask, before taking a TCB, before OsNewTaskInit, before
\* the OsSchedTaskEnQueue of LOS_TaskCreate, after the wait of LOS_TaskJoin.
At == {"user", "recycle", "take", "init", "enqueue", "join"}

TaskTypeOK ==
    /\ k \in KernelState
    /\ k.lock <= MaxLock
    /\ ctx \in [TCB -> ThreadState(At)]

(***************************************************************************)
(* The state OsTaskInit and OsIdleTaskCreate leave: every other TCB is on  *)
(* the free list, the boot code runs as Dummy.                             *)
(***************************************************************************)
InitialKernel(free) ==
    [status |-> [t \in TCB |-> CASE t = Idle -> {"READY"}
                                 [] t = Dummy -> {"UNUSED", "RUNNING"}
                                 [] t \in Tasks -> {"UNUSED"}],
     prio |-> [t \in TCB |-> CASE t = Idle -> LowestPrio
                               [] t = Dummy -> LowestPrio + 1
                               [] t \in Tasks -> 0],
     slice |-> [t \in TCB |-> FALSE],
     list |-> [h \in Head_ |-> IF h = FreeTask THEN free ELSE <<>>],
     bitmap |-> {}, sort |-> {}, run |-> Dummy, lock |-> 0,
     scheduled |-> FALSE, pendsv |-> FALSE, fault |-> FALSE]

Init ==
    /\ \E free \in [1..Cardinality(Tasks) -> Tasks] :
          Range(free) = Tasks /\ NoDup(free) /\ k = InitialKernel(free)
    /\ ctx = [t \in TCB |-> UserThread]

-----------------------------------------------------------------------------
\* The end of a call: a task still has to call LOS_Schedule when need holds,
\* an interrupt handler has done so.
Finish(c, kk, need) ==
    IF c = Isr
    THEN /\ k' = IF need THEN LOS_ScheduleEffect(kk) ELSE kk
         /\ UNCHANGED ctx
    ELSE /\ k' = kk
         /\ ctx' = [ctx EXCEPT ![c].win = need]

Caller(c, call) ==
    IF c = Isr THEN call \in IsrCalls /\ k.scheduled /\ ~k.fault
               ELSE call \in TaskCalls /\ k.scheduled /\ InUser(c)

\* Nobody knows the ID of a task before LOS_TaskCreate has returned it.
Known(t) == \A u \in TCB : ~(ctx[u].at = "enqueue" /\ ctx[u].obj = t)

Exists(t) == Known(t) /\ ~Has(k, t, {"UNUSED"})

LOS_TaskSuspend(c, t) ==
    /\ Caller(c, IF t = k.run THEN "suspendrunning" ELSE "suspend")
    /\ Exists(t)
    /\ ~Has(k, t, {"SUSPEND"})
    /\ ~(Has(k, t, {"RUNNING"}) /\ k.lock # 0)
    /\ Finish(c, OsSchedSuspend(k, t), t = k.run)

LOS_TaskResume(c, t) ==
    /\ Caller(c, "resume")
    /\ Exists(t)
    /\ Has(k, t, {"SUSPEND"})
    /\ Finish(c, OsSchedResume(k, t), OsSchedResumeResult(k, t))

LOS_TaskPriSet(c, t, p) ==
    /\ Caller(c, "priset")
    /\ Exists(t)
    /\ Finish(c, OsSchedModifyTaskSchedParam(k, t, p), OsSchedModifyResult(k, t))

\* Mutant: a delay is accepted while the scheduler is locked.
DelayLocked(c) ==
    /\ Caller(c, "delay")
    /\ Finish(c, OsSchedDelay(k), TRUE)

LOS_TaskDelay(c) ==
    /\ Caller(c, "delay")
    /\ k.lock = 0
    /\ Finish(c, OsSchedDelay(k), TRUE)

LOS_TaskYield(c) ==
    /\ Caller(c, "yield")
    /\ Finish(c, OsSchedYield(k), TRUE)

LOS_TaskLock(c) ==
    /\ Caller(c, "lock")
    /\ k.lock < MaxLock
    /\ Finish(c, [k EXCEPT !.lock = k.lock + 1], FALSE)

\* Mutant: the nesting is not checked.
UnlockUnchecked(c) ==
    /\ Caller(c, "lock")
    /\ Finish(c, [k EXCEPT !.lock = k.lock - 1], k.lock = 1)

LOS_TaskUnlock(c) ==
    /\ Caller(c, "lock")
    /\ k.lock > 0
    /\ Finish(c, [k EXCEPT !.lock = k.lock - 1], k.lock = 1)

-----------------------------------------------------------------------------
(***************************************************************************)
(* Task control blocks: recycling and creation.                            *)
(***************************************************************************)
\* memset of the TCB, then head insertion; the node must be unlinked.
OsInsertTCBToFreeList(kk, t) ==
    LET a == [kk EXCEPT !.status = [kk.status EXCEPT ![t] = {"UNUSED"}],
                        !.prio = [kk.prio EXCEPT ![t] = 0],
                        !.slice = [kk.slice EXCEPT ![t] = FALSE],
                        !.fault = kk.fault \/ t \in kk.sort]
    IN  LOS_ListAdd(a, FreeTask, t)

OsRecycleTaskResources(kk, t) ==
    IF Has(kk, t, {"JOINABLE"}) THEN kk ELSE OsInsertTCBToFreeList(kk, t)

\* One turn of OsRecycleFinishedTask's loop.
RecycleFirst(kk) ==
    LET t == kk.list[RecycleList][1]
    IN  OsRecycleTaskResources(LOS_ListDelete(kk, t), t)

\* The idle task's loop.
OsIdleTask ==
    /\ Running(Idle)
    /\ k.list[RecycleList] # <<>>
    /\ k' = RecycleFirst(k)
    /\ UNCHANGED ctx

\* A task, or the boot code, enters LOS_TaskCreate.
LOS_TaskCreate(c) ==
    /\ c = Dummy \/ "create" \in TaskCalls
    /\ InUser(c)
    /\ ctx' = [ctx EXCEPT ![c] = Thread("recycle", Idle, FALSE)]
    /\ UNCHANGED k

OsRecycleFinishedTask(c) ==
    /\ Running(c)
    /\ ctx[c].at = "recycle"
    /\ IF k.list[RecycleList] # <<>>
       THEN k' = RecycleFirst(k) /\ UNCHANGED ctx
       ELSE ctx' = [ctx EXCEPT ![c].at = "take"] /\ UNCHANGED k

TakeFreeTask(c) ==
    /\ Running(c)
    /\ ctx[c].at = "take"
    /\ IF k.list[FreeTask] = <<>>
       THEN ctx' = [ctx EXCEPT ![c] = UserThread] /\ UNCHANGED k
       ELSE LET t == k.list[FreeTask][1]
            IN  /\ k' = LOS_ListDelete(k, t)
                /\ ctx' = [ctx EXCEPT ![c] = Thread("init", t, FALSE)]

\* OsNewTaskInit up to the allocation of the stack.  Writing the TCB of a node
\* that is on a list, or on the sort link, is a fault as well.
OsNewTaskInit(kk, t, p, joinable) ==
    [kk EXCEPT !.status = [kk.status EXCEPT
                             ![t] = IF joinable THEN {"SUSPEND", "JOINABLE"} ELSE {"SUSPEND"}],
               !.prio = [kk.prio EXCEPT ![t] = p],
               !.slice = [kk.slice EXCEPT ![t] = FALSE],
               !.fault = kk.fault \/ Linked(kk, t) \/ t \in kk.sort]

\* The new thread's context is the one ArchTskStackInit builds.
LOS_TaskCreateOnly(c) ==
    /\ Running(c)
    /\ ctx[c].at = "init"
    /\ \E p \in CreatePrios, joinable \in BOOLEAN :
         LET t == ctx[c].obj
             a == OsNewTaskInit(k, t, p, joinable)
         IN  /\ joinable => t \in Joinables
             /\ \/ /\ k' = OsInsertTCBToFreeList(a, t)  \* LOS_ERRNO_TSK_NO_MEMORY
                   /\ ctx' = [ctx EXCEPT ![c] = UserThread]
                \/ /\ k' = a
                   /\ ctx' = [ctx EXCEPT ![c].at = "enqueue", ![t] = UserThread]
                \/ /\ "createonly" \in TaskCalls
                   /\ k' = a
                   /\ ctx' = [ctx EXCEPT ![c] = UserThread, ![t] = UserThread]

LOS_TaskCreateEnQueue(c) ==
    /\ Running(c)
    /\ ctx[c].at = "enqueue"
    /\ k' = OsSchedTaskEnQueue(k, ctx[c].obj)
    /\ ctx' = [ctx EXCEPT ![c] = Thread("user", Idle, k.scheduled)]

\* The boot code ends in OsSchedStart.
LOS_Start ==
    /\ ~k.scheduled
    /\ InUser(Dummy)
    /\ k' = OsSchedStart(k)
    /\ UNCHANGED ctx

-----------------------------------------------------------------------------
(***************************************************************************)
(* Join, detach, delete.                                                   *)
(***************************************************************************)
OsTaskJoinPostUnsafe(kk, t) ==
    IF Has(kk, t, {"JOINABLE"}) /\ kk.list[JoinList(t)] # <<>>
    THEN OsSchedTaskWake(kk, kk.list[JoinList(t)][1])
    ELSE kk

\* Mutant: the joining task does not wait.
JoinNoWait(kk, t) == kk

OsTaskJoinPendUnsafe(kk, t) ==
    IF Has(kk, t, {"EXIT"}) THEN kk ELSE OsSchedTaskWait(kk, JoinList(t), FALSE)

\* OsTaskJoinPendUnsafe returns LOS_OK.
JoinPendOK(kk, t) ==
    Has(kk, t, {"EXIT"}) \/ (Has(kk, t, {"JOINABLE"}) /\ kk.list[JoinList(t)] = <<>>)

\* The calls of a task that may join: LOS_TaskJoin, and LOS_TaskDetach of a
\* task that has exited, which goes on as LOS_TaskJoin.
JoinCall(c, t) ==
    /\ k.lock = 0
    /\ t # c
    /\ Exists(t)
    /\ JoinPendOK(k, t)
    /\ k' = OsTaskJoinPendUnsafe(k, t)
    /\ ctx' = [ctx EXCEPT ![c] = Thread("join", t, TRUE)]

LOS_TaskJoin(c, t) ==
    /\ c \in Joiners
    /\ Caller(c, "join")
    /\ JoinCall(c, t)

LOS_TaskDetach(c, t) ==
    /\ c \in Joiners
    /\ Caller(c, "detach")
    /\ Exists(t)
    /\ \/ Has(k, t, {"EXIT"}) /\ JoinCall(c, t)
       \/ /\ ~Has(k, t, {"EXIT"})
          /\ Has(k, t, {"JOINABLE"})
          /\ k.list[JoinList(t)] = <<>>
          /\ Finish(c, SetStatus(k, t, {"JOINABLE"}, {}), FALSE)

\* LOS_TaskJoin after its LOS_Schedule has returned.
JoinRecycle(c) ==
    /\ Running(c)
    /\ ctx[c].at = "join"
    /\ ~ctx[c].win
    /\ LET t == ctx[c].obj
       IN  k' = OsRecycleTaskResources(SetStatus(k, t, {"JOINABLE"}, {}), t)
    /\ ctx' = [ctx EXCEPT ![c] = UserThread]

\* Mutant: the TCB is not put on the recycle list.
RunningDeleteNoRecycle(kk, t) ==
    LET a == SetStatus(kk, t, {}, {"UNUSED"})
    IN  [a EXCEPT !.run = Dummy,
                  !.status = [a.status EXCEPT ![Dummy] = a.status[t] \cup {"RUNNING"}]]

\* runTask becomes the spare TCB, so that the switch does not touch t's.
OsRunningTaskDelete(kk, t) ==
    LET a == LOS_ListTailInsert(SetStatus(kk, t, {}, {"UNUSED"}), RecycleList, t)
    IN  [a EXCEPT !.run = Dummy,
                  !.status = [a.status EXCEPT ![Dummy] = a.status[t] \cup {"RUNNING"}]]

\* LOS_TaskDelete up to the test of OS_TASK_STATUS_RUNNING.
TaskExitEffect(kk, t) ==
    LET a == IF Has(kk, t, {"RUNNING"}) THEN [kk EXCEPT !.lock = 0] ELSE kk
    IN  OsSchedTaskExit(OsTaskJoinPostUnsafe(a, t), t)

TaskDeleteEffect(kk, t) ==
    LET a == TaskExitEffect(kk, t)
    IN  CASE Has(a, t, {"RUNNING"}) /\ Has(a, t, {"JOINABLE"}) -> a
          [] Has(a, t, {"RUNNING"}) /\ ~Has(a, t, {"JOINABLE"}) -> OsRunningTaskDelete(a, t)
          [] ~Has(a, t, {"RUNNING"}) -> OsRecycleTaskResources(a, t)

\* A task that deletes itself goes on, up to LOS_Schedule, as runTask.
LOS_TaskDelete(c, t) ==
    /\ Caller(c, "delete")
    /\ c = t \/ t \in Victims
    /\ Exists(t)
    /\ ~Has(k, t, {"EXIT"})
    /\ LET a == TaskDeleteEffect(k, t)
       IN  IF c = t
           THEN k' = a /\ ctx' = [ctx EXCEPT ![a.run].win = TRUE]
           ELSE Finish(c, a, Has(k, t, {"RUNNING"}))

-----------------------------------------------------------------------------
TaskCall(c) ==
    \/ LOS_TaskDelay(c)
    \/ LOS_TaskYield(c)
    \/ LOS_TaskLock(c)
    \/ LOS_TaskUnlock(c)
    \/ \E t \in Tasks : LOS_TaskJoin(c, t) \/ LOS_TaskDetach(c, t)
    \/ JoinRecycle(c)

\* Calls without a check of OS_INT_ACTIVE.
AnyCall(c) ==
    \E t \in Tasks :
        \/ LOS_TaskSuspend(c, t)
        \/ LOS_TaskResume(c, t)
        \/ \E p \in Prio : LOS_TaskPriSet(c, t, p)
        \/ LOS_TaskDelete(c, t)

CreateCall(c) ==
    \/ LOS_TaskCreate(c)
    \/ OsRecycleFinishedTask(c)
    \/ TakeFreeTask(c)
    \/ LOS_TaskCreateOnly(c)
    \/ LOS_TaskCreateEnQueue(c)

Next ==
    \/ LOS_Start
    \/ PendSV
    \/ Tick({})
    \/ \E t \in k.sort : Tick({t})
    \/ OsIdleTask
    \/ \E c \in TCB : LOS_Schedule(c)
    \/ \E c \in Tasks : TaskCall(c)
    \/ \E c \in Tasks \cup {Isr} : AnyCall(c)
    \/ \E c \in Tasks \cup {Dummy} : CreateCall(c)

vars == <<k, ctx>>

Spec == Init /\ [][Next]_vars

(***************************************************************************)
(* Fairness: the core executes the thread that runs, so that a call reaches*)
(* its LOS_Schedule; a pending PendSV is taken; and time passes, so that   *)
(* the slice of the thread that runs is used up sooner or later.  Nothing  *)
(* is assumed of what applications call or interrupt handlers do.          *)
(***************************************************************************)
SliceUsedUp ==
    /\ k.scheduled
    /\ ~k.fault
    /\ k' = LOS_SchedTickHandler(k, {}, FALSE)
    /\ UNCHANGED ctx

\* SliceUsedUp changes the state: there is a slice to use up, or a switch to ask
\* for.
SliceCounts ==
    /\ k.scheduled
    /\ ~k.fault
    /\ (k.run # Idle /\ k.slice[k.run]) \/ (LOS_CHECK_SCHEDULE(k) /\ ~k.pendsv)

\* Weak fairness of three actions, with ENABLED spelled out.
FairSpec ==
    /\ Spec
    /\ []<>~(k.pendsv /\ ~k.fault) \/ []<><<PendSV>>_vars
    /\ []<>~SliceCounts \/ []<><<SliceUsedUp>>_vars
    /\ \A c \in TCB : []<>~(Running(c) /\ ctx[c].win) \/ []<><<LOS_Schedule(c)>>_vars

-----------------------------------------------------------------------------
(***************************************************************************)
(* Properties.                                                             *)
(***************************************************************************)
\* No LOS_ASSERT fails and no list operation meets a node in the wrong place,
\* whatever the order of calls, interrupts and switches: OsSchedTaskEnQueue's
\* LOS_ASSERT(!READY), and the pendList node every TCB has only one of.
NoFault == ~k.fault

\* A TCB's one list node is where taskStatus says: READY means the queue of the
\* task's own priority (OsSchedTaskDeQueue updates the bitmap of that one), PEND
\* a list of waiters, and an unused TCB is free or waits to be recycled.
NodeWhereStatusSays ==
    /\ \A t \in Tasks : NodeOK(k, t)
    /\ \A h \in Head_ : NoDup(k.list[h])

\* g_queueBitmap, from which OsGetTopTask picks, has exactly the bits of the
\* non-empty ready queues.
BitmapExact == BitmapOK(k)

\* A task that sleeps with a timeout is on the sort link, from the switch that
\* takes it off the core to the wake-up: no timeout is lost, and none is armed
\* for a task that waits for none (OsSchedTaskSwitch, OsSchedTaskWake,
\* OsSchedTaskExit, OsSchedWakePendTimeTask).
TimeoutArmed ==
    \A t \in Tasks : t \in k.sort <=> Has(k, t, {"DELAY", "PEND_TIME"}) /\ t # k.run

\* Preemption: application code runs only while no ready task has a higher
\* priority, unless the scheduler is locked (every call that makes a task ready
\* or changes a priority ends in LOS_Schedule).
RunHighest ==
    \A t \in Tasks, r \in Tasks :
        InUser(t) /\ k.lock = 0 /\ Has(k, r, {"READY"}) => k.prio[t] <= k.prio[r]

\* A thread that has suspended, delayed or deleted itself, or that an interrupt
\* has, executes no application code before it is made ready again.
BlockedThreadStops ==
    \A t \in Tasks : InUser(t) => ~Has(k, t, Blocked \cup {"DELAY", "READY"})

\* Round robin: once LOS_Start has run, no task stays ready for ever while every other task
\* that is ready or runs has its priority or a lower one.  OsSchedTaskEnQueue puts
\* a task that has time left in front of those that wait for their turn.
NoStarvation ==
    \A t \in Tasks :
        []<>(\/ ~k.scheduled
             \/ ~Has(k, t, {"READY"})
             \/ \E u \in Tasks : Has(k, u, {"READY", "RUNNING"}) /\ k.prio[u] < k.prio[t])

\* LOS_TaskJoin takes the TCB of a task only after that task has exited and
\* while the TCB is still that task's.
JoinTakesTheDead ==
    \A c \in Tasks : Running(c) /\ ctx[c].at = "join" /\ ~ctx[c].win
                       => Has(k, ctx[c].obj, {"EXIT"})

\* A task that has exited is never scheduled again.
ExitedNeverReady == \A t \in Tasks : Has(k, t, {"EXIT"}) => ~Has(k, t, {"READY"})

\* No TCB is lost: one that is not in use is free, waits to be recycled or is
\* being created.
NoTcbLost ==
    \A t \in Tasks :
        Has(k, t, {"UNUSED"}) => \/ Where(k, t) \in {{FreeTask}, {RecycleList}}
                                 \/ \E c \in TCB : ctx[c].at = "init" /\ ctx[c].obj = t
=============================================================================
