------------------------------- MODULE Sched -------------------------------
(***************************************************************************)
(* The scheduler of LiteOS-M (kernel/src/los_sched.c) on one core.         *)
(*                                                                         *)
(* The kernel's shared state is one record k; an operator with the name of *)
(* a C function is the effect of that function on it, so that an action    *)
(* is the composition of the calls its handler makes under LOS_IntLock.    *)
(*                                                                         *)
(* Time is abstract.  A time slice is a BOOLEAN (more than                 *)
(* g_schedTimeSliceMin left or not) and any thread's slice may run out at  *)
(* any measurement; a task on the sort link may become due at any tick,    *)
(* since callers choose their timeouts freely.                             *)
(*                                                                         *)
(* k.fault records what the code cannot survive: a LOS_ASSERT that fails,  *)
(* LOS_ListDelete of a node that is on no list (a NULL dereference), and   *)
(* the insertion of a node that already is on a list.                      *)
(***************************************************************************)
EXTENDS DList, FiniteSets

CONSTANTS
    Tasks,       \* the task control blocks applications can use
    Idle,        \* the idle task's control block
    Dummy,       \* g_taskCBArray[g_taskMaxNum]: the boot thread, and the stand-in
                 \* of a running task that has deleted itself
    LowestPrio,  \* OS_TASK_PRIORITY_LOWEST (0 is the highest priority)
    WaitObjs     \* the IPC objects that have a list of waiting tasks

ASSUME SchedAssumption ==
    /\ Idle \notin Tasks
    /\ Dummy \notin Tasks
    /\ Idle # Dummy
    /\ IsFiniteSet(Tasks)
    /\ LowestPrio \in Nat

VARIABLES
    k,    \* the kernel state
    ctx   \* ctx[t]: where thread t stands inside a kernel call

TCB == Tasks \cup {Idle, Dummy}

Prio == 0..LowestPrio

\* The bits of taskStatus the kernel's control depends on.
Flag == {"UNUSED", "SUSPEND", "READY", "PEND", "RUNNING", "DELAY", "TIMEOUT",
         "PEND_TIME", "EXIT", "JOINABLE"}

\* Mutant of Blocked: an exited task counts as able to run.
BlockedButExit == {"PEND", "SUSPEND", "UNUSED"}

\* OS_TASK_BLOCKED_STATUS
Blocked == {"PEND", "SUSPEND", "EXIT", "UNUSED"}

-----------------------------------------------------------------------------
(***************************************************************************)
(* The lists threaded through pendList, the one list node of a TCB.        *)
(***************************************************************************)
Pri(p) == <<"priQueue", p>>      \* g_priQueueList[p]
JoinList(t) == <<"join", t>>     \* taskCB->joinList
WaitList(o) == <<"wait", o>>     \* the waiters of an IPC object
FreeTask == <<"free", 0>>        \* g_losFreeTask
RecycleList == <<"recycle", 0>>  \* g_taskRecycleList

Blockers == {JoinList(t) : t \in Tasks} \cup {WaitList(o) : o \in WaitObjs}

Head_ == {Pri(p) : p \in Prio} \cup Blockers \cup {FreeTask, RecycleList}

\* The lists t's node is on.
Where(kk, t) == {h \in Head_ : t \in Range(kk.list[h])}

Linked(kk, t) == Where(kk, t) # {}

LOS_ListDelete(kk, t) ==
    [kk EXCEPT !.list = [h \in Head_ |-> Without(kk.list[h], t)],
               !.fault = kk.fault \/ ~Linked(kk, t)]

LOS_ListAdd(kk, h, t) ==
    [kk EXCEPT !.list = [kk.list EXCEPT ![h] = <<t>> \o kk.list[h]],
               !.fault = kk.fault \/ Linked(kk, t)]

LOS_ListTailInsert(kk, h, t) ==
    [kk EXCEPT !.list = [kk.list EXCEPT ![h] = Append(kk.list[h], t)],
               !.fault = kk.fault \/ Linked(kk, t)]

\* The status of t with the flags of `off' cleared and those of `on' set.
SetStatus(kk, t, off, on) ==
    [kk EXCEPT !.status = [kk.status EXCEPT ![t] = (kk.status[t] \ off) \cup on]]

Has(kk, t, flags) == kk.status[t] \cap flags # {}

-----------------------------------------------------------------------------
(***************************************************************************)
(* What the kernel state is made of, and when it hangs together.           *)
(***************************************************************************)
KernelState ==
    [status : [TCB -> SUBSET Flag], prio : [TCB -> 0..(LowestPrio + 1)],
     slice : [TCB -> BOOLEAN], list : [Head_ -> Seq(Tasks)], bitmap : SUBSET Prio,
     sort : SUBSET Tasks, run : TCB, lock : Nat, scheduled : BOOLEAN,
     pendsv : BOOLEAN, fault : BOOLEAN]

ThreadState(at) == [at : at, obj : TCB \cup WaitObjs, win : BOOLEAN]

\* The node of t is where taskStatus says.
NodeOK(kk, t) ==
    /\ Has(kk, t, {"READY"}) => Where(kk, t) = {Pri(kk.prio[t])}
    /\ Has(kk, t, {"PEND"}) => \E h \in Blockers : Where(kk, t) = {h}
    /\ ~Has(kk, t, {"READY", "PEND"}) => Where(kk, t) \in {{}, {FreeTask}, {RecycleList}}
    /\ Where(kk, t) \in {{FreeTask}, {RecycleList}} => Has(kk, t, {"UNUSED"})

BitmapOK(kk) == \A p \in Prio : p \in kk.bitmap <=> kk.list[Pri(p)] # <<>>

-----------------------------------------------------------------------------
(***************************************************************************)
(* Ready queues.  The bitmap caches which queues are non-empty.            *)
(***************************************************************************)
MarkQueue(kk, p) ==
    [kk EXCEPT !.bitmap = IF kk.list[Pri(p)] = <<>> THEN kk.bitmap \cup {p} ELSE kk.bitmap]

OsSchedPriQueueEnHead(kk, t) ==
    LOS_ListAdd(MarkQueue(kk, kk.prio[t]), Pri(kk.prio[t]), t)

OsSchedPriQueueEnTail(kk, t) ==
    LOS_ListTailInsert(MarkQueue(kk, kk.prio[t]), Pri(kk.prio[t]), t)

\* Mutant: the bit of an emptied queue is not cleared.
PriQueueDeleteKeepBit(kk, t) == LOS_ListDelete(kk, t)

OsSchedPriQueueDelete(kk, t) ==
    LET d == LOS_ListDelete(kk, t)
    IN  [d EXCEPT !.bitmap = IF d.list[Pri(d.prio[t])] = <<>>
                             THEN d.bitmap \ {d.prio[t]}
                             ELSE d.bitmap]

OsSchedTaskEnQueue(kk, t) ==
    LET a == [kk EXCEPT !.fault = kk.fault \/ Has(kk, t, {"READY"})]
        b == [a EXCEPT !.slice = [a.slice EXCEPT ![t] = TRUE]]
        q == CASE t = Idle               -> a
               [] t # Idle /\ a.slice[t]  -> OsSchedPriQueueEnHead(a, t)
               [] t # Idle /\ ~a.slice[t] -> OsSchedPriQueueEnTail(b, t)
    IN  SetStatus(q, t, {"PEND", "SUSPEND", "DELAY", "PEND_TIME"}, {"READY"})

OsSchedTaskDeQueue(kk, t) ==
    IF Has(kk, t, {"READY"})
    THEN SetStatus(IF t = Idle THEN kk ELSE OsSchedPriQueueDelete(kk, t),
                   t, {"READY"}, {})
    ELSE kk

\* CLZ(g_queueBitmap): the highest priority whose bit is set.
TopPrio(kk) == CHOOSE p \in kk.bitmap : \A q \in kk.bitmap : p <= q

OsGetTopTask(kk) ==
    IF kk.bitmap = {} THEN Idle ELSE kk.list[Pri(TopPrio(kk))][1]

\* A set bit over an empty queue would make OsGetTopTask return the list head
\* itself as if it were a task.
StaleBit(kk) == kk.bitmap # {} /\ kk.list[Pri(TopPrio(kk))] = <<>>

-----------------------------------------------------------------------------
(***************************************************************************)
(* The sort link of timed waits (k.sort: the tasks that are on it).        *)
(***************************************************************************)
OsAdd2SortLink(kk, t) ==
    [kk EXCEPT !.sort = kk.sort \cup {t},
               !.fault = kk.fault \/ t \in kk.sort]

\* A node whose responseTime is invalid is on no sort link and left alone.
OsDeleteSortLink(kk, t) == [kk EXCEPT !.sort = kk.sort \ {t}]

\* Mutant: a suspended task keeps the flags of the wait that timed out.
WakeKeepsDelay(kk, t) ==
    IF Has(kk, t, {"SUSPEND"}) \/ ~Has(kk, t, {"PEND", "DELAY"})
    THEN OsDeleteSortLink(kk, t)
    ELSE LET a == IF Has(kk, t, {"PEND"}) THEN LOS_ListDelete(kk, t) ELSE kk
         IN  OsSchedTaskEnQueue(OsDeleteSortLink(a, t), t)

\* A timed wait that has become due: the task leaves the sort link, and the
\* list it pends on.
OsSchedWakePendTimeTask(kk, t) ==
    LET pended == Has(kk, t, {"PEND"})
        a == SetStatus(OsDeleteSortLink(kk, t), t, {"PEND", "PEND_TIME", "DELAY"},
                       IF pended THEN {"TIMEOUT"} ELSE {})
        b == IF pended THEN LOS_ListDelete(a, t) ELSE a
    IN  CASE ~Has(kk, t, {"PEND", "DELAY"}) -> OsDeleteSortLink(kk, t)
          [] Has(kk, t, {"PEND", "DELAY"}) /\ Has(kk, t, {"SUSPEND"}) -> b
          [] Has(kk, t, {"PEND", "DELAY"}) /\ ~Has(kk, t, {"SUSPEND"}) ->
                OsSchedTaskEnQueue(b, t)

-----------------------------------------------------------------------------
(***************************************************************************)
(* State changes of one task.                                              *)
(***************************************************************************)
OsSchedTaskExit(kk, t) ==
    LET a == CASE Has(kk, t, {"READY"}) -> OsSchedTaskDeQueue(kk, t)
               [] ~Has(kk, t, {"READY"}) /\ Has(kk, t, {"PEND"}) ->
                     SetStatus(LOS_ListDelete(kk, t), t, {"PEND"}, {})
               [] ~Has(kk, t, {"READY", "PEND"}) -> kk
        b == IF Has(a, t, {"DELAY", "PEND_TIME"})
             THEN SetStatus(OsDeleteSortLink(a, t), t, {"DELAY", "PEND_TIME"}, {})
             ELSE a
    IN  SetStatus(b, t, {}, {"EXIT"})

OsSchedYield(kk) == [kk EXCEPT !.slice = [kk.slice EXCEPT ![kk.run] = FALSE]]

OsSchedDelay(kk) == SetStatus(kk, kk.run, {}, {"DELAY"})

\* The running task joins a list of waiters; timed: ticks # LOS_WAIT_FOREVER.
OsSchedTaskWait(kk, h, timed) ==
    SetStatus(LOS_ListTailInsert(kk, h, kk.run), kk.run, {},
              IF timed THEN {"PEND", "PEND_TIME"} ELSE {"PEND"})

\* Mutant: a waiter that has not been switched out yet is queued as well.
WakeRunning(kk, t) ==
    LET a == SetStatus(LOS_ListDelete(kk, t), t, {"PEND"}, {})
        b == IF Has(a, t, {"PEND_TIME"})
             THEN SetStatus(OsDeleteSortLink(a, t), t, {"PEND_TIME"}, {})
             ELSE a
    IN  IF Has(b, t, {"SUSPEND"}) THEN b ELSE OsSchedTaskEnQueue(b, t)

OsSchedTaskWake(kk, t) ==
    LET a == SetStatus(LOS_ListDelete(kk, t), t, {"PEND"}, {})
        b == IF Has(a, t, {"PEND_TIME"})
             THEN SetStatus(OsDeleteSortLink(a, t), t, {"PEND_TIME"}, {})
             ELSE a
    IN  IF Has(b, t, {"SUSPEND", "RUNNING"}) THEN b ELSE OsSchedTaskEnQueue(b, t)

\* Mutant: a suspended task stays in its ready queue.
SuspendNoDeQueue(kk, t) == SetStatus(kk, t, {}, {"SUSPEND"})

\* LOSCFG_KERNEL_PM is 0: no task is frozen.
OsSchedSuspend(kk, t) ==
    SetStatus(OsSchedTaskDeQueue(kk, t), t, {}, {"SUSPEND"})

\* The result is TRUE for a task that is not delayed or pending.
OsSchedResumeResult(kk, t) == ~Has(kk, t, {"DELAY", "PEND"})

OsSchedResume(kk, t) ==
    LET a == SetStatus(kk, t, {"SUSPEND"}, {})
    IN  IF OsSchedResumeResult(kk, t) THEN OsSchedTaskEnQueue(a, t) ELSE a

SetPrio(kk, t, p) == [kk EXCEPT !.prio = [kk.prio EXCEPT ![t] = p]]

\* Mutant: no reschedule when the running task's priority changes.
ModifyReadyOnly(kk, t) == Has(kk, t, {"READY"})

OsSchedModifyResult(kk, t) == Has(kk, t, {"READY", "RUNNING"})

\* Mutant: a ready task stays in the queue of its old priority.
ModifyInPlace(kk, t, p) == SetPrio(kk, t, p)

OsSchedModifyTaskSchedParam(kk, t, p) ==
    IF Has(kk, t, {"READY"})
    THEN OsSchedTaskEnQueue(SetPrio(OsSchedTaskDeQueue(kk, t), t, p), t)
    ELSE SetPrio(kk, t, p)

-----------------------------------------------------------------------------
(***************************************************************************)
(* Switching.  ArchTaskSchedule pends the PendSV exception; it is taken    *)
(* before the interrupted thread runs again, after the interrupts that are *)
(* already there.                                                          *)
(***************************************************************************)
LOS_CHECK_SCHEDULE(kk) == kk.lock = 0

LOS_ScheduleEffect(kk) ==
    [kk EXCEPT !.pendsv = kk.pendsv \/ (kk.scheduled /\ LOS_CHECK_SCHEDULE(kk))]

\* Mutant: time is never charged.
TimeSliceKept(kk, t, left) == kk

\* OsTimeSliceUpdate charges the time since startTime to the slice.
OsTimeSliceUpdate(kk, t, left) ==
    IF t = Idle THEN kk ELSE [kk EXCEPT !.slice = [kk.slice EXCEPT ![t] = kk.slice[t] /\ left]]

\* OsSchedTaskSwitch up to the choice of the next task.
PutBack(kk) ==
    CASE Has(kk, kk.run, {"PEND_TIME", "DELAY"}) -> OsAdd2SortLink(kk, kk.run)
      [] ~Has(kk, kk.run, {"PEND_TIME", "DELAY"}) /\ Has(kk, kk.run, Blocked) -> kk
      [] ~Has(kk, kk.run, {"PEND_TIME", "DELAY"} \cup Blocked) ->
            OsSchedTaskEnQueue(kk, kk.run)

SwitchTo(kk, new) ==
    LET a == SetStatus(SetStatus(kk, kk.run, {"RUNNING"}, {}), new, {}, {"RUNNING"})
        b == IF new = kk.run THEN kk ELSE [a EXCEPT !.run = new]
    IN  [OsSchedTaskDeQueue(b, new) EXCEPT !.pendsv = FALSE]

OsSchedTaskSwitch(kk, left) ==
    LET a == PutBack(OsTimeSliceUpdate(kk, kk.run, left))
    IN  IF StaleBit(a) THEN [a EXCEPT !.fault = TRUE] ELSE SwitchTo(a, OsGetTopTask(a))

\* One due task of OsSchedScanTimerList's loop, then the rest of
\* LOS_SchedTickHandler; a scan that wakes n tasks is n of these in a row.
\* due = {}: nothing is due, or the tick was armed for a time slice.
LOS_SchedTickHandler(kk, due, left) ==
    LET a == IF due = {} THEN kk
             ELSE OsSchedWakePendTimeTask(kk, CHOOSE t \in due : TRUE)
    IN  LOS_ScheduleEffect(OsTimeSliceUpdate(a, a.run, left))

OsSchedStart(kk) ==
    LET new == OsGetTopTask(kk)
        a == [SetStatus(kk, new, {}, {"RUNNING"}) EXCEPT !.run = new]
    IN  [OsSchedTaskDeQueue(a, new) EXCEPT !.scheduled = TRUE]

-----------------------------------------------------------------------------
(***************************************************************************)
(* The kernel's own actions, shared by every module that adds system calls.*)
(* A thread runs while it is runTask and no switch is pending; between the *)
(* LOS_IntRestore of a call and its LOS_Schedule lies a window (win) in    *)
(* which interrupts are served.                                            *)
(***************************************************************************)
Running(t) == k.run = t /\ ~k.pendsv /\ ~k.fault

\* Thread t executes application code and may enter the kernel.
InUser(t) == Running(t) /\ ctx[t].at = "user" /\ ~ctx[t].win

Thread(at, obj, win) == [at |-> at, obj |-> obj, win |-> win]

UserThread == Thread("user", Idle, FALSE)

\* The LOS_Schedule() at the end of a call's window.
LOS_Schedule(t) ==
    /\ Running(t)
    /\ ctx[t].win
    /\ k' = LOS_ScheduleEffect(k)
    /\ ctx' = [ctx EXCEPT ![t].win = FALSE]

PendSV ==
    /\ k.pendsv
    /\ ~k.fault
    /\ \E left \in BOOLEAN : k' = OsSchedTaskSwitch(k, left)
    /\ UNCHANGED ctx

\* The tick interrupt; due holds at most one task.
Tick(due) ==
    /\ k.scheduled
    /\ ~k.fault
    /\ \E left \in BOOLEAN : k' = LOS_SchedTickHandler(k, due, left)
    /\ UNCHANGED ctx
=============================================================================
