# LiteOS-M in TLA+

LiteOS-M is a real-time kernel for one small core: tasks with priorities, a
tick, interrupts, and IPC objects that tasks wait for. This directory holds
TLA+ modules of its core, TLC instances of them and TLAPS proofs. Paths below are
relative to the repository (`kernel/src/los_sched.c`); `PROJECT.json` maps every
definition to the lines it models.

## 1. Inventory

| part | state | operations | works with |
|---|---|---|---|
| lists, `utils/los_list.h` | two pointers per node | add, insert, delete, empty | everything; a TCB has one node, `pendList`, for all lists |
| scheduler, `los_sched.c` | `g_priQueueList`, `g_queueBitmap`, `g_losTask`, `g_losTaskLock`, time slices, the tick's response time | enqueue, dequeue, wait, wake, delay, suspend, resume, priority change, switch, tick, start | called by every blocking call; the tick handler and PendSV call it asynchronously |
| tasks, `los_task.c` | TCB array, `g_losFreeTask`, `g_taskRecycleList`, `taskStatus` bits | create, delete, suspend, resume, delay, yield, priorities, lock, join, detach, idle loop | scheduler, memory |
| semaphores, `los_sem.c` | count, maximum, waiters | create, delete, pend, post | scheduler |
| mutexes, `los_mux.c` | owner, nesting, saved priority, waiters | create, delete, pend, post | scheduler, priorities |
| events, `los_event.c` | bits, waiters; mask and mode in the TCB | init, poll, read, write, clear, destroy | scheduler |
| queues, `los_queue.c` | ring buffer, two counters, three lists of waiters; `msg` in the TCB | create, delete, read, write at both ends, mail allocation | scheduler, membox |
| software timers, `los_swtmr.c` | control blocks with a generation in their ID, free list, sort link, handler queue | create, start, stop, delete, expiry, timer task | sort link, queue, tick |
| sort link, `los_sortlink.c` | nodes in the order of response times | add, delete, next expiry | scheduler, timers |
| tick, `los_tick.c`, `arch/arm/cortex-m4/gcc/los_timer.c` | base of the clock, reload and pending interrupt of the tick timer, `g_schedResponseTime` and `ID` in `los_sched.c` | read the clock, reload, tick handler | scheduler, timers |
| memory pools, `mm/los_memory.c` | nodes with headers, free lists by size class with a bitmap, used size | alloc, aligned alloc, free, realloc, free by task, add a region | everything that is created |
| membox, `mm/los_membox.c` | free list of blocks of one size, magic | alloc, free | mail pools of queues |
| power management, `components/power/los_pm.c` | wake locks by name and in total, mode, nodes with callbacks | request, delay, release, register, set mode, suspend | software timers; called by the idle task |
| ports, `arch/` | registers | interrupt lock, context switch | the scheduler calls it |
| other components, `components/` | signals, CPU usage, low memory killer, file systems, shell, ... | optional | the kernel's calls and hooks |
| KAL, `kal/` | none of its own to speak of | CMSIS and POSIX names for the kernel's calls | the kernel's calls |

What is hard here:

- **Interleaving.** A call does its work between `LOS_IntLock` and
  `LOS_IntRestore`, and then calls `LOS_Schedule`. In the window between the two,
  interrupt handlers see the running task with `PEND`, `DELAY` or `SUSPEND` set, and
  may wake, suspend, resume or delete it. The task itself goes on only when its
  switch, its wake-up and the switch back have happened, and then reads state
  (`TIMEOUT`, `msg`, event bits, ring indices) that others have changed.
- **One node, many lists.** `pendList` links a TCB into a ready queue, a list of
  waiters, the free list or the recycle list. Inserting it twice or removing it
  from nowhere corrupts memory; only `taskStatus` tells where the node is.
- **Timeouts.** A wait ends by a post, by its timeout or by the task's deletion, and
  exactly one of them must take the task from the list and from the sort link.
- **Ownership that is handed over.** A post gives its token, slot, block or mutex
  directly to a waiter that has not run yet.
- **TCBs are recycled** by the idle task, creators, joiners and deleters, partly
  in interruptible loops.
- **Priorities and fairness.** Every path that makes a task ready must reschedule;
  priority inheritance changes priorities behind the scheduler's back; round
  robin depends on the remaining time slice.

- **Time.** The tick is armed for the next timeout or the end of the slice, within
  tolerances; the clock is read off the timer that is being reloaded, and unsigned
  differences must not underflow.
- **Messages that outlive their subject.** An expiry waits in a queue, by ID, while its
  timer is stopped, deleted or created again; the timer of a delay lock may be gone
  before it is started.
- **Callbacks with interrupts on.** A suspension calls device and system callbacks;
  locks taken meanwhile must stop it, and every way out must undo what was done.
- **Long sequences of allocations.** Splits and merges keep back pointers, size
  classes and the used size up to date by hand.

The hazards, each with its line, are listed in `PROJECT.json`.

## 2. Modules

```
DList     Semaphore   Mutex   BoundedDeque      sequences; abstract specifications
  |           |         |          |
Sched         |         |          |            los_sched.c, los_sortlink.c
  |           |         |          |
Task ----+----+---------+----------+--- ...     los_task.c, los_init.c
         |    |         |          |
       Event Sem       Mux       Queue          los_event.c, los_sem.c, los_mux.c, los_queue.c
                                   |
                                Membox          los_membox.c

SortLink --- Tick                               los_sortlink.c, los_tick.c, los_timer.c, los_sched.c
Swtmr ------ Pm                                 los_swtmr.c, los_pm.c
Mem                                             los_memory.c

MCTask, MCSem, MCMux, MCEvent, MCQueue,
MCTick, MCSwtmr, MCPm, MCMem                    instances for TLC

SchedProofs                                     proofs: what every scheduler operator keeps
  |
TaskProofs                                      ... every action of Task
  |
SemProofs, MuxProofs, EventProofs, QueueProofs  ... IPC, and its refinements
TickProofs                                      ... the clock, the sort links, the tick
PmProofs                                        ... software timers, power management
```

Every IPC module EXTENDS Task: its next-state relation contains all steps of the
scheduler and of the task calls, so that posts, timeouts, switches, suspensions and
deletions interleave freely.

### Sched

`k` is the kernel's shared state, one record: `status`, `prio` and `slice` per TCB,
`list` (the sequence of every list head: ready queues, waiters, free and recycle
list), `bitmap`, `sort` (the tasks on the sort link), `run`, `lock`, `scheduled`,
`pendsv` and `fault`. An operator with the name of a C function is that function as
a map of such records; an action composes the calls the handler makes in one
critical section. `ctx[t]` says where thread `t` stands: `at` (its own code, or
which half of a call), `obj` (what the call is about) and `win` (in the window
before `LOS_Schedule`).

- `fault` records what the code does not survive: a failing `LOS_ASSERT`,
  `LOS_ListDelete` of a node that is on no list, insertion of a linked node, a
  bitmap bit without a queue, freeing or overwriting a TCB that is linked.
- Time is abstract. A slice is "more than the minimum left" or not and may run out
  at any measurement; any task on the sort link may become due at any tick, as
  callers choose their timeouts freely. A tick wakes at most one task: a scan that
  wakes several is several ticks in a row, since the scan ends in the same
  `LOS_Schedule` and nothing else runs in between. The real order of response times
  only removes behaviours.
- `ArchTaskSchedule` pends PendSV; the thread does not go on before the switch, but
  other interrupts may come first. `PendSV`, `Tick` and `LOS_Schedule` are the
  kernel's own actions.

### Task

Calls of tasks and, for calls without a test of `OS_INT_ACTIVE`, of interrupt handlers
(`Isr`). Which calls an instance makes is a parameter (`TaskCalls`, `IsrCalls`), as are
the tasks that may be deleted by others (`Victims`), joined (`Joinables`) and that join
(`Joiners`). Creation is modelled in its interruptible parts: the loop of
`OsRecycleFinishedTask`, taking a TCB, `OsNewTaskInit` with a failing stack
allocation, and the enqueue of `LOS_TaskCreate`. Join has two halves around its wait. A
call that returns an error changes nothing and is no action. `Known` says that
nobody uses a task ID before `LOS_TaskCreate` has returned it.

### Sem, Mux, Event, Queue

Each blocking call is two actions: the part up to the wait, and the part after
`LOS_Schedule` has come back (`SemPendReturn`, `MuxPendReturn`, `EventReadReturn`,
`QueueOperateReturn`, `MailAllocReturn`). `LOS_EventRead` and `LOS_EventWrite` test the control
block before they lock interrupts and not again: the tests and the section
(`EventReadSection`, `EventWriteSection`) are two actions, and `Through` is a fault if the event was
closed in between. `LOS_EventInit`, which locks nothing, is one. The lists of waiters are
`k.list[WaitList(o)]`. Event masks are sets of bits, a message is a value, and the
ring buffer of a queue is kept with its indices and counters. `Queue` has one
queue, because queues share only the list of unused control blocks. `Mux` has a history
variable `base`, the priority a task was created with.

The abstract specifications know nothing of scheduler, TCBs or interrupts:

- `Semaphore`: tokens, FIFO waiters, the tasks that were handed a token and those
  whose wait has timed out. Refinement: a task inside `LOS_SemPend` that is no longer
  `PEND` has been handed a token, or is late if `TIMEOUT` is set.
- `Mutex`: owner, depth, FIFO waiters, hand-over, timeouts; an owner that is waiting
  cannot unlock.
- `BoundedDeque`: a sequence of at most `cap` messages. Refinement: the ring from
  `head`, as long as the readable counter plus the reads already granted to woken
  tasks.

### Membox

Operators on a record (free list, marked blocks, count), used by `Queue` for the mail
pool: `OsQueueMailFree` relies on `OsCheckBoxMem`, which refuses a block without magic.

### SortLink and Tick

`SortLink` has insertion and the next expiry as operators on a sequence of nodes.
`Tick` is the tickless part of the scheduler with real (integer) time: `hw` is SysTick, `clk`
the base of the clock, `resp` what the tick is armed for, `at` and `links` the response
times and the two sort links, `run`, `start` and `slice` the running task. A kernel step
is a record with what it may change, so that the operators compose as the C functions
do: `LOS_SwtmrStart` is stop, arm, insert, arm. Which ready task runs is any (`Sched`
says which). Code takes no time; interrupts may be masked for `MaskMax` units. The
arithmetic is that of UINT64: a slice end in the past gives the longest period.

`now` grows without bound, but nothing depends on the absolute time: the view of
`MCTick` is the state relative to `now`, with slices below the minimum identified, and
makes the state space finite without cutting any behaviour.

### Swtmr

`cb` holds the control blocks: state, mode, handler argument, `life` (the generation in
the ID) and `armed` (on the sort link). `expired` is the handler queue, `swtTask` where the
timer task stands: reading, checking the ID, in a handler. Any armed timer may be the
next to expire. `creating` are the blocks `LOS_SwtmrCreate` has taken and not yet filled
in. The history variable `lost` has the timers whose last expiry found the queue full.
IDs wrap after 2^32 / LIMIT deletions; `IdUnused` says that this does not happen while
a message waits.

### Pm

EXTENDS Swtmr. `pm` and `locks` are the control block and the list of locks; `thr[c]` is
where caller `c` (the timer task is one) stands in `LOS_PmTimeLockRequest` or
`LOS_PmLockRelease`, which are several critical sections: create a timer, fill it in and
count the lock, start it, or undo; release, then delete the timer. `sleep` is where
`OsPmSuspendSleep` stands, `devDown` whether the device is suspended, `fault` whether a
node that is not registered was used.

The calls walk the list of locks with interrupts locked, but from a node they have read before
(`los_pm.c:580`, `:639`). `ReadLockList` is that read, a step of its own, and `seen[c]` what it has found:
the head of an empty list, or a node, which becomes `deleted` when somebody takes it out. A
release that starts from the head finds nothing, whatever the list has by then (`Found`). A walk
from a deleted node, and a request that misses an entry inserted since, go astray (`Walk`): the
code runs through freed memory or inserts a second entry. That this happens is modelled,
what follows is not: afterwards only the suspension takes steps. With several names
the deleted node may or may not have been the first, so the order of the list is left open.

### Mem

`pool.head` maps addresses to node headers, `pool.list` and `pool.bitmap` are the free
lists, `mem` the words of used nodes as far as they matter: the first word of a block
and the word with the gap of an aligned one. Addresses are in words. Every call is one
critical section, hence one action (`LOS_MemRegionsAdd` takes no lock and is taken to be called
while nobody else uses the pool); `LOS_MemFreeByTaskID` is the loop over the nodes
that it frees and merges under its own feet. A region added behind a gap makes the old
end node a gap node.

## 3. Properties and runs

| run | instance | what it shows |
|---|---|---|
| `task_core` | 3 tasks, 2 priorities, every call but join, interrupts that suspend any task | `TaskTypeOK`, `NoFault`, `NodeWhereStatusSays`, `BitmapExact`, `TimeoutArmed`, `RunHighest`, `BlockedThreadStops` |
| `task_join` | 3 joinable tasks, one of which joins and detaches | `NoFault`, `JoinTakesTheDead`, `ExitedNeverReady`, `NoTcbLost` |
| `task_live` | 3 tasks, 2 priorities, delays, yields | `NoStarvation` under `FairSpec` |
| `sem` | 2 tasks, 1 semaphore with limit 1 or 2, interrupts that post, suspend, resume and delete | `SemInv`, `NoFault`, `RunHighest`, `ImplementsSemaphore` |
| `mux` | 3 tasks, 2 priorities, 1 mutex, nesting up to 2 | `MuxInv`, `NoFault`, `ImplementsMutex` |
| `event` | 2 tasks, 2 bits, every mask and mode, tests and sections apart, interrupts that write | `EventInv`, `RunHighest` |
| `queue` | 2 tasks, lengths 1 and 2, 2 messages, 1 mail block, interrupts that read and write | `QueueInv`, `MailHanded`, `ImplementsDeque` |
| `swtmr` | 2 timers, every mode, 3 generations, a handler queue of 2 | `SwtmrInv`, `TickingIsTiming`, `ExpiryHandled` under fairness |
| `pm` | 2 callers and the timer task, 1 name, 1 timer, device and system nodes | `PmInv`, `TimersKept`, `SuspensionSafe`, `DelayLockReleased` under fairness |
| `tick` | 2 tasks, 1 periodic timer, a tick of 6 units, slices of 4 | `LinksOrdered`, `ClockTrue`, `TimeoutsInTime`, `SlicesEnd` |
| `mem` | 3 blocks of 3 sizes, 2 tasks, a pool of 22 words and a region of 8 | `PoolSound`, `BlocksSound`, `SearchComplete`, `UsedAccounted`, `ContentsKept` |
| `task_isr_resume` | 2 tasks; a handler resumes | `NoFault` fails |

A property that is a conjunction has its parts, each with its own comment, above it in
the module: `QueueInv` is the type, `SlotsAccounted` and `NobodyWaitsInVain`.

What fails, and why: in `task_isr_resume` a task suspends itself; before its
`LOS_Schedule`, a handler resumes it. `OsSchedResume` enqueues the task although it is
`RUNNING` (`OsSchedTaskWake` tests that bit), and the switch enqueues it again:
`LOS_ASSERT(!READY)` fails, and without assertions the node is in the queue twice.

The other instances leave out some calls, or constrain when they come, because a
property fails with them. TLC shows each of these when the instance is changed as said:

- *Two joiners* (`task_join` with several `Joiners`: `JoinTakesTheDead`). A task has exited
  and its joiner has been woken; before the joiner runs, a second task joins the exited
  one, returns at once and recycles the TCB. The first joiner recycles it again, or the
  TCB of the task created in it since.
- *Exited tasks revived* (`task_join` with suspend and resume: `ExitedNeverReady`).
  `LOS_TaskSuspend` and `LOS_TaskResume` accept a joinable task that has exited.
- *Missing reschedules* (`RunHighest`). Deleting a joinable task whose joiner waits, and
  `LOS_MuxPost` without waiters that lowers the caller's priority, do not call
  `LOS_Schedule`; the next tick repairs it.
- *Starvation* (`task_live` with suspend and resume). Two tasks of equal priority that suspend
  and resume each other re-enter their queue at the head, before a third one.
- *Inheritance at hand-over* (not stated). `LOS_MuxPost` serves waiters first come
  first served; the new owner inherits nothing from those that still wait, although
  `los_mux.h` says the priority inheritance protocol is supported.
- *Nested mutexes* (`mux` with 2 mutexes: `BoostUndone`). A task takes `m2` while it has
  inherited a priority through `m1`; `LOS_MuxPend` saves the inherited priority as the one
  to restore. Released in the order `m1`, `m2`, it gets it back for good.
- *Events closed in use* (`event` with `CloseInUse`: `EventInv`). `LOS_EventRead` and `LOS_EventWrite` test the
  list pointers before they lock interrupts (`los_event.c:80`, `:157`): a `LOS_EventDestroy` in between
  leaves them with NULL pointers, to walk or to wait on. `LOS_EventInit` tests nothing and drops
  the tasks that wait. With `CloseInUse` FALSE an event is destroyed only while nobody is
  between tests and section, and initialised only while nobody waits.
- *Mail under the scheduler lock* (`queue` with lock: `MailHanded`). `OsQueueMailAlloc` does not
  test `g_losTaskLock`: the wait returns at once, `msg` is NULL, and the task runs while
  it is on `memList`.
- *Mail that was not allocated* (not modelled). With a waiter `OsQueueMailFree` hands over whatever
  pointer it gets; `OsCheckBoxMem` is asked only without one. Applications free what they have.
- *Deleted in `OsQueueOperate`* (`queue` with delete: `SlotsAccounted`). A task deleted between its
  wake-up and its return takes a slot with it.
- *One-off timers started again* (`swtmr` with `RestartOnce`: `TickingIsTiming`). A one-off timer
  that is started after its expiry and before the timer task has read it is deleted
  by the timer task while it is on the sort link: `OsSwtmrTask` calls `OsSwtmrDelete`
  without `OsSwtmrStop`.
- *A full handler queue* (`swtmr`, `pm`). `OsSwtmrTimeoutHandle` ignores the result of
  `LOS_QueueWriteCopy`. The queue has one entry per timer, but messages of deleted
  timers stay in it: a delay lock whose expiry finds it full is never released, though
  `los_pm.h` says "After the specified interval, the lock is automatically released".
  The properties except the timers in `lost`.
- *The list of locks read too early* (`pm`: `LockTotal`, `NoStrayTimer` and `DelayLockReleased` except `Astray`).
  Two callers, or one and the timer task, are enough: one reads the first node, the other
  releases it and frees it. The walk from there counts a lock in freed memory, finds a NULL
  pointer, or releases nothing; from the head of a list that was empty, a request makes a second entry of
  the name. The properties claim nothing once a call has gone astray.
- *The total at its limit* (`pm` with `Overfull` and two names: `LockTotal`). At `OS_PM_LOCK_MAX` `OsPmLockRequest` inserts or counts the
  entry of the name, does not count the total (`los_pm.c:613`) and reports a failure.
- *No device* (`pm` with `Unregister`: `NodesThere`). `OsPmSuspendCheck` uses `pm->device` without a test
  (`los_pm.c:246`), and it is NULL before the first `LOS_PmRegister` and after `LOS_PmUnregister`; nodes
  that go during a suspension take the handlers with them that it is about to call. With
  `Unregister` FALSE the device is registered from the start and stays, and the others come
  and go between suspensions.
- *A lock in `suspendCheck`* (not modelled). The callback runs after the test of `isWake` and `lock`
  (`los_pm.c:273`, `:278`): a lock it requests does not stop the sleep. Only that the mode is read again
  after it is modelled.
- *Delay locks by name* (not stated). The handler of a delay lock and the failure path of
  `LOS_SwtmrStart` release by name: if the lock has been released and requested
  by another caller since, that one's lock goes.
- *Timer calls in an overrun* (`tick` with `CallsInOverrun`: `TimeoutsInTime`). While the end of
  a slice is past, aligned with a timeout, starting a timer computes
  `nextExpireTime - currTime` below zero; the period is then the longest possible.
- *Reload over a pending tick* (`tick` with `CallsOverTick`: `ClockTrue`). With interrupts locked and
  the tick pending, arming it clears the pending interrupt; if the clock has not been
  read since the wrap, a whole period is lost.
- *Tolerances* (`tick` with a tick of 4 and a precision of 3): when a tick is hardly longer than
  the precision, each wake-up may postpone a timeout, without bound.
- *`OsSwtmrResponseTimeReset`* (not modelled) takes a node from the link, inserts it again and
  goes on from its new place, so that it skips nodes.
- *Realloc of aligned blocks* (`mem` with `ReallocAligned`: `ContentsKept`). `LOS_MemRealloc` returns the
  real pointer, not the aligned one, and the data is not moved: `los_memory.h`
  promises the contents.
- *`LOS_MemInit` over a pool in use* (not modelled) writes the header before `OsMemPoolAdd`
  finds the overlap; `LOS_MemRegionsAdd` takes no lock.

**Bounds.** Three tasks give one that runs, one that waits and one that interferes; two
tasks and an interrupt handler give the same for IPC objects, where a third waiter
adds only length to a FIFO list (three are used for mutexes, where a second
waiter matters). Two priorities besides idle suffice for
preemption and inheritance. A queue of length 1 and 2 covers
wrap-around at every position, full, empty and both at once. `MaxLock`, `MaxCount`,
`MaxNest`, `MaxLen` and `OS_PM_LOCK_MAX` bound counters that have 16 bits in the code; `RoomForLock` keeps the total of the
locks below its limit unless `Overfull`. Two
timers give one that expires while the other is in the timer task's hands; three
generations let a block be deleted and created again while a message of its first one
is pending. `pm` has one
timer, two generations of it and the handler queue of one entry that belongs to it. In `tick`, the tick, the slice
and the tolerances have the order they have in `los_config.h` and are small; `MaskMax`
lets a reload come late. In `mem` one size is in a class of its own and two share
the first class that has several, so that both branches of the search, splits, whole
nodes, growth in place and moves all happen. TCBs, messages, blocks and event bits are interchangeable, so the instances use symmetry; the run with a
liveness property and the one with a distinguished joiner do not.

**Fairness** (`FairSpec`): a pending PendSV is taken, a thread that runs reaches the
`LOS_Schedule` of its call, and time passes, so that the slice of the running thread
is used up. The hardware and the tick guarantee these; nothing is assumed about what
applications or interrupt handlers do. The conditions under which the three actions
are enabled are spelled out as state predicates. `SwtmrSpec` assumes that the timer task
runs and handlers return; `PmSpec` also that callers inside a call run on, that an
interrupt ends every sleep and that time passes, so that armed timers expire. The timer
task has priority 0 and the tick never stops, so the code gives all of these unless an
application masks interrupts or locks the scheduler for ever.

## 4. Proofs

All theorems are for any finite number of tasks, priorities, semaphores, mutexes, timers,
callers and names, for any length of a queue and any set of event bits, any tick, slice and
tolerance, and any bounds on the counters. The assumptions on constants
(`SchedAssumption`, `TaskAssumption`, `SemAssumption`, `MuxAssumption`, `EventAssumption`,
`QueueAssumption`, `SwtmrAssumption`, `PmAssumption`, `TickAssumption`) say that the special TCBs
are distinct, tasks are not timers, the sets finite (an event has bits) and the bounds
numbers. `SwtmrAssumption` also says that an ID has at least two generations, since with one the
ID of a deleted timer would be that of the next one (the code has 2^32 / LIMIT), and that
there is a handler argument; `TickAssumption` has the order of tick, slice and tolerance that
`los_config.h` and `SchedTimeBaseInit` establish, and that `OS_INVALID`, which the tick is armed with for
timeouts, is no task's ID. What a theorem asks besides is in its statement:

| hypothesis | what it leaves out | why |
|---|---|---|
| `Plain` | joinable tasks; a resume in an interrupt handler together with suspension of the running task | the second is the finding of `task_isr_resume`; the first breaks `JoinTakesTheDead` with two joiners, and the invariant does not follow a join |
| `Victims = {}` | deletion of a task by somebody else | a task deleted inside `LOS_TaskCreate` takes the TCB it holds with it; one deleted while it owns a mutex leaves it locked (`los_task.h` forbids that) |
| `OneMutex` | several mutexes, `LOS_TaskPriSet`, deletion | section 3, *nested mutexes*; `LOS_MuxPost` restores the priority that was saved, not the one set since |
| `~RestartOnce` | starting a one-off timer that has expired and is not handled yet | section 3, *one-off timers started again* |
| `~CloseInUse` | events destroyed between the tests and the section of a call on them, or initialised while tasks wait | section 3, *events closed in use* |
| `~Overfull` | locks requested while the total, with the requests on their way, is at its limit | section 3, *the total at its limit* |
| `~Unregister` | suspensions before a device is registered or after it has gone, nodes that go during one | section 3, *no device* |
| `QueueKernel` | `Plain` and `Victims = {}`, and mail together with `LOS_TaskLock` | a task that is deleted between its wake-up and its return takes the slot or block it was given with it; `OsQueueMailAlloc` waits without testing the scheduler lock, and goes on without a block if the switch does not happen |
| `Brief` | interrupts locked longer than the tolerance or a slice; calls made with interrupts locked while the tick's interrupt is pending | a second period could end while the interrupt of the first is pending, and the timer has one pending bit; section 3, *reload over a pending tick* |
| `[]FarFromEnd` | times within one wait or interval of the largest UINT64 | there a response time could equal `OS_SORT_LINK_INVALID_TIME`, or wrap |
| `[]FarAhead` | the same, with room for a slice and the tolerances | the arithmetic of `OsSchedSetNextExpireTime` goes as far as that |
| `~CallsInOverrun` | timers started or stopped while a slice overruns | section 3, *timer calls in an overrun* |
| `Roomy` | a tick that is not longer than the bound on lateness by the precision | section 3, *tolerances*: a node added now could be due before one that is already late, and disarm the tick once more. With the defaults of `los_config.h` (a tick of 10 ms, a shortest period of 1 ms) it holds for up to 11 tasks and timers if interrupts are locked for at most 0.25 ms |

### Whatever is called: TaskProofs, on SchedProofs

For every choice of calls, without a hypothesis: `TaskInvariant` (`Spec => []IInv`),
`TypeCorrect` (`TaskTypeOK`), `NodesInPlace` (`NoFault => NodeWhereStatusSays`) and `BitmapIsExact`
(`NoFault => BitmapExact`). The condition `NoFault` is needed: after a fault the lists mean
nothing.

`IInv` is `KInv(k)`, the bound on the lock, and `CtxOK(ctx)`. `KInv` adds to the type what
makes it inductive: every task's priority has a ready queue (`PrioOK`); the spare TCB
stays `UNUSED` and neither it nor the idle task waits with a timeout (`SpecialOK`),
since the switch would otherwise put a node on the sort link that is none; and, unless
a fault has occurred, lists, status bits and bitmap agree (`Coherent`). Types and
coherence have to be proved together: `OsGetTopTask` returns a task only because the
bitmap is exact, and the bitmap is exact only because a ready task's node is in the
queue of its own priority. `CtxOK` says that a thread in the middle of a creation or
a join refers to a task's TCB. `SchedProofs` has one lemma per scheduler operator
(`KInv` before gives `KInv` after, plus what it leaves alone); an operator that is
called with a node in transit uses `Loose`, coherence but for one TCB. `TaskProofs` has
one lemma per action.

### No fault: the second parts of SchedProofs and TaskProofs

Under `Plain`: `KernelNeverFaults` (`NoFault`), hence `NodesAlwaysInPlace` and `BitmapAlwaysExact`
without a condition; `TimeoutsAlwaysArmed` (`TimeoutArmed`), `RunsHighest` (`RunHighest`),
`BlockedThreadsStop` (`BlockedThreadStops`), and with `Victims = {}`
`NoTcbEverLost` (`NoTcbLost`).

The inductive invariant is `TaskSafe`, that is `CoreInv` and `Highest`. Why each part is needed:

- `Sane`: which flags a `taskStatus` may have together, that `RUNNING` marks `runTask` (or a
  TCB that deleted itself), and that a task is on the sort link exactly while it has
  a timeout and is off the core. Each `LOS_ASSERT` and list operation of the scheduler follows from it.
- `Creators`: a TCB inside `LOS_TaskCreate` is on no list and in the hands of one thread, though
  the thread may be preempted at four places. Otherwise two creators could insert one node.
- `SwitchDue`: a `runTask` that is blocked is in the window before its `LOS_Schedule`, with
  the scheduler unlocked, or has its switch pending. Otherwise a second wait could insert
  the node again; `LOS_TaskDelay` and the pend calls refuse a locked scheduler for this reason.
- `RunNotSuspended`: where handlers resume, the running task is not suspended; this is what the
  finding violates.
- `Booting`, and `Highest`: outside windows and with the scheduler unlocked, nothing ready has
  precedence over `runTask`.

`SchedProofs` proves for every operator of the scheduler that it does not fault from a sane
state and what it does to one TCB (`Becomes`, `SameBut`, `Left`); `TaskProofs` lifts this to
the actions. Its lemmas take the set of places a thread may be at as a parameter, and say
of every step of Task what it does to the waits of other modules (`Waits`: nothing, or one
task times out, or one is deleted), so that the IPC modules need no scheduler reasoning
of their own.

### Semaphores and mutexes: SemProofs, MuxProofs

Under `Plain`: `SemNeverFaults`, `SemRunsHighest`, `SemaphoresSound` (`SemInv`) and the refinement
`SemImplementsSemaphore`; `MuxNeverFaults`, with `Victims = {}` the refinement
`MuxImplementsMutex`, and with `OneMutex` `BoostEnds` (`MuxInv`). `SemSafe` and `MuxSafe` are
`CoreInv` with one more place; `WaitsAt`: a task that is `PEND` is inside the pend call and on the
list of its object, and `TIMEOUT` is set only inside the call and after the wait; and the data (`SemData`:
nobody waits while a token is left, nobody for an unused block; `MuxData`: nobody
waits for a mutex without an owner, and the owner is not among those that wait).
`SemSafe` has `Highest`; `MuxSafe` does not, because `LOS_MuxPost` without waiters may lower the
caller's priority and does not call `LOS_Schedule`. The refinements match each step: a
timeout of Task is the abstract timeout, the wake-up of the first waiter the hand-over.
The refinement of semaphores holds with deletions, that of mutexes needs the owner to stay.
`BoostEnds` adds `BoostKept`: what is saved for an owner is its own priority.

### Timers and power management: PmProofs

`BlocksKept` (`SwtmrInv`) and `StatusTrue` (`TickingIsTiming`) under `~RestartOnce`. `SwtmrIInv` adds that the
free list has no repetition (`FreeOK`) and which messages are on their way (`TimerOK`): none
of a generation to come, none of an unused block, none of a one-off timer that is armed;
otherwise the timer task could free a block twice. `SleepIsSafe` (`SuspensionSafe`) under
`~Unregister`, from what each phase of a suspension has made sure of (`PhaseOK`): with the device there
from the start, no later step tests for it. `PmTyped` and
`DelayTimersKept` (`TimersKept`) without a hypothesis, the timer a call had when it went astray excepted: an ID that a thread or a lock holds is never
that of a later generation (`IdOK`), and only its creator starts a timer (`CallOK`, `CallsApart`).

`LocksAddUp` (`PmInv`) under `~Overfull`, up to the first call that goes astray: the total that decides whether the system may sleep
is the sum of the counts per name. That is a fold over the names, and the lemma that a change
of one count changes the sum by as much is by the smallest set of names where it would not.
`TotalInv` also says that the callers of `LOS_PmTimeLockRequest` that have taken a timer and
not yet asked for their lock still find room under `OS_PM_LOCK_MAX`.

### Events: EventProofs

Under `Plain` and `~CloseInUse`: `EventRunsHighest` and `EventsSound` (`EventInv`: no task waits for bits that
are there or on a closed event, and no list fault happens). `EventSafe` is `CoreInv` with three more places, `Highest`, `WaitsAt`,
`EventData`: a closed block has no waiters, and no waiter's request is met; and `CheckedOpen`: the event a thread
has tested is still open when it comes to its section. The work is in `LOS_EventWrite`, whose loop wakes
any number of tasks before it calls `LOS_Schedule` once. `Woken(kk, V)` says what the kernel
looks like after the tasks of `V` have been woken in whatever order; the loop establishes it for
all that are met, by the least iteration where it would not (`LoopRuns`, `LoopWakes`).

### Queues and mail: QueueProofs

Under `QueueKernel`: `QueueNeverFaults`, `QueueRunsHighest`, `QueueSound` (`QueueInv`), `MailAlwaysHanded`
(`MailHanded`) and the refinement `QueueImplementsDeque`. A slot that a writer or reader frees goes to the task that
waits longest and is in neither counter until that task runs. So the invariant counts tasks: `Slot` is
the set of woken tasks still inside their call, `Total` a counter plus the size of that set, and
`Ring` says of the totals, not of the counters, that they add up to the length and that
the tail is the head plus the messages, modulo the length. The rest of `QueueSafe` is `SidesWait` (nobody
waits for a slot that is counted), `Asked` (a thread inside a call is on the list its
operation belongs to; otherwise a wake-up would hand a read slot to a writer), and
`MailOK` (marked blocks and free blocks are a partition; whoever was woken has a block). The refinement maps the
messages from the head on, totals included (`Items`), to the abstract sequence: a wake-up is the abstract
grant, the woken task's return the abstract read or write, at either end.

### The clock, the sort links and the tick: TickProofs

`ClockIsTrue` (`ClockTrue`) under `Brief`. The clock is `g_tickTimerBase` plus the elapsed count, and every
change of the period moves both. `ClockInv` adds that no reading lies in the future (otherwise
`LOS_SysCycleGet` would take it for a wrap), that no period is shorter than
what interrupts may be locked for, and for how long a pending tick can have been pending: without
that bound a second period could end meanwhile and be lost. `LinksStayOrdered` (`LinksOrdered`) under
`Brief /\ []FarFromEnd`. `LinkInv` says that each link has exactly the nodes of its kind with a time, once
and in order, and that a running task does not wait, or the switch would link it twice. There is one lemma
for insertion (both shortcuts of `OsAddNode2SortLink` and its search from the end), one for removal, and one for the scan:
a prefix leaves, and its periodic timers come back one by one after the current time,
again by the least iteration that would break the order.

`SlicesAlwaysEnd` (`SlicesEnd`) under `Brief /\ ~CallsInOverrun /\ []FarAhead`. The invariant,
`Setup /\ SliceInv`, relates what the tick is armed for to when the period of its timer ends
(`ArmInv`: the two agree unless the response time has been forgotten, and a tick for a slice is
for that of the running task), keeps a slice for whoever is ready (`SliceOK`: `OsSchedTaskEnQueue`
refills, so that `OsSchedTaskSwitch` never arms for an empty one), and says that the interrupt
comes before the slice has ended by `MinPeriod + Precision`, or that the switch comes at once
(`Rest`, between the tick and PendSV). `ArmTimes` is the lemma about `OsSchedSetNextExpireTime`
that both theorems rest on: the tick is kept, within the precision of what is needed, or reloaded
for the first of the timeouts and the slice.

`TimeoutsAlwaysInTime` (`TimeoutsInTime`) under the same and `Roomy`. `TimeoutsInTime` is far from
inductive: each node that is stopped or woken early forgets the response time
(`OsSchedResetSchedResponseTime`), and the tick is then armed up to a precision later. The
invariant pays for that in advance. `Reserve` is one precision for every node that is due before
the node in question is late (its `Rivals`); `Credit` is what the tick may still lose before it
scans: a lock of interrupts if it is armed for timeouts, one more arming as well if its response
time is forgotten, and a second lock too if it is armed for a slice, since such a tick scans
nothing. `Safe` says that the end of the period, the reserve and the credit together stay below
the bound. A node that leaves gives back exactly the precision that its leaving costs
(`DeleteTimely`, `DeleteSafe`); a node that is added is due too late to be a rival of one that may
be late (`AddTimely`: this needs `Roomy`); a scan leaves only nodes that are not due
(`EarlySpare`). The instance of `tick` has a tick of 6 units, for which `Roomy`, 11 units, is
false, and the property still holds there; with `CyclesPerTick = 11` TLC also finds no violation
(4.9 million states, 4 minutes).

### Only model-checked

- Liveness (`NoStarvation`, `ExpiryHandled`, `DelayLockReleased`): the prover has no fairness.
- `JoinTakesTheDead`, and the other properties of Task with joinable tasks: the property fails with
  two joiners (section 3), and an invariant for one joiner would have to follow a join through
  every action.
- `TimeoutsInTime` for ticks that are not `Roomy`: the bound depends on how many ticks nodes are added for.
- Mem: `PoolSound`, `BlocksSound`, `SearchComplete`, `UsedAccounted` and `ContentsKept` are about the walk over
  the headers of a pool, which every split and merge reroutes, and about size classes that are
  logarithms. The loops above run over a fixed sequence; this one runs over the state it changes.

## 5. Not modelled

The freezing of timed waits by power management, what the sleep does to the clock, the
alignment of timers, conversions of time units, expansion of memory pools, several pools,
stack handling, hooks, information calls, names, error reporting. Ports are assembly; what the
kernel needs of them is stated in Sched and Tick. The other components and KAL are wrappers,
optional or third-party code; most of the repository is a vendored SDK and vendored
libraries, which have nothing of the kernel's own logic. `PROJECT.json` lists each part with
the reason.

## 6. Plan

1. Done: all modules of section 2, and the proofs of section 4.
2. A join in `CoreInv`, with one joiner.
3. Mem: `SearchComplete` and the lists of free nodes first, which do not need the walk; then the
   walk as a sequence of nodes kept in the invariant beside the headers.
4. Models: the low memory killer, whose walk over the callbacks unlocks interrupts for
   each; the freezing and unfreezing of timed waits in a sleep.
