-------------------------------- MODULE Tick --------------------------------
(***************************************************************************)
(* Time: the tick timer, which is armed for the next thing to do instead   *)
(* of ticking (kernel/src/los_sched.c), the clock that is read off it      *)
(* (kernel/src/los_tick.c, arch/arm/cortex-m4/gcc/los_timer.c), and the    *)
(* two sort links of what waits for it: tasks and software timers.         *)
(*                                                                         *)
(* Code takes no time: time passes between the actions, in units much      *)
(* longer than a cycle, and the tick interrupt and PendSV are taken at     *)
(* once unless interrupts are locked, for at most MaskMax units.  Which of *)
(* the ready tasks runs is the subject of module Sched: here it is any.    *)
(***************************************************************************)
EXTENDS SortLink

CONSTANTS
    Tasks, Idle,      \* tasks that have a time slice, and the idle task
    Timers,           \* software timers
    Interval,         \* Interval[s]: uwInterval of timer s, in ticks
    Periodic,         \* the timers of mode LOS_SWTMR_MODE_PERIOD
    Waits,            \* the delays and timeouts, in ticks, tasks wait for
    CyclesPerTick,    \* g_cyclesPerTick
    MinPeriod,        \* g_schedTickMinPeriod
    Precision,        \* g_tickResponsePrecision
    Slice, SliceMin,  \* g_schedTimeSlice, g_schedTimeSliceMin
    PeriodMax,        \* periodMax of the tick timer, LOSCFG_BASE_CORE_TICK_RESPONSE_MAX
    MaskMax,          \* how long interrupts are locked
    CallsInOverrun,   \* whether timers are started and stopped while a slice overruns,
    CallsOverTick     \* or with interrupts locked while the tick's interrupt is pending

\* The relations los_config.h and SchedTimeBaseInit establish; "TIMER", OS_INVALID, is no task's ID.
ASSUME TickAssumption ==
    /\ IsFiniteSet(Tasks) /\ IsFiniteSet(Timers) /\ Tasks \cap Timers = {}
    /\ Idle \notin Tasks /\ "TIMER" \notin Tasks \cup {Idle}
    /\ {MinPeriod, CyclesPerTick, Slice, PeriodMax, Never} \subseteq Nat
    /\ Precision = (MinPeriod * 75) \div 100 /\ Precision > 0
    /\ CyclesPerTick >= MinPeriod
    /\ SliceMin \in 0..(Slice - 1) /\ SliceMin < Precision
    /\ PeriodMax > Precision
    /\ Waits \subseteq Nat \ {0} /\ \A s \in Timers : Interval[s] \in Nat \ {0}
    /\ MaskMax \in Nat

Nodes == Tasks \cup Timers

LinkTypes == {"TASK", "SWTMR"}

VARIABLES
    now,      \* the time
    hw,       \* SysTick: [load, at (when it was loaded), pend (its interrupt is pending)]
    clk,      \* [base, old, update]: g_tickTimerBase, g_oldTickTimerBase, g_tickTimerBaseUpdate
    resp,     \* [time, id]: g_schedResponseTime, g_schedResponseID
    at,       \* at[n]: responseTime of the node of a task or timer
    links,    \* g_taskSortLink and g_swtmrSortLink
    run,      \* g_losTask.runTask
    start,    \* its startTime
    slice,    \* slice[t]: timeSlice
    wait,     \* waitTimes of the running task if it is about to block, else 0
    pendsv,   \* PendSV is pending
    locked,   \* g_losTaskLock > 0
    mask      \* 0, or 1 + how long interrupts have been locked

timeVars == <<now, hw, clk>>
vars == <<now, hw, clk, resp, at, links, run, start, slice, wait, pendsv, locked, mask>>

\* What OsGetTopTask chooses from: tasks that neither wait nor run.
Ready == {t \in Tasks : at[t] = Never /\ t # run}

-----------------------------------------------------------------------------
(***************************************************************************)
(* The clock.                                                              *)
(***************************************************************************)
\* SysTickCycleGet; that a counter of N has N - 1 to go is below the model's unit of time.
Elapsed == now - hw.at

\* LOS_SysCycleGet as a function of the clock's state; the reading is the new old.
LOS_SysCycleGet(c) ==
    LET t == c.base + Elapsed
    IN  IF t < c.old THEN [base |-> c.base + hw.load, old |-> t + hw.load, update |-> TRUE]
                     ELSE [c EXCEPT !.old = t]

\* Mutant of OsUpdateSysTimeBase: the period is left to the next reading of the clock.
UpdateBaseNever(c) == [c EXCEPT !.update = FALSE]

\* OsUpdateSysTimeBase, in the tick interrupt.
OsUpdateSysTimeBase(c) ==
    [c EXCEPT !.base = IF c.update THEN @ ELSE @ + hw.load, !.update = FALSE]

\* SysTickReload: at most PeriodMax; clears the pending interrupt.
SysTickReload(n) == [load |-> Min({n, PeriodMax}), at |-> now, pend |-> FALSE]

-----------------------------------------------------------------------------
(***************************************************************************)
(* Arming.  A kernel step k has the parts it changes: clk, hw, resp, at,   *)
(* links; the clock has been read in k.clk.                                *)
(***************************************************************************)
Kernel == [clk |-> LOS_SysCycleGet(clk), hw |-> hw, resp |-> resp, at |-> at, links |-> links]

\* Mutant of IsTimeSlice: a slice that ends before the next timeout but close to it counts as later.
IsTimeSliceIfFar(timeout, end) == timeout > end /\ timeout - end > CyclesPerTick

\* The tick is for the end of the slice: it comes more than MinPeriod before the next timeout.
IsTimeSlice(timeout, end) == timeout > end /\ timeout - end > MinPeriod

\* OsSchedSetNextExpireTime.  UINT64: an end of the slice in the past is far in the future.
OsSchedSetNextExpireTime(k, id, end) ==
    LET curr == k.clk.old
        timeout == Min({GetSortLinkNextExpireTime(k.links[x], k.at, curr, Precision) : x \in DOMAIN k.links})
        isTimeSlice == IsTimeSlice(timeout, end)
        next == IF isTimeSlice THEN end ELSE timeout
        period == IF next < curr THEN PeriodMax ELSE Max({next - curr, Precision})
        h == SysTickReload(period)
    IN  IF k.resp.time <= next \/ k.resp.time - next < Precision THEN k
        ELSE [k EXCEPT !.resp = [time |-> curr + h.load, id |-> IF isTimeSlice THEN id ELSE "TIMER"],
                       !.hw = h, !.clk.base = curr]

\* OsSchedUpdateExpireTime
SliceEnd == start + (IF slice[run] <= SliceMin THEN Slice ELSE slice[run])

OsSchedUpdateExpireTime(k) ==
    OsSchedSetNextExpireTime(k, run, IF run = Idle THEN Never - Precision ELSE SliceEnd)

\* OsAdd2SortLink
OsAdd2SortLink(k, n, from, ticks, type) ==
    LET time == [k.at EXCEPT ![n] = from + ticks * CyclesPerTick]
    IN  [k EXCEPT !.at = time, !.links[type] = OsAddNode2SortLink(@, n, time)]

\* OsDeleteNodeSortLink
OsDeleteNodeSortLink(k, n) ==
    [k EXCEPT !.at[n] = Never, !.links = [x \in DOMAIN @ |-> Without(@[x], n)]]

\* OsDeleteSortLink, with OsSchedResetSchedResponseTime.
OsDeleteSortLink(k, n) ==
    IF k.at[n] = Never THEN k
    ELSE OsDeleteNodeSortLink(IF k.at[n] <= k.resp.time THEN [k EXCEPT !.resp.time = Never] ELSE k, n)

Becomes(k) ==
    /\ clk' = k.clk /\ hw' = k.hw /\ resp' = k.resp /\ at' = k.at /\ links' = k.links

-----------------------------------------------------------------------------
(***************************************************************************)
(* Time and interrupts.                                                    *)
(***************************************************************************)
TimePasses ==
    /\ mask > 0 \/ ~(hw.pend \/ pendsv)
    /\ mask > 0 => mask <= MaskMax
    /\ now' = now + 1
    /\ mask' = IF mask > 0 THEN mask + 1 ELSE 0
    /\ hw' = IF now + 1 = hw.at + hw.load THEN [hw EXCEPT !.at = now + 1, !.pend = TRUE] ELSE hw
    /\ UNCHANGED <<clk, resp, at, links, run, start, slice, wait, pendsv, locked>>

\* LOS_IntLock and LOS_IntRestore of an application.
IntLock ==
    /\ mask = 0 /\ MaskMax > 0 /\ ~(hw.pend \/ pendsv)
    /\ mask' = 1
    /\ UNCHANGED <<timeVars, resp, at, links, run, start, slice, wait, pendsv, locked>>

IntRestore ==
    /\ mask > 0
    /\ mask' = 0
    /\ UNCHANGED <<timeVars, resp, at, links, run, start, slice, wait, pendsv, locked>>

\* A periodic timer is started again for the first multiple that has not passed.
NextPeriod(s, curr) ==
    LET I == Interval[s] * CyclesPerTick
    IN  at[s] + I * (1 + (curr - at[s]) \div I)

\* OsSwtmrTimeoutHandle of a periodic timer, which is added as OsSwtmrStart does; g_tickIntLock
\* keeps that from arming the tick.
Restart(k, s, curr) ==
    LET time == [k.at EXCEPT ![s] = NextPeriod(s, curr)]
    IN  [k EXCEPT !.at = time, !.links["SWTMR"] = OsAddNode2SortLink(@, s, time)]

\* Restart of the periodic ones of n timers, in their order.
Restarted(k, timers, n, curr) ==
    LET after[i \in 0..n] ==
            IF i = 0 THEN k
            ELSE IF timers[i] \in Periodic THEN Restart(after[i - 1], timers[i], curr) ELSE after[i - 1]
    IN  after[n]

\* OsSwtmrScan and OsSchedScanTimerList.  A timer that is started again is due only after
\* curr, so that the loop does not meet it again: all due nodes leave first.
Scanned(k) ==
    LET curr == k.clk.old
        due == [x \in DOMAIN k.links |-> Expired(k.links[x], k.at, curr)]
        gone == {n \in Nodes : \E x \in DOMAIN due : \E i \in 1..due[x] : k.links[x][i] = n}
        rest == [k EXCEPT !.at = [n \in Nodes |-> IF n \in gone THEN Never ELSE @[n]],
                          !.links = [x \in DOMAIN @ |-> SubSeq(@[x], due[x] + 1, Len(@[x]))]]
    IN  Restarted(rest, k.links["SWTMR"], due["SWTMR"], curr)

\* OsSchedTaskEnQueue: who has used up its slice gets a new one.
Refilled(left, woken) ==
    [t \in DOMAIN left |-> IF t \in woken /\ left[t] <= SliceMin THEN Slice ELSE left[t]]

\* OsTimeSliceUpdate
OsTimeSliceUpdate(curr) ==
    IF run = Idle THEN slice ELSE [slice EXCEPT ![run] = @ - (curr - start)]

\* Mutant of Scans: the tick takes the ID left by an earlier slice for its own.
ScansOfIdle == resp.id = "TIMER" /\ run = Idle

\* A tick armed for the end of a slice scans nothing.
Scans == resp.id = "TIMER"

\* OsTickHandler and LOS_SchedTickHandler.
OsTickHandler ==
    /\ hw.pend /\ mask = 0
    /\ LET c == LOS_SysCycleGet(OsUpdateSysTimeBase(clk))
           k0 == [Kernel EXCEPT !.clk = c, !.hw.pend = FALSE]
           k1 == [(IF Scans THEN Scanned(k0) ELSE k0) EXCEPT !.resp.time = Never]
           left == OsTimeSliceUpdate(c.old)
           end == IF run = Idle THEN Never - Precision
                  ELSE c.old + (IF left[run] <= SliceMin THEN Slice ELSE left[run])
           woken == {t \in Tasks : at[t] # Never /\ k1.at[t] = Never}
       IN  /\ slice' = Refilled(left, woken)
           /\ start' = c.old
           /\ IF locked THEN Becomes(OsSchedSetNextExpireTime(k1, run, end)) /\ UNCHANGED pendsv
                        ELSE Becomes(k1) /\ pendsv' = TRUE
    /\ UNCHANGED <<now, run, wait, locked, mask>>

\* OsSchedTaskSwitch, in PendSV.
OsSchedTaskSwitch ==
    /\ pendsv /\ mask = 0 /\ ~hw.pend
    /\ pendsv' = FALSE
    /\ LET k0 == Kernel
           curr == k0.clk.old
           left == OsTimeSliceUpdate(curr)
           full == Refilled(left, IF wait = 0 THEN {run} \ {Idle} ELSE {})
           k1 == IF wait > 0 THEN OsAdd2SortLink(k0, run, curr, wait, "TASK") ELSE k0
           ready == Ready \cup (IF wait = 0 THEN {run} \ {Idle} ELSE {})
       IN  \E new \in IF ready = {} THEN {Idle} ELSE ready :
              /\ run' = new
              /\ start' = curr
              /\ slice' = full
              /\ Becomes(OsSchedSetNextExpireTime(
                            [k1 EXCEPT !.resp.time = IF resp.id = run THEN Never ELSE @], new,
                            IF new = Idle THEN Never - Precision ELSE curr + full[new]))
    /\ wait' = 0
    /\ UNCHANGED <<now, locked, mask>>

-----------------------------------------------------------------------------
(***************************************************************************)
(* Calls, of the running task or an interrupt handler.                     *)
(***************************************************************************)
\* The slice has ended, and the tick that will notice is armed for a timeout close to it.
Overrun == run # Idle /\ now > SliceEnd

\* With interrupts on, a tick that is pending comes first.
TickFirst == hw.pend => mask > 0 /\ CallsOverTick

MayCall == TickFirst /\ (CallsInOverrun \/ ~Overrun)

LOS_SwtmrStart(s) ==
    /\ MayCall
    /\ LET stopped == IF at[s] = Never THEN Kernel
                      ELSE OsSchedUpdateExpireTime(OsDeleteSortLink(Kernel, s))
       IN  Becomes(OsSchedUpdateExpireTime(
                       OsAdd2SortLink(stopped, s, stopped.clk.old, Interval[s], "SWTMR")))
    /\ UNCHANGED <<now, run, start, slice, wait, pendsv, locked, mask>>

LOS_SwtmrStop(s) ==
    /\ MayCall
    /\ at[s] # Never
    /\ Becomes(OsSchedUpdateExpireTime(OsDeleteSortLink(Kernel, s)))
    /\ UNCHANGED <<now, run, start, slice, wait, pendsv, locked, mask>>

\* LOS_TaskDelay, or a wait with a timeout: blocks in the switch that follows.
TaskWait(ticks) ==
    /\ run # Idle /\ wait = 0 /\ ~pendsv /\ ~hw.pend /\ ~locked /\ mask = 0
    /\ wait' = ticks
    /\ pendsv' = TRUE
    /\ UNCHANGED <<timeVars, resp, at, links, run, start, slice, locked, mask>>

\* LOS_TaskYield
TaskYield ==
    /\ run # Idle /\ wait = 0 /\ ~pendsv /\ ~hw.pend /\ ~locked /\ mask = 0
    /\ slice' = [slice EXCEPT ![run] = 0]
    /\ pendsv' = TRUE
    /\ UNCHANGED <<timeVars, resp, at, links, run, start, wait, locked, mask>>

\* OsSchedTaskWake of a task that waits with a timeout, and LOS_Schedule.  The clock is not read.
TaskWake(t) ==
    /\ TickFirst
    /\ at[t] # Never
    /\ Becomes([OsDeleteSortLink(Kernel, t) EXCEPT !.clk = clk])
    /\ slice' = Refilled(slice, {t})
    /\ pendsv' = (pendsv \/ ~locked)
    /\ UNCHANGED <<now, run, start, wait, locked, mask>>

\* LOS_TaskLock, and LOS_TaskUnlock with its LOS_Schedule.
TaskLock ==
    /\ run # Idle /\ ~locked /\ wait = 0 /\ mask = 0 /\ ~pendsv /\ ~hw.pend
    /\ locked' = TRUE
    /\ UNCHANGED <<timeVars, resp, at, links, run, start, slice, wait, pendsv, mask>>

TaskUnlock ==
    /\ locked /\ mask = 0 /\ ~hw.pend
    /\ locked' = FALSE
    /\ pendsv' = TRUE
    /\ UNCHANGED <<timeVars, resp, at, links, run, start, slice, wait, mask>>

-----------------------------------------------------------------------------
\* After OsSchedStart: one task runs, nothing waits yet.
TickInit ==
    /\ now = 0
    /\ clk = [base |-> 0, old |-> 0, update |-> FALSE]
    /\ at = [n \in Nodes |-> Never]
    /\ links = [x \in LinkTypes |-> <<>>]
    /\ run \in Tasks
    /\ start = 0
    /\ slice = [t \in Tasks \cup {Idle} |-> Slice]
    /\ hw = SysTickReload(Slice)
    /\ resp = [time |-> hw.load, id |-> run]
    /\ wait = 0 /\ pendsv = FALSE /\ locked = FALSE /\ mask = 0

TickNext ==
    \/ TimePasses \/ IntLock \/ IntRestore
    \/ OsTickHandler \/ OsSchedTaskSwitch
    \/ \E s \in Timers : LOS_SwtmrStart(s) \/ LOS_SwtmrStop(s)
    \/ \E ticks \in Waits : TaskWait(ticks)
    \/ \E t \in Tasks : TaskWake(t)
    \/ TaskYield \/ TaskLock \/ TaskUnlock

TickSpec == TickInit /\ [][TickNext]_vars

-----------------------------------------------------------------------------
(***************************************************************************)
(* Properties.                                                             *)
(***************************************************************************)
\* Each link holds the nodes of its kind that have a response time, in their order.
LinksOrdered ==
    /\ Range(links["TASK"]) = {t \in Tasks : at[t] # Never}
    /\ Range(links["SWTMR"]) = {s \in Timers : at[s] # Never}
    /\ \A x \in DOMAIN links :
          /\ NoDup(links[x])
          /\ \A i \in 1..(Len(links[x]) - 1) : at[links[x][i]] <= at[links[x][i + 1]]

\* The clock is right: what LOS_SysCycleGet would return, after the tick that may be pending,
\* is the time.
ClockTrue == clk.base + Elapsed + (IF hw.pend /\ ~clk.update THEN hw.load ELSE 0) = now

\* No timeout is handled much later than it was asked for (los_config.h: "response error
\* accuracy of tick interrupts"), whatever the tick is armed for when it is started.  The
\* tick is armed within Precision of the timeout; each node that leaves the link
\* early disarms it and may put it off by Precision once more.
TimeoutsInTime ==
    \A n \in Nodes : at[n] # Never => now < at[n] + (1 + Cardinality(Nodes)) * Precision + MaskMax

\* No task runs much longer than its slice: the tick for its end may be aligned with a timeout
\* up to MinPeriod later, and be armed up to Precision later than that.
SlicesEnd == run # Idle => now < SliceEnd + MinPeriod + Precision + MaskMax
=============================================================================
