-------------------------------- MODULE Pm ---------------------------------
(***************************************************************************)
(* Power management (components/power/los_pm.c) with the software timers   *)
(* its delay locks use: wake locks counted per name and in total, and the  *)
(* suspension the idle task (or an application) goes through.              *)
(*                                                                         *)
(* A call of the lock interface is a sequence of sections between          *)
(* LOS_IntLock and LOS_IntRestore; thr[c] says where caller c stands.  The *)
(* walk over the list of locks starts from a node the caller has read      *)
(* before LOS_IntLock; seen[c] says what has become of it.  The timer task *)
(* is a caller too: OsPmSwtmrHandler releases the lock a delay lock's      *)
(* timer was created for.  What the sleep does to the clock is the subject *)
(* of module Tick.                                                         *)
(***************************************************************************)
EXTENDS Swtmr, Folds, Functions

CONSTANTS
    Names,        \* the names of wake locks
    Callers,      \* threads and interrupt handlers that use the interface
    SwtTask,      \* the timer task
    OS_PM_LOCK_MAX,
    Modes,        \* the sleep modes applications set besides NORMAL
    Nodes,        \* the types of nodes the product registers
    Overfull,     \* whether locks are requested when the total is at its limit
    Unregister    \* whether suspensions begin without a device, and nodes come and go
                  \* during one

ASSUME PmAssumption ==
    /\ SwtTask \notin Callers /\ IsFiniteSet(Callers) /\ IsFiniteSet(Names)
    /\ HandlerArgs = Names
    /\ OS_PM_LOCK_MAX \in Nat \ {0}
    /\ Modes \subseteq {"LIGHT", "DEEP", "SHUTDOWN"}
    /\ Nodes \subseteq {"DEVICE", "TICK_TIMER", "SYSCTRL"}
    /\ {Overfull, Unregister} \subseteq BOOLEAN
    /\ "DEVICE" \in Nodes

VARIABLES
    pm,       \* g_pmCB: lock, pmMode, sysMode, isWake, and the nodes registered
    locks,    \* pm->lockList: locks[n] = [count, id], or NoLock
    thr,      \* thr[c]: where caller c stands in a call
    sleep,    \* where OsPmSuspendSleep stands
    devDown,  \* the device has been suspended and not resumed
    fault,    \* a NULL node was used
    seen      \* seen[c]: what c has read as the first node of pm->lockList

pmVars == <<pm, locks, thr, sleep, devDown, fault, seen>>
vars == <<swtmrVars, pmVars>>

NoLock == [count |-> 0]
NoTimer == <<>>             \* swtmrID OS_INVALID
Idle == [at |-> "idle"]

\* Where a call ends: the timer task returns from the handler.
End(c) == [at |-> IF c = SwtTask THEN "done" ELSE "idle"]

\* The threads, interrupt handlers and the timer task.
Threads == Callers \cup {SwtTask}

\* Some call has walked the list of locks from a node that is no longer in it, or has missed
\* an entry.
Astray == \E c \in Threads : thr[c].at = "astray"

\* Whoever has interrupts locked is alone: the core sleeps inside such a section.  After a
\* call has gone astray only the suspension goes on.
Alone == sleep # "asleep" /\ ~Astray

-----------------------------------------------------------------------------
(***************************************************************************)
(* Locks.                                                                  *)
(***************************************************************************)
\* Mutant of Counted: a failed request of a lock somebody holds with a timer counts.
CountedTwice(n, id) ==
    LET lk == IF locks[n] = NoLock THEN [count |-> 1, id |-> id]
              ELSE [locks[n] EXCEPT !.count = @ + 1]
    IN  [lock |-> IF pm.lock < OS_PM_LOCK_MAX /\ ~(lk.id # NoTimer /\ lk.count > 1)
                  THEN pm.lock + 1 ELSE pm.lock,
         entry |-> lk,
         ok |-> ~(lk.id # NoTimer /\ lk.count > 1) /\ pm.lock < OS_PM_LOCK_MAX]

\* OsPmLockRequest: the total, the entry of the name and the result.
Counted(n, id) ==
    LET lk == IF locks[n] = NoLock THEN [count |-> 1, id |-> id]
              ELSE IF locks[n].count < OS_PM_LOCK_MAX THEN [locks[n] EXCEPT !.count = @ + 1]
              ELSE locks[n]
        already == lk.id # NoTimer /\ lk.count > 1
        full == pm.lock >= OS_PM_LOCK_MAX
    IN  [lock |-> IF already \/ full THEN pm.lock ELSE pm.lock + 1,
         entry |-> IF already THEN [lk EXCEPT !.count = @ - 1] ELSE lk,
         ok |-> ~already /\ ~full]

\* OsPmLockRequest and LOS_PmLockRelease read head->pstNext before they lock interrupts:
\* the list's head itself, or a node.
ReadLockList(c) ==
    /\ seen[c] = "unread"
    /\ IF c = SwtTask THEN swtTask.at = "handler" /\ thr[c] = Idle
                      ELSE thr[c].at \in {"idle", "fill", "release"}
    /\ seen' = [seen EXCEPT ![c] = IF \A n \in Names : locks[n] = NoLock THEN "head" ELSE "node"]
    /\ UNCHANGED <<swtmrVars, pm, locks, thr, sleep, devDown, fault>>

\* c ends its walk.  Those who have read the node it has deleted, and have not come to
\* their sections, will walk from there.
WalkEnds(c, deleted) ==
    seen' = [d \in Threads |-> CASE d = c -> "unread"
                                 [] d # c /\ deleted /\ seen[d] = "node" -> "deleted"
                                 [] OTHER -> seen[d]]

\* What c finds of n: from the head of a list that was empty, nothing.
Found(c, n) == IF seen[c] = "head" THEN NoLock ELSE locks[n]

\* A section that walks the list.  From a deleted node it runs into memory that is no
\* longer the list's, and a request that has missed the entry of n inserts a second one:
\* what becomes of the list then is not modelled.
Walk(c, id, missed, Section) ==
    /\ seen[c] # "unread"
    /\ IF seen[c] = "deleted" \/ missed
       THEN /\ thr' = [thr EXCEPT ![c] = [at |-> "astray", id |-> id]]
            /\ WalkEnds(c, FALSE)
            /\ UNCHANGED <<pm, locks>>
       ELSE Section

OsPmLockRequest(c, n, id) ==
    /\ pm' = [pm EXCEPT !.lock = Counted(n, id).lock]
    /\ locks' = [locks EXCEPT ![n] = Counted(n, id).entry]
    /\ WalkEnds(c, FALSE)

\* The counters have 16 bits.  Unless the instance says otherwise the total stays below the
\* limit, with the requests that are on their way: at the limit an entry is counted, and
\* the total is not.
RoomForLock ==
    Overfull \/ pm.lock + Cardinality({c \in Callers : thr[c].at = "fill"}) < OS_PM_LOCK_MAX

LOS_PmLockRequest(c, n) ==
    /\ thr[c] = Idle
    /\ RoomForLock
    /\ Walk(c, NoTimer, Found(c, n) # locks[n], OsPmLockRequest(c, n, NoTimer) /\ UNCHANGED thr)
    /\ UNCHANGED <<swtmrVars, sleep, devDown, fault>>

\* LOS_PmLockRelease in its first section.  It still has to delete the timer of a lock that
\* is gone.  Its node was the first of the list, unless there are others.
PmLockRelease(c, n) ==
    LET lk == Found(c, n)
        gone == lk.count = 1
        id == IF gone THEN lk.id ELSE NoTimer
    IN  IF lk = NoLock
        THEN /\ thr' = [thr EXCEPT ![c] = End(c)]
             /\ WalkEnds(c, FALSE)
             /\ UNCHANGED <<pm, locks>>
        ELSE /\ locks' = [locks EXCEPT ![n] = IF gone THEN NoLock ELSE [lk EXCEPT !.count = @ - 1]]
             /\ pm' = [pm EXCEPT !.lock = IF @ > 0 THEN @ - 1 ELSE 0]
             /\ thr' = [thr EXCEPT ![c] = IF id = NoTimer THEN End(c)
                                          ELSE [at |-> "free", id |-> id]]
             /\ \/ WalkEnds(c, gone)
                \/ (\E m \in Names \ {n} : locks[m] # NoLock) /\ WalkEnds(c, FALSE)

LOS_PmLockRelease(c, n) ==
    /\ \/ thr[c] = Idle
       \/ thr[c].at = "release" /\ thr[c].name = n
    /\ Walk(c, NoTimer, FALSE, PmLockRelease(c, n))
    /\ UNCHANGED <<swtmrVars, sleep, devDown, fault>>

\* The timer with this ID exists.
ValidTimer(id) == id # NoTimer /\ cb[id[1]].life = id[2] /\ Created(id[1])

\* LOS_PmLockRelease after its first section: LOS_SwtmrDelete and LOS_MemFree.
\* LOS_EventWrite for a reader of g_pmEvent is left to module Event.
PmLockFree(c) ==
    /\ thr[c].at = "free"
    /\ IF ValidTimer(thr[c].id) THEN LOS_SwtmrDelete(thr[c].id[1]) ELSE UNCHANGED swtmrVars
    /\ thr' = [thr EXCEPT ![c] = End(c)]
    /\ UNCHANGED <<pm, locks, sleep, devDown, fault, seen>>

-----------------------------------------------------------------------------
(***************************************************************************)
(* LOS_PmTimeLockRequest: create a timer, request the lock, start the      *)
(* timer; and the way back from a failure.                                 *)
(***************************************************************************)
\* Bound, as IdUnused: no ID comes back while somebody still knows it.
KnownIds ==
    {locks[n].id : n \in {n \in Names : locks[n] # NoLock}} \cup
    {thr[c].id : c \in {c \in DOMAIN thr : thr[c].at \in {"free", "undo", "start", "astray"}}}

PmTimeLockCreate(c, n) ==
    /\ thr[c] = Idle /\ seen[c] = "unread"
    /\ RoomForLock
    /\ SwtmrCreateTake
    /\ <<Head(free), NextLife(cb[Head(free)].life)>> \notin KnownIds
    /\ thr' = [thr EXCEPT ![c] = [at |-> "fill", name |-> n, timer |-> Head(free)]]
    /\ UNCHANGED <<pm, locks, sleep, devDown, fault, seen>>

\* LOS_SwtmrCreate fills in the block, which nobody else knows yet, and OsPmLockRequest,
\* which may fail: no memory, the name is locked with a timer.
PmTimeLockRequest(c) ==
    LET n == thr[c].name
        t == thr[c].timer
        id == <<t, cb[t].life>>
    IN  /\ thr[c].at = "fill"
        /\ SwtmrCreateFill(t, "ONCE", n)
        /\ Walk(c, id, Found(c, n) # locks[n],
              \/ /\ locks[n] = NoLock
                 /\ thr' = [thr EXCEPT ![c] = [at |-> "undo", id |-> id]]
                 /\ WalkEnds(c, FALSE)
                 /\ UNCHANGED <<pm, locks>>
              \/ /\ OsPmLockRequest(c, n, id)
                 /\ thr' = [thr EXCEPT ![c] = IF Counted(n, id).ok
                                              THEN [at |-> "start", id |-> id, name |-> n]
                                              ELSE [at |-> "undo", id |-> id]])
        /\ UNCHANGED <<sleep, devDown, fault>>

PmTimeLockUndo(c) ==
    /\ thr[c].at = "undo"
    /\ IF ValidTimer(thr[c].id) THEN LOS_SwtmrDelete(thr[c].id[1]) ELSE UNCHANGED swtmrVars
    /\ thr' = [thr EXCEPT ![c] = End(c)]
    /\ UNCHANGED <<pm, locks, sleep, devDown, fault, seen>>

\* LOS_SwtmrStart fails if the lock, and with it the timer, has been released since.
PmTimeLockStart(c) ==
    /\ thr[c].at = "start"
    /\ IF ValidTimer(thr[c].id)
       THEN /\ LOS_SwtmrStart(thr[c].id[1])
            /\ thr' = [thr EXCEPT ![c] = End(c)]
       ELSE /\ thr' = [thr EXCEPT ![c] = [at |-> "release", name |-> @.name]]
            /\ UNCHANGED swtmrVars
    /\ UNCHANGED <<pm, locks, sleep, devDown, fault, seen>>

\* Mutant of OsPmSwtmrHandler: the lock is not released.
OsPmSwtmrHandlerKeep ==
    /\ swtTask.at = "handler"
    /\ thr[SwtTask] = Idle
    /\ Walk(SwtTask, NoTimer, FALSE,
                              /\ thr' = [thr EXCEPT ![SwtTask] = End(SwtTask)]
                              /\ WalkEnds(SwtTask, FALSE)
                              /\ UNCHANGED <<pm, locks>>)
    /\ UNCHANGED <<swtmrVars, sleep, devDown, fault>>

\* The timer task calls OsPmSwtmrHandler.
OsPmSwtmrHandler ==
    /\ swtTask.at = "handler"
    /\ thr[SwtTask] = Idle
    /\ Walk(SwtTask, NoTimer, FALSE, PmLockRelease(SwtTask, swtTask.item.arg))
    /\ UNCHANGED <<swtmrVars, sleep, devDown, fault>>

PmSwtmrHandlerReturn ==
    /\ thr[SwtTask].at = "done"
    /\ SwtmrTaskReturn
    /\ thr' = [thr EXCEPT ![SwtTask] = Idle]
    /\ UNCHANGED <<pm, locks, sleep, devDown, fault, seen>>

-----------------------------------------------------------------------------
(***************************************************************************)
(* Nodes and modes.                                                        *)
(***************************************************************************)
\* Unless the instance says otherwise, nodes are registered and unregistered between
\* suspensions, and the device is registered before the first and stays.
NodesFree(type) == Unregister \/ (sleep = "awake" /\ type # "DEVICE")

\* LOS_PmRegister.  A SYSCTRL node brings shutdownSuspend, which has no default, and may
\* bring suspendCheck.
LOS_PmRegister(type) ==
    /\ NodesFree(type) /\ type \notin pm.nodes
    /\ pm' = [pm EXCEPT !.nodes = @ \cup {type}]
    /\ UNCHANGED <<swtmrVars, locks, thr, sleep, devDown, fault, seen>>

\* LOS_PmUnregister: without a tick timer a light sleep is still possible.
LOS_PmUnregister(type) ==
    /\ NodesFree(type) /\ type \in pm.nodes
    /\ pm' = [pm EXCEPT !.nodes = @ \ {type},
                        !.pmMode = IF type = "TICK_TIMER" /\ @ = "LIGHT" THEN @ ELSE "NORMAL"]
    /\ UNCHANGED <<swtmrVars, locks, thr, sleep, devDown, fault, seen>>

LOS_PmModeSet(mode) ==
    /\ mode # pm.pmMode
    /\ mode # "NORMAL" => "DEVICE" \in pm.nodes
    /\ mode = "SHUTDOWN" => "SYSCTRL" \in pm.nodes
    /\ pm' = [pm EXCEPT !.pmMode = mode]
    /\ UNCHANGED <<swtmrVars, locks, thr, sleep, devDown, fault, seen>>

\* Outside a suspension PmSuspendCheck forgets it.
LOS_PmWakeSet ==
    /\ sleep # "awake" /\ ~pm.isWake
    /\ pm' = [pm EXCEPT !.isWake = TRUE]
    /\ UNCHANGED <<swtmrVars, locks, thr, sleep, devDown, fault, seen>>

-----------------------------------------------------------------------------
(***************************************************************************)
(* OsPmSuspendSleep.                                                       *)
(***************************************************************************)
\* OsPmSuspendCheck, which does not look whether there is a device.
PmSuspendCheck ==
    /\ sleep = "awake"
    /\ IF pm.lock > 0
       THEN pm' = [pm EXCEPT !.sysMode = "NORMAL"] /\ UNCHANGED <<sleep, fault>>
       ELSE /\ pm' = [pm EXCEPT !.sysMode = pm.pmMode, !.isWake = FALSE]
            /\ sleep' = "prepare"
            /\ fault' = (fault \/ "DEVICE" \notin pm.nodes)
    /\ UNCHANGED <<swtmrVars, locks, thr, devDown, seen>>

\* EXIT of OsPmSuspendSleep: with the device resumed if it had been suspended.
PmExit(prepared) ==
    /\ pm' = [pm EXCEPT !.sysMode = "NORMAL"]
    /\ sleep' = "awake"
    /\ IF prepared THEN devDown' = FALSE /\ fault' = (fault \/ "DEVICE" \notin pm.nodes)
                   ELSE UNCHANGED <<devDown, fault>>

\* OsPmSuspendPrepare: the callbacks run with interrupts on and may fail.
PmSuspendPrepare ==
    /\ sleep = "prepare"
    /\ \/ /\ devDown' = TRUE
          /\ sleep' = "ready"
          /\ UNCHANGED <<pm, fault>>
       \/ PmExit(FALSE)
    /\ UNCHANGED <<swtmrVars, locks, thr, seen>>

\* Mutant of MustStay: what happened during the callbacks is not looked at.
MayGo == FALSE

\* Somebody has taken a lock or asked to stay awake during the callbacks.
MustStay == pm.isWake \/ pm.lock > 0

\* The second section, up to the sleep.  OsPmTickTimerStop may find too little
\* time for the sleep timer and fall back to a normal sleep; suspendCheck, if there
\* is one, has the mode read again.  It runs after the test: suspendCheck is taken to
\* request no lock and not to ask to stay awake, which nothing would look at.
PmSleep ==
    /\ sleep = "ready"
    /\ IF MustStay THEN PmExit(TRUE)
       ELSE /\ sleep' = "asleep"
            /\ \E m \in {pm.sysMode} \cup (IF "SYSCTRL" \in pm.nodes THEN {pm.pmMode} ELSE {})
                              \cup (IF "TICK_TIMER" \in pm.nodes THEN {"NORMAL"} ELSE {}) :
                  /\ pm' = [pm EXCEPT !.sysMode = m]
                  /\ fault' = (fault \/ (m = "SHUTDOWN" /\ "SYSCTRL" \notin pm.nodes))
            /\ UNCHANGED devDown
    /\ UNCHANGED <<swtmrVars, locks, thr, seen>>

\* An interrupt ends the sleep; it is taken after LOS_IntRestore.
PmWake ==
    /\ sleep = "asleep"
    /\ PmExit(TRUE)
    /\ UNCHANGED <<swtmrVars, locks, thr, seen>>

-----------------------------------------------------------------------------
PmInit ==
    /\ SwtmrInit
    /\ pm = [lock |-> 0, pmMode |-> "NORMAL", sysMode |-> "NORMAL", isWake |-> FALSE,
             nodes |-> IF Unregister THEN {} ELSE {"DEVICE"}]
    /\ locks = [n \in Names |-> NoLock]
    /\ thr = [c \in Threads |-> Idle]
    /\ seen = [c \in Threads |-> "unread"]
    /\ sleep = "awake"
    /\ devDown = FALSE
    /\ fault = FALSE

\* What a caller does once it is inside a call.
CallStep(c) ==
    \/ PmLockFree(c)
    \/ thr[c].at \in {"fill", "release"} /\ ReadLockList(c)
    \/ c # SwtTask /\ thr[c].at = "release" /\ LOS_PmLockRelease(c, thr[c].name)
    \/ PmTimeLockRequest(c) \/ PmTimeLockUndo(c) \/ PmTimeLockStart(c)

TimerTaskStep ==
    /\ Alone
    /\ \/ (SwtmrTaskRead \/ SwtmrTaskStale \/ SwtmrTaskExpire) /\ UNCHANGED pmVars
       \/ ReadLockList(SwtTask)
       \/ OsPmSwtmrHandler
       \/ PmSwtmrHandlerReturn

Expiry(t) == Alone /\ OsSwtmrScan(t) /\ UNCHANGED pmVars

SleepStep == PmSuspendPrepare \/ PmSleep \/ PmWake

PmNext ==
    \/ /\ Alone
       /\ \/ \E c \in Callers : thr[c] = Idle /\ ReadLockList(c)
          \/ \E c \in Callers, n \in Names :
                \/ LOS_PmLockRequest(c, n)
                \/ thr[c] = Idle /\ LOS_PmLockRelease(c, n)
                \/ PmTimeLockCreate(c, n)
          \/ \E c \in Threads : CallStep(c)
          \/ \E type \in Nodes : LOS_PmRegister(type) \/ LOS_PmUnregister(type)
          \/ \E mode \in Modes \cup {"NORMAL"} : LOS_PmModeSet(mode)
          \/ LOS_PmWakeSet
    \/ PmSuspendCheck
    \/ SleepStep
    \/ TimerTaskStep
    \/ \E t \in Timers : Expiry(t)

\* Fairness: threads inside a call and the timer task run, a suspension goes on (some
\* interrupt ends every sleep), and time passes, so that timers expire.  Nothing starts
\* the timer of a delay lock again.
PmSpec ==
    /\ PmInit /\ [][PmNext]_vars
    /\ WF_vars(TimerTaskStep)
    /\ WF_vars(SleepStep)
    /\ \A c \in Threads : WF_vars(Alone /\ CallStep(c))
    /\ \A t \in Timers : WF_vars(Expiry(t))

-----------------------------------------------------------------------------
(***************************************************************************)
(* Properties.                                                             *)
(***************************************************************************)
\* The threads' progress refers to existing names and timers, and modes are modes.
PmTypeOK ==
    /\ SwtmrTypeOK
    /\ pm \in [lock : 0..OS_PM_LOCK_MAX, pmMode : {"NORMAL"} \cup Modes,
               sysMode : {"NORMAL"} \cup Modes, isWake : BOOLEAN,
               nodes : SUBSET Nodes]
    /\ locks \in [Names -> {NoLock} \cup
                      [count : 1..OS_PM_LOCK_MAX, id : {NoTimer} \cup (Timers \X (0..Lives))]]
    /\ sleep \in {"awake", "prepare", "ready", "asleep"}
    /\ {devDown, fault} \subseteq BOOLEAN
    /\ seen \in [Threads -> {"unread", "head", "node", "deleted"}]

\* The total the suspension looks at is the sum of the counts per name, though requests and
\* releases fail in the middle and delay locks are released by the timer task; unless a
\* call has gone astray.
LockTotal ==
    Astray \/ pm.lock = FoldFunctionOnSet(LAMBDA l, sum : l.count + sum, 0, locks, Names)

\* "the system will not enter this mode": nobody holds a lock or has asked to stay awake
\* when the core goes to sleep, also if they did so while the callbacks of the
\* suspension ran.
NoSleepWhileLocked == sleep = "asleep" => pm.lock = 0 /\ ~pm.isWake

\* Outside a suspension the device is up: whatever step of it failed or whoever stopped it.
DeviceResumed == sleep = "awake" => ~devDown

\* A suspension uses no node that is not registered, provided the product has a device: the
\* mode it was asked for, and the one it reads again before the sleep, have the handlers
\* they need, though nodes come and go between suspensions.
NodesThere == ~fault

\* No timer is leaked by a delay lock that failed half way or was released early: a timer
\* that is not running is in the hands of a request that will start or delete it, or that has
\* gone astray.
NoStrayTimer ==
    \A t \in Timers :
        cb[t].state = "CREATED" =>
            \E c \in Threads :
                thr[c].at \in {"undo", "start", "free", "astray"} /\ thr[c].id # NoTimer /\ thr[c].id[1] = t

\* "After the specified interval, the lock is automatically released": a delay lock is
\* released sooner or later, unless the expiry of its timer found the handler queue
\* full or a call has gone astray, in which cases nothing would release it.
DelayLockReleased ==
    \A n \in Names :
        (locks[n] # NoLock /\ locks[n].id # NoTimer)
            ~> (locks[n] = NoLock \/ locks[n].id = NoTimer \/ locks[n].id[1] \in lost
                \/ Astray)

\* Types, and the total of the locks.
PmInv == PmTypeOK /\ LockTotal

\* The timers of delay locks are neither lost nor leaked nor freed twice.
TimersKept == EachBlockOnce /\ NoStrayTimer

\* A suspension sleeps only if it may, resumes what it has suspended and uses only
\* what is registered.
SuspensionSafe == NoSleepWhileLocked /\ DeviceResumed /\ NodesThere
=============================================================================
