-------------------------------- MODULE Mux --------------------------------
(***************************************************************************)
(* Mutexes with priority inheritance (kernel/src/los_mux.c) on top of the  *)
(* scheduler and the task calls.  los_task.h forbids deleting a task that  *)
(* owns a mutex; the instances of this module delete none.                 *)
(***************************************************************************)
EXTENDS Task

CONSTANTS
    NULL,     \* no owner
    MaxNest   \* bound: nesting of LOS_MuxPend, 16 bits in the code

\* g_allMux has LOSCFG_BASE_IPC_MUX_LIMIT control blocks.
ASSUME MuxAssumption == NULL \notin TCB /\ MaxNest \in Nat \ {0} /\ IsFiniteSet(WaitObjs)

VARIABLES
    mux,        \* g_allMux
    unusedMux,  \* g_unusedMuxList
    base        \* history: base[t], the priority t was created with

Muxes == WaitObjs

muxVars == <<k, ctx, mux, unusedMux, base>>

MuxTypeOK ==
    /\ k \in KernelState
    /\ ctx \in [TCB -> ThreadState(At \cup {"mux"})]
    /\ mux \in [Muxes -> [used : BOOLEAN, count : 0..MaxNest,
                          owner : Tasks \cup {NULL}, priority : Prio]]
    /\ base \in [Tasks -> Prio]
    /\ \A m \in Muxes : mux[m].count = 0 <=> mux[m].owner = NULL
    /\ \A m \in Muxes : m \in Range(unusedMux) <=> ~mux[m].used
    /\ NoDup(unusedMux)

OsMuxInit ==
    /\ mux = [m \in Muxes |-> [used |-> FALSE, count |-> 0, owner |-> NULL, priority |-> 0]]
    /\ \E q \in [1..Cardinality(Muxes) -> Muxes] : Range(q) = Muxes /\ NoDup(q) /\ unusedMux = q

MuxInit == Init /\ OsMuxInit /\ base = [t \in Tasks |-> 0]

-----------------------------------------------------------------------------
\* LOS_MuxCreate and LOS_MuxDelete do not check OS_INT_ACTIVE.
LOS_MuxCreate(c) ==
    /\ Caller(c, "muxcreate")
    /\ unusedMux # <<>>
    /\ mux' = [mux EXCEPT ![unusedMux[1]] =
                 [used |-> TRUE, count |-> 0, owner |-> NULL, priority |-> 0]]
    /\ unusedMux' = Tail(unusedMux)
    /\ UNCHANGED <<k, ctx, base>>

LOS_MuxDelete(c, m) ==
    /\ Caller(c, "muxdelete")
    /\ mux[m].used
    /\ k.list[WaitList(m)] = <<>>
    /\ mux[m].count = 0
    /\ mux' = [mux EXCEPT ![m].used = FALSE]
    /\ unusedMux' = <<m>> \o unusedMux
    /\ UNCHANGED <<k, ctx, base>>

\* The running task's priority is inherited by an owner with a lower one.
Inherit(kk, m) ==
    IF kk.prio[mux[m].owner] > kk.prio[kk.run]
    THEN OsSchedModifyTaskSchedParam(kk, mux[m].owner, kk.prio[kk.run])
    ELSE kk

LOS_MuxPend(c, m) ==
    /\ Caller(c, "muxpend")
    /\ mux[m].used
    /\ k.lock = 0
    /\ \/ /\ mux[m].count = 0
          /\ mux' = [mux EXCEPT ![m].count = 1, ![m].owner = c, ![m].priority = k.prio[c]]
          /\ UNCHANGED <<k, ctx>>
       \/ /\ mux[m].owner = c
          /\ mux[m].count \in 1..(MaxNest - 1)
          /\ mux' = [mux EXCEPT ![m].count = mux[m].count + 1]
          /\ UNCHANGED <<k, ctx>>
       \/ /\ mux[m].count > 0
          /\ mux[m].owner # c
          /\ \E timed \in BOOLEAN : k' = OsSchedTaskWait(Inherit(k, m), WaitList(m), timed)
          /\ ctx' = [ctx EXCEPT ![c] = Thread("mux", m, TRUE)]
          /\ UNCHANGED mux
    /\ UNCHANGED <<unusedMux, base>>

\* LOS_MuxPend after its LOS_Schedule, with LOS_ERRNO_MUX_TIMEOUT when TIMEOUT
\* is set and LOS_OK otherwise.
MuxPendReturn(c) ==
    /\ Running(c)
    /\ ctx[c].at = "mux"
    /\ ~ctx[c].win
    /\ k' = SetStatus(k, c, {"TIMEOUT"}, {})
    /\ ctx' = [ctx EXCEPT ![c] = UserThread]
    /\ UNCHANGED <<mux, unusedMux, base>>

\* Mutant: the owner keeps the inherited priority.
RestoreNot(kk, m) == kk

\* The owner's priority becomes the one saved when it took the mutex.
Restore(kk, m) ==
    IF kk.prio[mux[m].owner] # mux[m].priority
    THEN OsSchedModifyTaskSchedParam(kk, mux[m].owner, mux[m].priority)
    ELSE kk

\* Mutant: the mutex is released and its first waiter woken to try again.
PostNoHandOver(c, m) ==
    /\ Caller(c, "muxpost")
    /\ mux[m].used
    /\ mux[m].owner = c
    /\ IF mux[m].count > 1
       THEN mux' = [mux EXCEPT ![m].count = mux[m].count - 1] /\ UNCHANGED <<k, ctx>>
       ELSE /\ mux' = [mux EXCEPT ![m].count = 0, ![m].owner = NULL]
            /\ LET a == Restore(k, m)
                   q == k.list[WaitList(m)]
               IN  IF q = <<>> THEN Finish(c, a, FALSE)
                   ELSE Finish(c, OsSchedTaskWake(a, q[1]), TRUE)
    /\ UNCHANGED <<unusedMux, base>>

\* No LOS_Schedule when nobody waits, although the priority may have gone down.
LOS_MuxPost(c, m) ==
    /\ Caller(c, "muxpost")
    /\ mux[m].used
    /\ mux[m].count > 0
    /\ mux[m].owner = c
    /\ LET a == Restore(k, m)
           q == k.list[WaitList(m)]
       IN  CASE mux[m].count > 1 ->
                  /\ mux' = [mux EXCEPT ![m].count = mux[m].count - 1]
                  /\ UNCHANGED <<k, ctx>>
             [] mux[m].count = 1 /\ q # <<>> ->
                  /\ mux' = [mux EXCEPT ![m].owner = q[1], ![m].priority = a.prio[q[1]]]
                  /\ Finish(c, OsSchedTaskWake(a, q[1]), TRUE)
             [] mux[m].count = 1 /\ q = <<>> ->
                  /\ mux' = [mux EXCEPT ![m].count = 0, ![m].owner = NULL]
                  /\ Finish(c, a, FALSE)
    /\ UNCHANGED <<unusedMux, base>>

-----------------------------------------------------------------------------
\* A step of the tasks; base records the priority of a TCB taken into use.
TaskStep ==
    /\ Next
    /\ base' = [t \in Tasks |-> IF Has(k, t, {"UNUSED"}) /\ ~Has(k', t, {"UNUSED"})
                                THEN k'.prio[t] ELSE base[t]]
    /\ UNCHANGED <<mux, unusedMux>>

MuxNext ==
    \/ TaskStep
    \/ \E c \in Tasks :
          MuxPendReturn(c) \/ \E m \in Muxes : LOS_MuxPend(c, m) \/ LOS_MuxPost(c, m)
    \/ \E c \in Tasks \cup {Isr} :
          LOS_MuxCreate(c) \/ \E m \in Muxes : LOS_MuxDelete(c, m)

MuxSpec == MuxInit /\ [][MuxNext]_muxVars

-----------------------------------------------------------------------------
(***************************************************************************)
(* Properties.                                                             *)
(***************************************************************************)
Abstract ==
    INSTANCE Mutex
        WITH owner <- [m \in Muxes |-> mux[m].owner],
             depth <- [m \in Muxes |-> mux[m].count],
             queue <- [m \in Muxes |-> k.list[WaitList(m)]],
             late <- {t \in Tasks : ctx[t].at = "mux" /\ Has(k, t, {"TIMEOUT"})}

\* los_mux.c implements the recursive mutex: the owner, the hand-over by
\* LOS_MuxPost and the timeout of a waiter never disagree, whatever the
\* scheduler, suspensions and interrupts do between the two halves of LOS_MuxPend.
ImplementsMutex == Abstract!MutexSpec

\* Inheritance ends: a task that owns no mutex has its own priority again
\* (LOS_MuxPost restores what LOS_MuxPend has saved).
BoostUndone ==
    \A t \in Tasks :
        ~Has(k, t, {"UNUSED"}) /\ (\A m \in Muxes : mux[m].owner # t) => k.prio[t] = base[t]

\* Owners, nesting counts and waiters are of their types, and inheritance ends with ownership.
MuxInv == MuxTypeOK /\ BoostUndone
=============================================================================
