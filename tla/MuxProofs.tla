----------------------------- MODULE MuxProofs -----------------------------
(***************************************************************************)
(* Mutexes of any number, used by any number of tasks: priority            *)
(* inheritance, which requeues tasks that wait for something else, breaks  *)
(* no list of the kernel, and los_mux.c implements the mutex of module     *)
(* Mutex.  With one mutex, inheritance ends with ownership.                *)
(*                                                                         *)
(* The inductive invariant is that of TaskProofs without Highest, which    *)
(* LOS_MuxPost does not keep; WaitsAt for the wait of LOS_MuxPend; and     *)
(* MuxData, which relates owners, counts and lists of waiters.             *)
(***************************************************************************)
EXTENDS Mux, TaskProofs

MuxAt == At \cup {"mux"}

MuxData(kk, mx, un) ==
    /\ mx \in [Muxes -> [used : BOOLEAN, count : 0..MaxNest,
                         owner : Tasks \cup {NULL}, priority : Prio]]
    /\ un \in Seq(Muxes) /\ NoDup(un)
    /\ \A m \in Muxes :
          /\ mx[m].count = 0 <=> mx[m].owner = NULL
          /\ m \in Range(un) <=> ~mx[m].used
          /\ ~mx[m].used => mx[m].count = 0
          /\ mx[m].count = 0 => kk.list[WaitList(m)] = << >>
          /\ mx[m].owner \notin Range(kk.list[WaitList(m)])

MuxSafe ==
    /\ CoreInv(MuxAt, k, ctx)
    /\ WaitsAt({"mux"}, k, ctx)
    /\ MuxData(k, mux, unusedMux)
    /\ base \in [Tasks -> Prio]

\* What every step does: keep the invariant, and the TCBs that are not in use.
MuxKeeps == MuxSafe' /\ (Victims = {} /\ TcbKept(k, ctx) => TcbKept(k', ctx'))

LEMMA MuxPlaces == {"mux"} \cap At = {} /\ At \subseteq MuxAt /\ "mux" \in MuxAt
  BY DEF At, MuxAt

LEMMA MuxLists == \A m \in Muxes : WaitList(m) \in Blockers
  BY HeadsDiffer DEF Muxes

\* Lists of waiting tasks that only get shorter keep the data sound.
LEMMA MuxDataKept ==
    ASSUME MuxData(k, mux, unusedMux), mux' = mux, unusedMux' = unusedMux,
           \A h \in Blockers : /\ k.list[h] = << >> => k'.list[h] = << >>
                               /\ Range(k'.list[h]) \subseteq Range(k.list[h])
    PROVE  MuxData(k', mux', unusedMux')
  BY MuxLists DEF MuxData

LEMMA MuxTaskStepKept ==
    ASSUME MuxSafe, Plain, TaskStep
    PROVE  MuxKeeps /\ Waits
<1>1. /\ CoreInv(MuxAt, k, ctx) /\ WaitsAt({"mux"}, k, ctx) /\ Next
      /\ mux' = mux /\ unusedMux' = unusedMux
  BY DEF MuxSafe, TaskStep
<1>2. StepKeeps(MuxAt) /\ Waits
  BY <1>1, MuxPlaces, NextKept, NextWaits
<1>3. CoreInv(MuxAt, k', ctx') /\ (Victims = {} /\ TcbKept(k, ctx) => TcbKept(k', ctx'))
  BY <1>2 DEF StepKeeps
<1>4. WaitsAt({"mux"}, k', ctx')
  BY <1>1, <1>2, <1>3, MuxPlaces, WaitsGoOn
<1>5. \A h \in Blockers : /\ k.list[h] = << >> => k'.list[h] = << >>
                          /\ Range(k'.list[h]) \subseteq Range(k.list[h])
  BY <1>1, <1>2, ListsShrink DEF CoreInv
<1>6. MuxData(k', mux', unusedMux')
  BY <1>1, <1>5, MuxDataKept DEF MuxSafe
<1>7. base' \in [Tasks -> Prio]
  <2>1. \A t \in Tasks : k'.prio[t] \in Prio
    BY <1>3, SaneFacts DEF CoreInv, PrioOK
  <2> QED BY <2>1 DEF TaskStep, MuxSafe
<1> QED BY <1>2, <1>3, <1>4, <1>6, <1>7 DEF MuxSafe, MuxKeeps

LEMMA MuxCreateKept ==
    ASSUME MuxSafe, NEW c \in Tasks \cup {Isr}, LOS_MuxCreate(c)
    PROVE  MuxKeeps
<1> DEFINE m == unusedMux[1]
<1>0. /\ MuxData(k, mux, unusedMux) /\ k' = k /\ ctx' = ctx /\ base' = base /\ unusedMux # << >>
      /\ mux' = [mux EXCEPT ![m] = [used |-> TRUE, count |-> 0, owner |-> NULL, priority |-> 0]]
      /\ unusedMux' = Tail(unusedMux) /\ unusedMux \in Seq(Muxes) /\ NoDup(unusedMux)
  BY DEF MuxSafe, LOS_MuxCreate, MuxData
<1>1. 0 \in Prio /\ 0 \in 0..MaxNest
  BY MuxAssumption, SchedAssumption DEF Prio
<1>2. m \in Muxes /\ m \in Range(unusedMux)
  BY <1>0, FirstOfList
<1>3. unusedMux' = Without(unusedMux, m)
  BY <1>0, TailIsWithout
<1>4. unusedMux' \in Seq(Muxes) /\ NoDup(unusedMux') /\ Range(unusedMux') = Range(unusedMux) \ {m}
  <2>1. Without(unusedMux, m) \in Seq(Muxes)
    BY <1>0, WithoutType
  <2>2. /\ Range(Without(unusedMux, m)) = Range(unusedMux) \ {m}
        /\ NoDup(Without(unusedMux, m))
    BY <1>0, WithoutRange
  <2> QED BY <1>3, <2>1, <2>2
<1>5. mux[m].count = 0 /\ mux[m].owner = NULL /\ k.list[WaitList(m)] = << >>
  BY <1>0, <1>2 DEF MuxData
<1> HIDE DEF m
<1>6. MuxData(k', mux', unusedMux')
  BY <1>0, <1>1, <1>2, <1>4, <1>5 DEF MuxData
<1> QED BY <1>0, <1>6 DEF MuxSafe, MuxKeeps

LEMMA MuxDeleteKept ==
    ASSUME MuxSafe, NEW c \in Tasks \cup {Isr}, NEW m \in Muxes, LOS_MuxDelete(c, m)
    PROVE  MuxKeeps
<1>0. /\ MuxData(k, mux, unusedMux) /\ k' = k /\ ctx' = ctx /\ base' = base /\ mux[m].used
      /\ k.list[WaitList(m)] = << >> /\ mux' = [mux EXCEPT ![m].used = FALSE]
      /\ mux[m].count = 0
      /\ unusedMux' = <<m>> \o unusedMux /\ unusedMux \in Seq(Muxes) /\ NoDup(unusedMux)
  BY DEF MuxSafe, LOS_MuxDelete, MuxData
<1>1. m \notin Range(unusedMux)
  BY <1>0 DEF MuxData
<1>2. /\ unusedMux' \in Seq(Muxes) /\ NoDup(unusedMux')
      /\ Range(unusedMux') = Range(unusedMux) \cup {m}
  BY <1>0, <1>1, PrependRange
<1>3. /\ mux' \in [Muxes -> [used : BOOLEAN, count : 0..MaxNest,
                             owner : Tasks \cup {NULL}, priority : Prio]]
      /\ \A n \in Muxes : /\ mux'[n].count = mux[n].count /\ mux'[n].owner = mux[n].owner
                           /\ mux'[n].used = IF n = m THEN FALSE ELSE mux[n].used
  BY <1>0 DEF MuxData
<1>4. MuxData(k', mux', unusedMux')
  BY <1>0, <1>2, <1>3 DEF MuxData
<1> QED BY <1>0, <1>4 DEF MuxSafe, MuxKeeps

-----------------------------------------------------------------------------
(***************************************************************************)
(* Inheritance.                                                            *)
(***************************************************************************)
LEMMA ModifyReprioritises ==
    ASSUME Sane(k), NEW t \in Tasks, NEW p \in Prio,
           NEW kk, kk = OsSchedModifyTaskSchedParam(k, t, p)
    PROVE  /\ Reprioritised(kk) /\ kk.prio[t] = p
           /\ \A u \in Tasks \ {t} : kk.prio[u] = k.prio[u]
<1>1. /\ Sane(kk) /\ SameWaiters(kk, k) /\ SameBut(kk, k, t)
      /\ kk.status[t] = k.status[t] /\ kk.prio[t] = p
  BY ModifySafe
<1>2. "READY" \notin k.status[t] => Where(kk, t) = Where(k, t)
  <2>1. ASSUME "READY" \notin k.status[t] PROVE kk = SetPrio(k, t, p)
    BY <2>1, Zenon DEF OsSchedModifyTaskSchedParam, Has
  <2>2. SetPrio(k, t, p).list = k.list
    BY DEF SetPrio, Sane, KInv, KernelState
  <2> QED BY <2>1, <2>2 DEF Where
<1> QED BY <1>1, <1>2, TasksAreTCBs DEF Reprioritised, SameBut, OthersStay

LEMMA InheritReprioritises ==
    ASSUME MuxSafe, NEW m \in Muxes, mux[m].owner \in Tasks, k.run \in Tasks
    PROVE  /\ Reprioritised(Inherit(k, m))
           /\ \A u \in Tasks \ {mux[m].owner} : Inherit(k, m).prio[u] = k.prio[u]
<1>0. Sane(k) /\ k.prio[k.run] \in Prio
  BY SaneFacts DEF MuxSafe, CoreInv, PrioOK
<1>1. Reprioritised(k)
  BY <1>0 DEF Reprioritised, SameCtl, SameWaiters
<1>2. CASE k.prio[mux[m].owner] > k.prio[k.run]
  BY <1>0, <1>2, ModifyReprioritises DEF Inherit
<1>3. CASE ~(k.prio[mux[m].owner] > k.prio[k.run])
  BY <1>1, <1>3 DEF Inherit
<1> QED BY <1>2, <1>3

LEMMA RestoreReprioritises ==
    ASSUME MuxSafe, NEW m \in Muxes, mux[m].owner \in Tasks
    PROVE  /\ Reprioritised(Restore(k, m))
           /\ Restore(k, m).prio[mux[m].owner] = mux[m].priority
           /\ \A u \in Tasks \ {mux[m].owner} : Restore(k, m).prio[u] = k.prio[u]
<1>0. Sane(k) /\ mux[m].priority \in Prio
  BY DEF MuxSafe, CoreInv, MuxData
<1>1. Reprioritised(k)
  BY <1>0 DEF Reprioritised, SameCtl, SameWaiters
<1>2. CASE k.prio[mux[m].owner] # mux[m].priority
  BY <1>0, <1>2, ModifyReprioritises DEF Restore
<1>3. CASE k.prio[mux[m].owner] = mux[m].priority
  BY <1>1, <1>3 DEF Restore
<1> QED BY <1>2, <1>3

-----------------------------------------------------------------------------
(***************************************************************************)
(* The calls.                                                              *)
(***************************************************************************)
\* A mutex is taken, or taken once more.
LEMMA MuxTakenKept ==
    ASSUME MuxSafe, NEW m \in Muxes, NEW t \in Tasks, NEW n \in 1..MaxNest, NEW p \in Prio,
           mux[m].used, mux[m].owner \in {NULL, t},
           mux' = [mux EXCEPT ![m].count = n, ![m].owner = t, ![m].priority = p],
           UNCHANGED <<k, ctx, unusedMux, base>>
    PROVE  MuxKeeps
<1>0. /\ MuxData(k, mux, unusedMux) /\ k' = k /\ ctx' = ctx /\ unusedMux' = unusedMux
      /\ base' = base
  BY DEF MuxSafe
<1>1. n \in 0..MaxNest /\ n # 0 /\ t # NULL
  BY MuxAssumption, TasksAreTCBs
<1>2. t \notin Range(k.list[WaitList(m)])
  BY <1>0 DEF MuxData, Range
<1>3. /\ mux' \in [Muxes -> [used : BOOLEAN, count : 0..MaxNest,
                             owner : Tasks \cup {NULL}, priority : Prio]]
      /\ mux'[m].used = mux[m].used /\ mux'[m].count = n /\ mux'[m].owner = t
      /\ \A o \in Muxes \ {m} : mux'[o] = mux[o]
  BY <1>0, <1>1 DEF MuxData
<1>4. MuxData(k', mux', unusedMux')
  BY <1>0, <1>1, <1>2, <1>3 DEF MuxData
<1> QED BY <1>0, <1>4 DEF MuxSafe, MuxKeeps

LEMMA MuxPendKept ==
    ASSUME MuxSafe, NEW c \in Tasks, NEW m \in Muxes, LOS_MuxPend(c, m)
    PROVE  /\ MuxKeeps
           /\ mux[m].owner \notin {NULL, c} =>
                 /\ Begins(c, WaitList(m)) /\ ctx'[c] = Thread("mux", m, TRUE) /\ mux' = mux
                 /\ \A u \in Tasks \ {mux[m].owner} : k'.prio[u] = k.prio[u]
<1>0. /\ CoreInv(MuxAt, k, ctx) /\ WaitsAt({"mux"}, k, ctx) /\ Sane(k)
      /\ MuxData(k, mux, unusedMux) /\ Caller(c, "muxpend") /\ k.lock = 0 /\ mux[m].used
      /\ unusedMux' = unusedMux /\ base' = base /\ base \in [Tasks -> Prio]
      /\ mux[m].count \in 0..MaxNest /\ mux[m].owner \in Tasks \cup {NULL}
      /\ mux[m].priority \in Prio
      /\ mux[m].count = 0 <=> mux[m].owner = NULL
      /\ c # NULL /\ NULL \notin Tasks
  BY MuxAssumption, TasksAreTCBs DEF MuxSafe, LOS_MuxPend, CoreInv, MuxData
<1>1. k.prio[c] \in Prio /\ Calling(c)
  BY <1>0, SaneFacts, CallerCalls DEF PrioOK
<1>2. CASE mux[m].owner = NULL
  <2>1. /\ mux' = [mux EXCEPT ![m].count = 1, ![m].owner = c, ![m].priority = k.prio[c]]
        /\ UNCHANGED <<k, ctx, unusedMux, base>>
    <3>1. mux[m].count = 0 /\ mux[m].owner # c /\ ~(mux[m].count > 0)
      BY <1>0, <1>2
    <3> QED BY <1>0, <3>1 DEF LOS_MuxPend
  <2>2. 1 \in 1..MaxNest
    BY MuxAssumption
  <2> QED BY <1>0, <1>1, <1>2, <2>1, <2>2, MuxTakenKept
<1>3. CASE mux[m].owner = c
  <2>1. /\ mux[m].count + 1 \in 1..MaxNest
        /\ mux' = [mux EXCEPT ![m].count = mux[m].count + 1]
        /\ UNCHANGED <<k, ctx, unusedMux, base>>
    BY <1>0, <1>3, MuxAssumption DEF LOS_MuxPend
  <2>2. mux' = [mux EXCEPT ![m].count = mux[m].count + 1, ![m].owner = c,
                           ![m].priority = mux[m].priority]
    BY <1>0, <1>3, <2>1 DEF MuxData
  <2> QED BY <1>0, <1>3, <2>1, <2>2, MuxTakenKept
<1>4. CASE mux[m].owner \notin {NULL, c}
  <2>0. mux[m].owner \in Tasks /\ mux[m].count # 0 /\ k.run \in Tasks
    BY <1>0, <1>1, <1>4, CallerNotStuck
  <2>1. /\ \E timed \in BOOLEAN : k' = OsSchedTaskWait(Inherit(k, m), WaitList(m), timed)
        /\ ctx' = [ctx EXCEPT ![c] = Thread("mux", m, TRUE)] /\ mux' = mux
    BY <1>0, <1>4, <2>0 DEF LOS_MuxPend
  <2>2. PICK timed \in BOOLEAN : k' = OsSchedTaskWait(Inherit(k, m), WaitList(m), timed)
    BY <2>1
  <2>3. /\ Reprioritised(Inherit(k, m))
        /\ \A u \in Tasks \ {mux[m].owner} : Inherit(k, m).prio[u] = k.prio[u]
    BY <2>0, InheritReprioritises
  <2>4. /\ Thread("mux", m, TRUE) \in ThreadState(MuxAt) /\ Thread("mux", m, TRUE).win
        /\ Thread("mux", m, TRUE).at = "mux" /\ Thread("mux", m, TRUE).obj = m
    BY MuxPlaces DEF Thread, ThreadState, Muxes
  <2>5. "mux" \notin Creating \cup {"join"} /\ WaitList(m) \in Blockers /\ m \in WaitObjs
    BY MuxLists DEF Creating, Muxes
  <2>6. /\ StepKeeps(MuxAt) /\ Begins(c, WaitList(m)) /\ ctx'[c] = Thread("mux", m, TRUE)
        /\ k'.prio = Inherit(k, m).prio /\ ctx[c].at = "user"
    <3>1. PICK kk : kk = Inherit(k, m)
      OBVIOUS
    <3>2. PICK x \in ThreadState(MuxAt) : x = Thread("mux", m, TRUE)
      BY <2>4
    <3>3. PICK h \in Blockers : h = WaitList(m)
      BY <2>5
    <3>4. /\ Reprioritised(kk) /\ k' = OsSchedTaskWait(kk, h, timed) /\ x.win
          /\ x.at \notin Creating \cup {"join"} /\ ctx' = [ctx EXCEPT ![c] = x]
      BY <2>1, <2>2, <2>3, <2>4, <2>5, <3>1, <3>2, <3>3
    <3>5. /\ StepKeeps(MuxAt) /\ Begins(c, h) /\ ctx'[c] = x /\ k'.prio = kk.prio
          /\ ctx[c].at = "user"
      BY <1>0, <1>1, <3>4, WaitKept
    <3> QED BY <3>1, <3>2, <3>3, <3>5
  <2>7. CoreInv(MuxAt, k', ctx') /\ (Victims = {} /\ TcbKept(k, ctx) => TcbKept(k', ctx'))
    BY <2>6 DEF StepKeeps
  <2>8. WaitsAt({"mux"}, k', ctx')
    BY <1>0, <2>4, <2>5, <2>6, <2>7, MuxPlaces, WaitBegins
  <2>9. MuxData(k', mux', unusedMux')
    <3>1. \A n \in Muxes : n # m => WaitList(n) # WaitList(m) /\ WaitList(n) \in Blockers
      BY MuxLists DEF WaitList
    <3>2. \A n \in Muxes : n # m => k'.list[WaitList(n)] = k.list[WaitList(n)]
      BY <2>6, <3>1 DEF Begins
    <3>3. Range(Append(k.list[WaitList(m)], c)) = Range(k.list[WaitList(m)]) \cup {c}
      BY <1>0, <2>5, BlockerLists, AppendRange
    <3>4. Range(k'.list[WaitList(m)]) = Range(k.list[WaitList(m)]) \cup {c}
      BY <2>6, <3>3 DEF Begins
    <3> QED BY <1>0, <1>4, <2>0, <2>1, <3>2, <3>4 DEF MuxData
  <2> QED BY <1>0, <1>4, <2>1, <2>3, <2>6, <2>7, <2>8, <2>9 DEF MuxSafe, MuxKeeps
<1> QED BY <1>0, <1>2, <1>3, <1>4

LEMMA MuxReturnKept ==
    ASSUME MuxSafe, NEW c \in Tasks, MuxPendReturn(c)
    PROVE  /\ MuxKeeps /\ k'.list = k.list /\ k'.status[c] = k.status[c] \ {"TIMEOUT"}
           /\ \A u \in Tasks \ {c} : k'.status[u] = k.status[u] /\ ctx'[u] = ctx[u]
           /\ ctx'[c] = UserThread /\ k.status[c] \cap (Blocked \cup {"DELAY"}) = {}
           /\ k'.prio = k.prio
<1>0. /\ CoreInv(MuxAt, k, ctx) /\ WaitsAt({"mux"}, k, ctx) /\ base \in [Tasks -> Prio]
      /\ MuxData(k, mux, unusedMux) /\ Running(c) /\ ~ctx[c].win /\ ctx[c].at \notin Creating
      /\ k' = SetStatus(k, c, {"TIMEOUT"}, {}) /\ ctx' = [ctx EXCEPT ![c] = UserThread]
      /\ mux' = mux /\ unusedMux' = unusedMux /\ base' = base
  BY DEF MuxSafe, MuxPendReturn, Creating
<1>1. /\ StepKeeps(MuxAt) /\ k'.list = k.list /\ k'.status[c] = k.status[c] \ {"TIMEOUT"}
      /\ \A u \in Tasks \ {c} : k'.status[u] = k.status[u] /\ ctx'[u] = ctx[u]
      /\ ctx'[c] = UserThread /\ k.status[c] \cap (Blocked \cup {"DELAY"}) = {}
      /\ k'.prio = k.prio
  BY <1>0, MuxPlaces, ReturnKept
<1>2. WaitsAt({"mux"}, k', ctx')
  <2>1. "PEND" \notin k.status[c]
    BY <1>1 DEF Blocked
  <2> QED BY <1>0, <1>1, <2>1, MuxPlaces, WaitReturns
<1>3. MuxData(k', mux', unusedMux')
  BY <1>0, <1>1 DEF MuxData
<1> QED BY <1>0, <1>1, <1>2, <1>3 DEF MuxSafe, MuxKeeps, StepKeeps

\* A call that only changes priorities and ends without LOS_Schedule.
LEMMA ReprioritisedKept ==
    ASSUME NEW A, CoreInv(A, k, ctx), NEW c \in Tasks \cup {Isr}, Calling(c),
           NEW kk, Reprioritised(kk), Finish(c, kk, FALSE)
    PROVE  /\ CoreInv(A, k', ctx') /\ (TcbKept(k, ctx) => TcbKept(k', ctx'))
           /\ Finished(c, kk, FALSE)
<1>0. /\ Sane(k) /\ Creators(k, ctx) /\ RunNotSuspended(k) /\ k.run \in TCB
      /\ Sane(kk) /\ kk.run = k.run /\ kk.scheduled = k.scheduled /\ kk.pendsv = k.pendsv
      /\ kk.lock = k.lock
  BY DEF CoreInv, Sane, KInv, KernelState, Reprioritised, SameCtl
<1>1. RunNotSuspended(kk)
  BY <1>0 DEF RunNotSuspended, Reprioritised
<1>2. Stuck(kk) => Stuck(k)
  <2>1. CASE k.run \in Tasks
    BY <1>0, <2>1 DEF Stuck, Reprioritised
  <2>2. CASE k.run \notin Tasks
    BY <1>0, <2>2, TasksAreTCBs, DummyStuck DEF Stuck
  <2> QED BY <2>1, <2>2
<1>3. \A u \in Tasks : Held(ctx, u) => Untouched(kk, k, u)
  BY <1>0, HeldFacts DEF Untouched, Reprioritised
<1>4. \A u \in Tasks : "UNUSED" \in kk.status[u] =>
          \/ "UNUSED" \in k.status[u] /\ Where(kk, u) = Where(k, u)
          \/ ctx[u].at = "user" /\ Where(kk, u) \in {{FreeTask}, {RecycleList}}
  <2> SUFFICES ASSUME NEW u \in Tasks, "UNUSED" \in kk.status[u]
               PROVE  "UNUSED" \in k.status[u] /\ Where(kk, u) = Where(k, u)
    OBVIOUS
  <2>1. FlagsOK(k.status[u]) /\ k.status[u] = kk.status[u]
    BY <1>0, SaneFacts DEF Reprioritised
  <2>2. "READY" \notin k.status[u]
    BY <2>1 DEF FlagsOK, Blocked
  <2> QED BY <2>1, <2>2 DEF Reprioritised
<1>5. /\ CoreInv(A, k', ctx') /\ Finished(c, kk, FALSE)
      /\ (k.run \in Tasks /\ ~FALSE /\ kk.lock = 0 => k.lock = 0 /\ (Top(k) => Top(kk)))
            => (Highest(k, ctx) => Highest(k', ctx'))
      /\ (\A u \in Tasks : "UNUSED" \in kk.status[u] =>
             \/ "UNUSED" \in k.status[u] /\ Where(kk, u) = Where(k, u)
             \/ ctx[u].at = "user" /\ Where(kk, u) \in {{FreeTask}, {RecycleList}})
            => (TcbKept(k, ctx) => TcbKept(k', ctx'))
  BY <1>0, <1>1, <1>2, <1>3, CallSafe
<1> QED BY <1>4, <1>5

\* One mutex changes hands, and the other lists of waiting tasks only get shorter.
LEMMA MuxChanged ==
    ASSUME MuxData(k, mux, unusedMux), unusedMux' = unusedMux, NEW m \in Muxes, mux[m].used,
           mux' \in [Muxes -> [used : BOOLEAN, count : 0..MaxNest,
                              owner : Tasks \cup {NULL}, priority : Prio]],
           mux'[m].used, mux'[m].count = 0 <=> mux'[m].owner = NULL,
           mux'[m].count = 0 => k'.list[WaitList(m)] = << >>,
           mux'[m].owner \notin Range(k'.list[WaitList(m)]),
           \A o \in Muxes \ {m} :
              /\ mux'[o] = mux[o]
              /\ k.list[WaitList(o)] = << >> => k'.list[WaitList(o)] = << >>
              /\ Range(k'.list[WaitList(o)]) \subseteq Range(k.list[WaitList(o)])
    PROVE  MuxData(k', mux', unusedMux')
<1>1. ASSUME NEW o \in Muxes, o # m
      PROVE  /\ mux'[o].count = 0 <=> mux'[o].owner = NULL
             /\ o \in Range(unusedMux) <=> ~mux'[o].used
             /\ ~mux'[o].used => mux'[o].count = 0
             /\ mux'[o].count = 0 => k'.list[WaitList(o)] = << >>
             /\ mux'[o].owner \notin Range(k'.list[WaitList(o)])
  BY <1>1 DEF MuxData
<1>2. m \notin Range(unusedMux)
  BY DEF MuxData
<1> QED BY <1>1, <1>2 DEF MuxData

LEMMA MuxPostKept ==
    ASSUME MuxSafe, NEW c \in Tasks, NEW m \in Muxes, LOS_MuxPost(c, m)
    PROVE  /\ MuxKeeps /\ Calling(c) /\ mux[m].owner = c
           /\ \/ /\ mux[m].count > 1 /\ k' = k /\ ctx' = ctx
                 /\ mux' = [mux EXCEPT ![m].count = mux[m].count - 1]
              \/ /\ mux[m].count = 1 /\ k.list[WaitList(m)] = << >>
                 /\ mux' = [mux EXCEPT ![m].count = 0, ![m].owner = NULL]
                 /\ Finished(c, Restore(k, m), FALSE) /\ Reprioritised(Restore(k, m))
              \/ /\ mux[m].count = 1 /\ k.list[WaitList(m)] # << >>
                 /\ Ends(k.list[WaitList(m)][1]) /\ k'.prio = Restore(k, m).prio
                 /\ mux' = [mux EXCEPT ![m].owner = k.list[WaitList(m)][1],
                                       ![m].priority = k'.prio[k.list[WaitList(m)][1]]]
<1> DEFINE q == k.list[WaitList(m)]
<1>0. /\ CoreInv(MuxAt, k, ctx) /\ WaitsAt({"mux"}, k, ctx) /\ Sane(k)
      /\ MuxData(k, mux, unusedMux) /\ Caller(c, "muxpost") /\ mux[m].used
      /\ unusedMux' = unusedMux /\ base' = base /\ base \in [Tasks -> Prio]
      /\ mux[m].count \in 0..MaxNest /\ mux[m].count > 0 /\ mux[m].owner = c
      /\ mux[m].priority \in Prio /\ WaitList(m) \in Blockers
      /\ c # NULL /\ NULL \notin Tasks
  BY MuxAssumption, TasksAreTCBs, MuxLists DEF MuxSafe, LOS_MuxPost, CoreInv, MuxData
<1>1. (mux[m].count > 1 \/ mux[m].count = 1) /\ ~(mux[m].count > 1 /\ mux[m].count = 1)
  BY <1>0, MuxAssumption
<1>2. Calling(c) /\ c \in Tasks \cup {Isr}
  BY <1>0, CallerCalls
<1>3. PICK a : a = Restore(k, m)
  OBVIOUS
<1>4. Reprioritised(a)
  BY <1>0, <1>3, RestoreReprioritises
<1>5. CASE mux[m].count > 1
  <2>1. mux' = [mux EXCEPT ![m].count = mux[m].count - 1] /\ k' = k /\ ctx' = ctx
    BY <1>1, <1>5 DEF LOS_MuxPost
  <2>2. mux[m].count - 1 \in 1..MaxNest
    BY <1>0, <1>5, MuxAssumption
  <2>3. mux' = [mux EXCEPT ![m].count = mux[m].count - 1, ![m].owner = c,
                           ![m].priority = mux[m].priority]
    BY <1>0, <2>1 DEF MuxData
  <2>4. MuxKeeps
    BY <1>0, <2>1, <2>2, <2>3, MuxTakenKept
  <2> QED BY <1>0, <1>2, <1>5, <2>1, <2>4
<1>6. CASE mux[m].count = 1 /\ q = << >>
  <2>1. mux' = [mux EXCEPT ![m].count = 0, ![m].owner = NULL] /\ Finish(c, a, FALSE)
    BY <1>1, <1>3, <1>6 DEF LOS_MuxPost
  <2>2. /\ CoreInv(MuxAt, k', ctx') /\ (TcbKept(k, ctx) => TcbKept(k', ctx'))
        /\ Finished(c, a, FALSE)
    BY <1>0, <1>2, <1>4, <2>1, ReprioritisedKept
  <2>3. /\ SameWaiters(k', k) /\ \A u \in Tasks : k'.status[u] = k.status[u]
        /\ \A u \in Tasks : ctx'[u].at = ctx[u].at /\ ctx'[u].obj = ctx[u].obj
    BY <1>4, <2>2, TasksAreTCBs DEF Finished, SameTasks, Reprioritised, SameWaiters
  <2>4. WaitsAt({"mux"}, k', ctx')
    <3>1. Calm
      BY <2>3 DEF Calm, SameWait
    <3>2. Waits
      BY <3>1 DEF Waits
    <3> QED BY <1>0, <2>2, <3>2, MuxPlaces, WaitsGoOn
  <2>5. MuxData(k', mux', unusedMux')
    <3>1. /\ mux' \in [Muxes -> [used : BOOLEAN, count : 0..MaxNest,
                                 owner : Tasks \cup {NULL}, priority : Prio]]
          /\ mux'[m].used = mux[m].used /\ mux'[m].count = 0 /\ mux'[m].owner = NULL
          /\ \A o \in Muxes \ {m} : mux'[o] = mux[o]
      BY <1>0, <2>1 DEF MuxData
    <3>2. \A o \in Muxes : k'.list[WaitList(o)] = k.list[WaitList(o)]
      BY <2>3, MuxLists DEF SameWaiters
    <3>3. NULL \notin Range(k'.list[WaitList(m)])
      BY <1>6, <3>2 DEF Range
    <3> QED BY <1>0, <1>6, <3>1, <3>2, <3>3, MuxChanged
  <2> QED BY <1>0, <1>2, <1>3, <1>4, <1>6, <2>1, <2>2, <2>4, <2>5 DEF MuxSafe, MuxKeeps
<1>7. CASE mux[m].count = 1 /\ q # << >>
  <2>1. PICK t \in Tasks : t = q[1] /\ t \in Range(q) /\ "PEND" \in k.status[t]
    BY <1>0, <1>7, FirstWaiter
  <2>2. /\ mux' = [mux EXCEPT ![m].owner = t, ![m].priority = a.prio[t]]
        /\ Finish(c, OsSchedTaskWake(a, t), TRUE)
    BY <1>1, <1>3, <1>7, <2>1 DEF LOS_MuxPost
  <2>3. StepKeeps(MuxAt) /\ Ends(t) /\ k'.prio = a.prio
    BY <1>0, <1>2, <1>4, <2>1, <2>2, WakeKept
  <2>4. CoreInv(MuxAt, k', ctx') /\ (Victims = {} /\ TcbKept(k, ctx) => TcbKept(k', ctx'))
    BY <2>3 DEF StepKeeps
  <2>5. WaitsAt({"mux"}, k', ctx')
    BY <1>0, <2>1, <2>3, <2>4, WaitEnds
  <2>6. MuxData(k', mux', unusedMux')
    <3>0. a.prio[t] \in Prio
      BY <1>4, SaneFacts DEF Reprioritised, PrioOK
    <3>1. /\ mux' \in [Muxes -> [used : BOOLEAN, count : 0..MaxNest,
                                 owner : Tasks \cup {NULL}, priority : Prio]]
          /\ mux'[m].used = mux[m].used /\ mux'[m].count = mux[m].count /\ mux'[m].owner = t
          /\ \A o \in Muxes \ {m} : mux'[o] = mux[o]
      BY <1>0, <2>2, <3>0 DEF MuxData
    <3>2. \A o \in Muxes : /\ Range(k'.list[WaitList(o)]) = Range(k.list[WaitList(o)]) \ {t}
                           /\ k.list[WaitList(o)] = << >> => k'.list[WaitList(o)] = << >>
      <4>1. \A h \in Blockers : Range(Without(k.list[h], t)) = Range(k.list[h]) \ {t}
        BY <1>0, BlockerLists, WithoutRange
      <4> QED BY <2>3, <4>1, MuxLists, NothingLeft DEF Ends, Left
    <3>3. t # NULL /\ mux[m].count # 0
      BY <1>0, <1>7
    <3> QED BY <1>0, <3>1, <3>2, <3>3, MuxChanged
  <2> QED BY <1>0, <1>2, <1>3, <1>7, <2>1, <2>2, <2>3, <2>4, <2>5, <2>6 DEF MuxSafe, MuxKeeps
<1> QED BY <1>1, <1>5, <1>6, <1>7

LEMMA MuxInitSafe ==
    ASSUME MuxInit
    PROVE  MuxSafe /\ TcbKept(k, ctx)
<1>1. CoreInv(At, k, ctx) /\ TcbKept(k, ctx)
  BY InitSafe DEF MuxInit
<1>2. CoreInv(MuxAt, k, ctx)
  <2>1. ctx \in [TCB -> ThreadState(MuxAt)]
    BY <1>1, MuxPlaces DEF CoreInv, ThreadState
  <2> QED BY <1>1, <2>1 DEF CoreInv
<1>3. WaitsAt({"mux"}, k, ctx) /\ \A h \in Blockers : k.list[h] = << >>
  <2>1. PICK free \in [1..Cardinality(Tasks) -> Tasks] : k = InitialKernel(free)
    BY DEF MuxInit, Init
  <2>2. /\ \A t \in Tasks : k.status[t] = {"UNUSED"}
        /\ k.list = [h \in Head_ |-> IF h = FreeTask THEN free ELSE << >>]
    BY <2>1, TasksAreTCBs, SchedAssumption DEF InitialKernel
  <2>3. \A h \in Blockers : k.list[h] = << >>
    BY <2>2, HeadsDiffer
  <2> QED BY <2>2, <2>3 DEF WaitsAt
<1>4. 0 \in Prio /\ 0 \in 0..MaxNest
  BY MuxAssumption, SchedAssumption DEF Prio
<1>5. MuxData(k, mux, unusedMux)
  <2>1. PICK q \in [1..Cardinality(Muxes) -> Muxes] : Range(q) = Muxes /\ NoDup(q) /\ unusedMux = q
    BY DEF MuxInit, OsMuxInit
  <2>2. mux = [m \in Muxes |-> [used |-> FALSE, count |-> 0, owner |-> NULL, priority |-> 0]]
    BY DEF MuxInit, OsMuxInit
  <2>3. unusedMux \in Seq(Muxes)
    <3>1. Cardinality(Muxes) \in Nat
      BY MuxAssumption, FS_CardinalityType DEF Muxes
    <3> QED BY <2>1, <3>1
  <2>4. \A m \in Muxes : k.list[WaitList(m)] = << >> /\ NULL \notin Range(k.list[WaitList(m)])
    BY <1>3, MuxLists DEF Range
  <2> QED BY <1>4, <2>1, <2>2, <2>3, <2>4 DEF MuxData
<1>6. base \in [Tasks -> Prio]
  BY <1>4 DEF MuxInit
<1> QED BY <1>1, <1>2, <1>3, <1>5, <1>6 DEF MuxSafe

LEMMA MuxNextKept ==
    ASSUME MuxSafe, Plain, [MuxNext]_muxVars
    PROVE  MuxKeeps
<1>1. CASE TaskStep
  BY <1>1, MuxTaskStepKept
<1>2. ASSUME NEW c \in Tasks, MuxPendReturn(c) PROVE MuxKeeps
  BY <1>2, MuxReturnKept
<1>3. ASSUME NEW c \in Tasks, NEW m \in Muxes, LOS_MuxPend(c, m) PROVE MuxKeeps
  BY <1>3, MuxPendKept
<1>4. ASSUME NEW c \in Tasks, NEW m \in Muxes, LOS_MuxPost(c, m) PROVE MuxKeeps
  BY <1>4, MuxPostKept
<1>5. ASSUME NEW c \in Tasks \cup {Isr}, LOS_MuxCreate(c) PROVE MuxKeeps
  BY <1>5, MuxCreateKept
<1>6. ASSUME NEW c \in Tasks \cup {Isr}, NEW m \in Muxes, LOS_MuxDelete(c, m) PROVE MuxKeeps
  BY <1>6, MuxDeleteKept
<1>7. CASE UNCHANGED muxVars
  BY <1>7 DEF MuxSafe, MuxKeeps, muxVars
<1> QED BY <1>1, <1>2, <1>3, <1>4, <1>5, <1>6, <1>7 DEF MuxNext

\* The invariant holds in every reachable state.
THEOREM MuxSafeAlways == Plain => (MuxSpec => []MuxSafe)
<1> SUFFICES ASSUME Plain PROVE MuxSpec => []MuxSafe
  OBVIOUS
<1>1. MuxInit => MuxSafe
  BY MuxInitSafe
<1>2. MuxSafe /\ [MuxNext]_muxVars => MuxSafe'
  BY MuxNextKept DEF MuxKeeps
<1> QED BY <1>1, <1>2, PTL DEF MuxSpec

\* Inheritance does not break the kernel: OsSchedModifyTaskSchedParam on an owner that is
\* ready, waits for another mutex, is suspended or delayed, and the hand-over to a waiter in
\* any state, leave every node where the scheduler expects it and fail no assertion.
THEOREM MuxNeverFaults == Plain => (MuxSpec => []NoFault)
<1> SUFFICES ASSUME Plain PROVE MuxSpec => []NoFault
  OBVIOUS
<1>1. MuxSafe => NoFault
  BY DEF MuxSafe, CoreInv, Sane, NoFault
<1>2. MuxSpec => []MuxSafe
  BY MuxSafeAlways
<1> QED BY <1>1, <1>2, PTL

-----------------------------------------------------------------------------
(***************************************************************************)
(* The refinement.  MuxOwner, MuxDepth, MuxQueue and MuxLate are what      *)
(* module Mux substitutes for the variables of Mutex.                      *)
(***************************************************************************)
MuxOwner == [m \in Muxes |-> mux[m].owner]

MuxDepth == [m \in Muxes |-> mux[m].count]

MuxQueue == [m \in Muxes |-> k.list[WaitList(m)]]

MuxLate == {t \in Tasks : ctx[t].at = "mux" /\ Has(k, t, {"TIMEOUT"})}

IsLate(kk, x, t) == x[t].at = "mux" /\ "TIMEOUT" \in kk.status[t]

LEMMA LateMeans ==
    /\ MuxLate = {t \in Tasks : IsLate(k, ctx, t)}
    /\ MuxLate' = {t \in Tasks : IsLate(k', ctx', t)}
<1>1. \A kk, t : Has(kk, t, {"TIMEOUT"}) <=> "TIMEOUT" \in kk.status[t]
  BY DEF Has
<1>2. MuxLate = {t \in Tasks : IsLate(k, ctx, t)}
  BY <1>1 DEF MuxLate, IsLate
<1>3. MuxLate' = {t \in Tasks : IsLate(k', ctx', t)}
  BY <1>1 DEF MuxLate, IsLate
<1> QED BY <1>2, <1>3

LEMMA SameRange ==
    ASSUME NEW s, NEW e
    PROVE  Abstract!Without(s, e) = Without(s, e) /\ Abstract!Range(s) = Range(s)
  BY DEF Abstract!Without, Without, Abstract!IndexIn, IndexIn, Abstract!Range, Range

LEMMA MutexStarts ==
    ASSUME MuxInit
    PROVE  Abstract!MutexInit
<1>1. MuxOwner = [m \in Muxes |-> NULL] /\ MuxDepth = [m \in Muxes |-> 0]
  BY DEF MuxOwner, MuxDepth, MuxInit, OsMuxInit
<1>2. MuxQueue = [m \in Muxes |-> << >>]
  <2>1. \A m \in Muxes : k.list[WaitList(m)] = << >>
    BY MuxInitSafe DEF MuxSafe, MuxData, MuxInit, OsMuxInit
  <2> QED BY <2>1 DEF MuxQueue
<1>3. MuxLate = {}
  BY TasksAreTCBs DEF MuxLate, MuxInit, Init, UserThread, Thread
<1> QED BY <1>1, <1>2, <1>3 DEF Abstract!MutexInit, MuxOwner, MuxDepth, MuxQueue, MuxLate

\* A thread in application code neither waits nor has timed out.
LEMMA CallerIsFree ==
    ASSUME MuxSafe, NEW c \in Tasks, ctx[c].at = "user", "PEND" \notin k.status[c]
    PROVE  ~Abstract!Waits(c) /\ c \notin MuxLate
<1>1. c \notin MuxLate
  BY DEF MuxLate
<1>2. Sane(k)
  BY DEF MuxSafe, CoreInv
<1>3. \A m \in Muxes : c \notin Abstract!Range(k.list[WaitList(m)])
  BY <1>2, MuxLists, LeftIsSame, SameRange DEF Sane
<1> QED BY <1>1, <1>3 DEF Abstract!Waits

LEMMA LateAsBefore ==
    ASSUME TcbKept(k, ctx), TcbKept(k', ctx'), NEW u \in Tasks, SameWait(k', ctx', k, ctx, u)
    PROVE  IsLate(k', ctx', u) <=> IsLate(k, ctx, u)
<1>1. CASE /\ k'.status[u] \cap WaitFlags = k.status[u] \cap WaitFlags
           /\ \/ ctx'[u].at = ctx[u].at /\ ctx'[u].obj = ctx[u].obj
              \/ ctx'[u].at \in At /\ ctx[u].at \in At
  BY <1>1, MuxPlaces DEF IsLate, WaitFlags
<1>2. CASE /\ "UNUSED" \in k.status[u]
           /\ "UNUSED" \in k'.status[u] \/ (k'.status[u] = {"SUSPEND"} /\ ctx'[u].at = "user")
  <2>1. ctx[u].at = "user" /\ ctx'[u].at = "user"
    BY <1>2 DEF TcbKept
  <2> QED BY <2>1 DEF IsLate
<1> QED BY <1>1, <1>2 DEF SameWait

LEMMA TaskStepIsTimeOut ==
    ASSUME MuxSafe, MuxSafe', TcbKept(k, ctx), TcbKept(k', ctx'), Waits, mux' = mux
    PROVE  \/ UNCHANGED Abstract!mutexVars
           \/ \E m \in Muxes, t \in Tasks : Abstract!TimeOut(m, t)
<1>0. Sane(k) /\ Sane(k') /\ WaitsAt({"mux"}, k, ctx)
  BY DEF MuxSafe, CoreInv
<1>1. MuxOwner' = MuxOwner /\ MuxDepth' = MuxDepth
  BY DEF MuxOwner, MuxDepth
<1>2. ASSUME SameWaiters(k', k), \A u \in Tasks : IsLate(k', ctx', u) <=> IsLate(k, ctx, u)
      PROVE  UNCHANGED Abstract!mutexVars
  <2>1. MuxQueue' = MuxQueue
    BY <1>2, MuxLists DEF MuxQueue, SameWaiters
  <2>2. MuxLate' = MuxLate
    BY <1>2, LateMeans
  <2> QED BY <1>1, <2>1, <2>2 DEF Abstract!mutexVars, MuxOwner, MuxDepth, MuxQueue, MuxLate
<1>3. CASE Calm
  BY <1>2, <1>3, LateAsBefore DEF Calm
<1>4. ASSUME NEW t \in Tasks, Dies(t) PROVE UNCHANGED Abstract!mutexVars
  <2>1. ctx[t].at = "user" /\ ctx'[t].at = "user" /\ Left(k', k, t)
    BY <1>4 DEF Dies, TcbKept, OthersWait
  <2>2. "PEND" \notin k.status[t]
    BY <1>0, <2>1 DEF WaitsAt
  <2>3. SameWaiters(k', k)
    BY <1>0, <2>1, <2>2, LeftIsSame DEF Left, SameWaiters, Sane
  <2>4. \A u \in Tasks : IsLate(k', ctx', u) <=> IsLate(k, ctx, u)
    BY <1>4, <2>1, LateAsBefore DEF Dies, OthersWait, IsLate
  <2> QED BY <1>2, <2>3, <2>4
<1>5. ASSUME NEW t \in Tasks, TimesOut(t) PROVE \E m \in Muxes : Abstract!TimeOut(m, t)
  <2>0. /\ "PEND" \in k.status[t] /\ Left(k', k, t) /\ ctx'[t] = ctx[t]
        /\ "TIMEOUT" \in k'.status[t] /\ \A u \in Tasks \ {t} : SameWait(k', ctx', k, ctx, u)
    BY <1>5 DEF TimesOut, OthersWait, WaitFlags
  <2>1. PICK m \in Muxes : m = ctx[t].obj
    BY <1>0, <2>0, WhereItWaits DEF Muxes
  <2>2. /\ ctx[t].at = "mux" /\ t \in Range(MuxQueue[m])
        /\ \A o \in Muxes : o # m => t \notin Range(k.list[WaitList(o)])
    BY <1>0, <2>0, <2>1, WhereItWaits DEF Muxes, MuxQueue
  <2>3. MuxQueue' = [MuxQueue EXCEPT ![m] = Abstract!Without(MuxQueue[m], t)]
    <3>1. \A o \in Muxes : k'.list[WaitList(o)] = Abstract!Without(k.list[WaitList(o)], t)
      BY <2>0, MuxLists, SameRange DEF Left
    <3>2. \A o \in Muxes : o # m => Abstract!Without(k.list[WaitList(o)], t) = k.list[WaitList(o)]
      BY <2>2, SameRange DEF Without
    <3> QED BY <3>1, <3>2 DEF MuxQueue
  <2>4. MuxLate' = MuxLate \cup {t}
    <3>1. \A u \in Tasks \ {t} : IsLate(k', ctx', u) <=> IsLate(k, ctx, u)
      BY <2>0, LateAsBefore
    <3>2. IsLate(k', ctx', t)
      BY <2>0, <2>2 DEF IsLate
    <3> QED BY <3>1, <3>2, LateMeans
  <2>5. t \in Abstract!Range(MuxQueue[m])
    BY <2>2, SameRange
  <2>6. Abstract!TimeOut(m, t)
    BY <1>1, <2>3, <2>4, <2>5 DEF Abstract!TimeOut, MuxOwner, MuxDepth, MuxQueue, MuxLate
  <2> QED BY <2>6
<1> QED BY <1>3, <1>4, <1>5 DEF Waits

LEMMA OwnersOnly ==
    ASSUME k' = k, ctx' = ctx
    PROVE  MuxQueue' = MuxQueue /\ MuxLate' = MuxLate
  BY DEF MuxQueue, MuxLate, Has

LEMMA PendIsLockOrWait ==
    ASSUME MuxSafe, NEW c \in Tasks, NEW m \in Muxes, LOS_MuxPend(c, m)
    PROVE  Abstract!Lock(m, c) \/ Abstract!Wait(m, c)
<1>0. /\ MuxData(k, mux, unusedMux) /\ Calling(c) /\ CoreInv(MuxAt, k, ctx)
      /\ mux[m].count \in 0..MaxNest /\ mux[m].owner \in Tasks \cup {NULL}
      /\ mux[m].count = 0 <=> mux[m].owner = NULL
      /\ MuxOwner[m] = mux[m].owner /\ MuxDepth[m] = mux[m].count
      /\ c # NULL /\ NULL \notin Tasks
  BY CallerCalls, MuxAssumption, TasksAreTCBs DEF LOS_MuxPend, MuxSafe, MuxData, MuxOwner, MuxDepth
<1>1. ctx[c].at = "user" /\ "PEND" \notin k.status[c]
  BY <1>0, CallerNotStuck DEF Blocked
<1>2. ~Abstract!Waits(c) /\ c \notin MuxLate
  BY <1>1, CallerIsFree
<1>3. CASE mux[m].owner = NULL
  <2>0. mux[m].count = 0 /\ mux[m].owner # c /\ ~(mux[m].count > 0)
    BY <1>0, <1>3
  <2>1. /\ mux' = [mux EXCEPT ![m].count = 1, ![m].owner = c, ![m].priority = k.prio[c]]
        /\ k' = k /\ ctx' = ctx
    BY <1>0, <2>0 DEF LOS_MuxPend
  <2>2. MuxOwner' = [MuxOwner EXCEPT ![m] = c] /\ MuxDepth' = [MuxDepth EXCEPT ![m] = 1]
    BY <1>0, <2>1 DEF MuxOwner, MuxDepth, MuxData
  <2>3. Abstract!Lock(m, c)
    BY <1>0, <1>2, <1>3, <2>1, <2>2, OwnersOnly
       DEF Abstract!Lock, Abstract!SetOwner, MuxOwner, MuxDepth, MuxQueue, MuxLate
  <2> QED BY <2>3
<1>4. CASE mux[m].owner = c
  <2>1. /\ mux' = [mux EXCEPT ![m].count = mux[m].count + 1] /\ mux[m].count < MaxNest
        /\ k' = k /\ ctx' = ctx
    BY <1>0, <1>4, MuxAssumption DEF LOS_MuxPend
  <2>2. MuxOwner' = [MuxOwner EXCEPT ![m] = c] /\ MuxDepth' = [MuxDepth EXCEPT ![m] = MuxDepth[m] + 1]
    BY <1>0, <1>4, <2>1 DEF MuxOwner, MuxDepth, MuxData
  <2>3. Abstract!Lock(m, c)
    BY <1>0, <1>2, <1>4, <2>1, <2>2, OwnersOnly
       DEF Abstract!Lock, Abstract!SetOwner, MuxOwner, MuxDepth, MuxQueue, MuxLate
  <2> QED BY <2>3
<1>5. CASE mux[m].owner \notin {NULL, c}
  <2>0. Begins(c, WaitList(m)) /\ ctx'[c] = Thread("mux", m, TRUE) /\ mux' = mux
    BY <1>5, MuxPendKept
  <2>1. MuxOwner' = MuxOwner /\ MuxDepth' = MuxDepth
    BY <2>0 DEF MuxOwner, MuxDepth
  <2>2. MuxQueue' = [MuxQueue EXCEPT ![m] = Append(MuxQueue[m], c)]
    <3>1. \A n \in Muxes : n # m => WaitList(n) # WaitList(m) /\ WaitList(n) \in Blockers
      BY MuxLists DEF WaitList
    <3>2. /\ k'.list[WaitList(m)] = Append(k.list[WaitList(m)], c)
          /\ \A n \in Muxes : n # m => k'.list[WaitList(n)] = k.list[WaitList(n)]
      BY <2>0, <3>1 DEF Begins
    <3> QED BY <3>2 DEF MuxQueue
  <2>3. MuxLate' = MuxLate
    <3>1. \A u \in Tasks \ {c} : IsLate(k', ctx', u) <=> IsLate(k, ctx, u)
      BY <2>0 DEF Begins, IsLate
    <3>2. ~IsLate(k, ctx, c) /\ ~IsLate(k', ctx', c)
      <4>1. "UNUSED" \notin k.status[c]
        BY <1>0, CallerNotStuck DEF Blocked
      <4>2. "TIMEOUT" \notin k.status[c]
        BY <1>1, <4>1 DEF MuxSafe, WaitsAt
      <4>3. "TIMEOUT" \notin k'.status[c]
        BY <2>0, <4>2 DEF Begins, WaitFlags
      <4> QED BY <4>2, <4>3 DEF IsLate
    <3> QED BY <3>1, <3>2, LateMeans
  <2>4. Abstract!Wait(m, c)
    BY <1>0, <1>2, <1>5, <2>1, <2>2, <2>3 DEF Abstract!Wait, MuxOwner, MuxDepth, MuxQueue, MuxLate
  <2> QED BY <2>4
<1> QED BY <1>0, <1>3, <1>4, <1>5

\* The three cases of Unlock.
LEMMA UnlockCases ==
    ASSUME NEW m \in Muxes, MuxOwner[m] # NULL, ~Abstract!Waits(MuxOwner[m]),
           MuxOwner[m] \notin MuxLate, MuxDepth[m] \in Nat, MuxLate' = MuxLate,
           NEW t, NEW n, MuxOwner' = [MuxOwner EXCEPT ![m] = t],
           MuxDepth' = [MuxDepth EXCEPT ![m] = n],
           \/ /\ MuxDepth[m] > 1 /\ t = MuxOwner[m] /\ n = MuxDepth[m] - 1
              /\ MuxQueue' = MuxQueue
           \/ /\ MuxDepth[m] = 1 /\ MuxQueue[m] = << >> /\ t = NULL /\ n = 0
              /\ MuxQueue' = MuxQueue
           \/ /\ MuxDepth[m] = 1 /\ MuxQueue[m] # << >> /\ t = MuxQueue[m][1] /\ n = 1
              /\ MuxQueue' = [MuxQueue EXCEPT ![m] = Tail(MuxQueue[m])]
    PROVE  Abstract!Unlock(m)
<1>0. ~(MuxDepth[m] > 1 /\ MuxDepth[m] = 1)
  OBVIOUS
<1>1. CASE /\ MuxDepth[m] > 1 /\ t = MuxOwner[m] /\ n = MuxDepth[m] - 1 /\ MuxQueue' = MuxQueue
  BY <1>0, <1>1, Zenon
     DEF Abstract!Unlock, Abstract!SetOwner, MuxOwner, MuxDepth, MuxQueue, MuxLate
<1>2. CASE /\ MuxDepth[m] = 1 /\ MuxQueue[m] = << >> /\ t = NULL /\ n = 0 /\ MuxQueue' = MuxQueue
  BY <1>0, <1>2, Zenon
     DEF Abstract!Unlock, Abstract!SetOwner, MuxOwner, MuxDepth, MuxQueue, MuxLate
<1>3. CASE /\ MuxDepth[m] = 1 /\ MuxQueue[m] # << >> /\ t = MuxQueue[m][1] /\ n = 1
           /\ MuxQueue' = [MuxQueue EXCEPT ![m] = Tail(MuxQueue[m])]
  BY <1>0, <1>3, Zenon
     DEF Abstract!Unlock, Abstract!SetOwner, MuxOwner, MuxDepth, MuxQueue, MuxLate
<1> QED BY <1>1, <1>2, <1>3

LEMMA PostIsUnlock ==
    ASSUME MuxSafe, NEW c \in Tasks, NEW m \in Muxes, LOS_MuxPost(c, m)
    PROVE  Abstract!Unlock(m)
<1>0. /\ MuxData(k, mux, unusedMux) /\ Calling(c) /\ CoreInv(MuxAt, k, ctx) /\ Sane(k)
      /\ mux[m].owner = c /\ WaitsAt({"mux"}, k, ctx) /\ MuxDepth[m] \in Nat
      /\ MuxOwner[m] = c /\ MuxDepth[m] = mux[m].count /\ MuxQueue[m] = k.list[WaitList(m)]
      /\ c # NULL
  <2>1. Calling(c) /\ mux[m].owner = c
    BY MuxPostKept
  <2>2. /\ MuxData(k, mux, unusedMux) /\ CoreInv(MuxAt, k, ctx) /\ Sane(k)
        /\ WaitsAt({"mux"}, k, ctx) /\ mux[m].count \in 0..MaxNest /\ mux[m].count \in Nat
    BY MuxAssumption DEF MuxSafe, MuxData, CoreInv
  <2> QED BY <2>1, <2>2, MuxAssumption, TasksAreTCBs DEF MuxOwner, MuxDepth, MuxQueue
<1>1. ctx[c].at = "user" /\ "PEND" \notin k.status[c]
  BY <1>0, CallerNotStuck DEF Blocked
<1>2. ~Abstract!Waits(MuxOwner[m]) /\ MuxOwner[m] \notin MuxLate
  BY <1>0, <1>1, CallerIsFree
<1> DEFINE q == k.list[WaitList(m)]
<1>3. CASE /\ mux[m].count > 1 /\ k' = k /\ ctx' = ctx
           /\ mux' = [mux EXCEPT ![m].count = mux[m].count - 1]
  <2>1. /\ MuxOwner' = [MuxOwner EXCEPT ![m] = MuxOwner[m]]
        /\ MuxDepth' = [MuxDepth EXCEPT ![m] = MuxDepth[m] - 1]
    BY <1>0, <1>3 DEF MuxOwner, MuxDepth, MuxData
  <2>2. MuxQueue' = MuxQueue /\ MuxLate' = MuxLate /\ MuxDepth[m] > 1 /\ MuxOwner[m] # NULL
    BY <1>0, <1>3, OwnersOnly
  <2> QED BY <1>0, <1>2, <2>1, <2>2, UnlockCases
<1>4. CASE /\ mux[m].count = 1 /\ q = << >>
           /\ mux' = [mux EXCEPT ![m].count = 0, ![m].owner = NULL]
           /\ Finished(c, Restore(k, m), FALSE) /\ Reprioritised(Restore(k, m))
  <2>1. MuxOwner' = [MuxOwner EXCEPT ![m] = NULL] /\ MuxDepth' = [MuxDepth EXCEPT ![m] = 0]
    BY <1>0, <1>4 DEF MuxOwner, MuxDepth, MuxData
  <2>2. /\ SameWaiters(k', k) /\ \A u \in Tasks : k'.status[u] = k.status[u]
        /\ \A u \in Tasks : ctx'[u].at = ctx[u].at
    BY <1>4, TasksAreTCBs DEF Finished, SameTasks, Reprioritised, SameWaiters
  <2>3. MuxQueue' = MuxQueue
    BY <2>2, MuxLists DEF MuxQueue, SameWaiters
  <2>4. MuxLate' = MuxLate
    BY <2>2, LateMeans DEF IsLate
  <2>5. MuxDepth[m] = 1 /\ MuxQueue[m] = << >> /\ MuxOwner[m] # NULL
    BY <1>0, <1>4
  <2> QED BY <1>0, <1>2, <2>1, <2>3, <2>4, <2>5, UnlockCases
<1>5. CASE /\ mux[m].count = 1 /\ q # << >>
           /\ Ends(q[1]) /\ k'.prio = Restore(k, m).prio
           /\ mux' = [mux EXCEPT ![m].owner = q[1], ![m].priority = k'.prio[q[1]]]
  <2>1. PICK t \in Tasks : t = q[1] /\ t \in Range(q) /\ "PEND" \in k.status[t]
    BY <1>0, <1>5, FirstWaiter, MuxLists
  <2>2. MuxOwner' = [MuxOwner EXCEPT ![m] = MuxQueue[m][1]] /\ MuxDepth' = [MuxDepth EXCEPT ![m] = 1]
    BY <1>0, <1>5 DEF MuxOwner, MuxDepth, MuxData
  <2>3. /\ Left(k', k, t) /\ "TIMEOUT" \notin k'.status[t] /\ "TIMEOUT" \notin k.status[t]
        /\ \A u \in Tasks \ {t} : k'.status[u] = k.status[u]
        /\ \A u \in Tasks : ctx'[u].at = ctx[u].at
        /\ \A o \in Muxes : o # m => t \notin Range(k.list[WaitList(o)])
    BY <1>0, <1>5, <2>1, WhereItWaits, TasksAreTCBs DEF Ends, Muxes
  <2>4. MuxQueue' = [MuxQueue EXCEPT ![m] = Tail(MuxQueue[m])]
    <3>1. Without(q, t) = Tail(q)
      BY <1>0, <1>5, <2>1, BlockerLists, MuxLists, TailIsWithout
    <3>2. \A o \in Muxes : k'.list[WaitList(o)] = Without(k.list[WaitList(o)], t)
      BY <2>3, MuxLists DEF Left
    <3>3. \A o \in Muxes : o # m => Without(k.list[WaitList(o)], t) = k.list[WaitList(o)]
      BY <2>3 DEF Without
    <3> QED BY <3>1, <3>2, <3>3 DEF MuxQueue
  <2>5. MuxLate' = MuxLate
    BY <2>3, LateMeans DEF IsLate
  <2>6. MuxDepth[m] = 1 /\ MuxQueue[m] # << >> /\ MuxOwner[m] # NULL
    BY <1>0, <1>5
  <2> QED BY <1>0, <1>2, <2>2, <2>4, <2>5, <2>6, UnlockCases
<1>6. \/ /\ mux[m].count > 1 /\ k' = k /\ ctx' = ctx
         /\ mux' = [mux EXCEPT ![m].count = mux[m].count - 1]
      \/ /\ mux[m].count = 1 /\ q = << >>
         /\ mux' = [mux EXCEPT ![m].count = 0, ![m].owner = NULL]
         /\ Finished(c, Restore(k, m), FALSE) /\ Reprioritised(Restore(k, m))
      \/ /\ mux[m].count = 1 /\ q # << >>
         /\ Ends(q[1]) /\ k'.prio = Restore(k, m).prio
         /\ mux' = [mux EXCEPT ![m].owner = q[1], ![m].priority = k'.prio[q[1]]]
  BY MuxPostKept
<1> QED BY <1>3, <1>4, <1>5, <1>6

LEMMA ReturnIsReturn ==
    ASSUME MuxSafe, NEW c \in Tasks, MuxPendReturn(c)
    PROVE  Abstract!Return(c) \/ UNCHANGED Abstract!mutexVars
<1>0. /\ k'.list = k.list /\ mux' = mux /\ ctx[c].at = "mux"
      /\ \A u \in Tasks \ {c} : k'.status[u] = k.status[u] /\ ctx'[u] = ctx[u]
      /\ ctx'[c] = UserThread
  BY MuxReturnKept DEF MuxPendReturn
<1>1. MuxOwner' = MuxOwner /\ MuxDepth' = MuxDepth /\ MuxQueue' = MuxQueue
  BY <1>0 DEF MuxOwner, MuxDepth, MuxQueue
<1>2. MuxLate' = MuxLate \ {c}
  <2>1. ~IsLate(k', ctx', c) /\ \A u \in Tasks \ {c} : IsLate(k', ctx', u) <=> IsLate(k, ctx, u)
    BY <1>0 DEF IsLate, UserThread, Thread
  <2> QED BY <2>1, LateMeans
<1>3. CASE c \in MuxLate
  BY <1>1, <1>2, <1>3 DEF Abstract!Return, MuxOwner, MuxDepth, MuxQueue, MuxLate
<1>4. CASE c \notin MuxLate
  <2>1. MuxLate' = MuxLate
    BY <1>2, <1>4
  <2> QED BY <1>1, <2>1 DEF Abstract!mutexVars, MuxOwner, MuxDepth, MuxQueue, MuxLate
<1> QED BY <1>3, <1>4

LEMMA CreateAndDeleteStutter ==
    ASSUME MuxSafe, NEW c, LOS_MuxCreate(c) \/ \E m \in Muxes : LOS_MuxDelete(c, m)
    PROVE  UNCHANGED Abstract!mutexVars
<1>0. MuxData(k, mux, unusedMux) /\ k' = k /\ ctx' = ctx
  BY DEF MuxSafe, LOS_MuxCreate, LOS_MuxDelete
<1>1. MuxOwner' = MuxOwner /\ MuxDepth' = MuxDepth
  <2>1. CASE LOS_MuxCreate(c)
    <3>1. PICK m \in Muxes : m = unusedMux[1] /\ m \in Range(unusedMux)
      BY <1>0, <2>1, FirstOfList DEF MuxData, LOS_MuxCreate
    <3>2. mux[m].count = 0 /\ mux[m].owner = NULL
      BY <1>0, <3>1 DEF MuxData
    <3>3. mux' = [mux EXCEPT ![m] = [used |-> TRUE, count |-> 0, owner |-> NULL, priority |-> 0]]
      BY <2>1, <3>1 DEF LOS_MuxCreate
    <3>4. \A n \in Muxes : mux'[n].owner = mux[n].owner /\ mux'[n].count = mux[n].count
      BY <1>0, <3>2, <3>3 DEF MuxData
    <3> QED BY <3>4 DEF MuxOwner, MuxDepth
  <2>2. ASSUME NEW m \in Muxes, LOS_MuxDelete(c, m) PROVE MuxOwner' = MuxOwner /\ MuxDepth' = MuxDepth
    <3>1. mux' = [mux EXCEPT ![m].used = FALSE]
      BY <2>2 DEF LOS_MuxDelete
    <3>2. \A n \in Muxes : mux'[n].owner = mux[n].owner /\ mux'[n].count = mux[n].count
      BY <1>0, <3>1 DEF MuxData
    <3> QED BY <3>2 DEF MuxOwner, MuxDepth
  <2> QED BY <2>1, <2>2
<1> QED BY <1>0, <1>1, OwnersOnly DEF Abstract!mutexVars, MuxOwner, MuxDepth, MuxQueue, MuxLate

\* los_mux.c implements the recursive mutex, with any number of mutexes and of tasks, if no
\* task is deleted by another one: at most one owner, which alone releases, hand-over to the
\* task that waits longest, and a wait that ends with ownership or as timed out.
THEOREM MuxImplementsMutex == Plain /\ Victims = {} => (MuxSpec => ImplementsMutex)
<1> SUFFICES ASSUME Plain, Victims = {} PROVE MuxSpec => ImplementsMutex
  OBVIOUS
<1> DEFINE I == MuxSafe /\ TcbKept(k, ctx)
<1>1. MuxInit => Abstract!MutexInit /\ I
  BY MutexStarts, MuxInitSafe
<1>2. I /\ [MuxNext]_muxVars => I'
  BY MuxNextKept DEF MuxKeeps
<1>3. I /\ I' /\ [MuxNext]_muxVars => [Abstract!MutexNext]_(Abstract!mutexVars)
  <2> SUFFICES ASSUME MuxSafe, MuxSafe', TcbKept(k, ctx), TcbKept(k', ctx'), [MuxNext]_muxVars
               PROVE  Abstract!MutexNext \/ UNCHANGED Abstract!mutexVars
    OBVIOUS
  <2>1. CASE TaskStep
    <3>1. Waits /\ mux' = mux
      BY <2>1, MuxTaskStepKept DEF TaskStep
    <3> QED BY <3>1, TaskStepIsTimeOut DEF Abstract!MutexNext
  <2>2. ASSUME NEW c \in Tasks, MuxPendReturn(c)
        PROVE  Abstract!MutexNext \/ UNCHANGED Abstract!mutexVars
    BY <2>2, ReturnIsReturn DEF Abstract!MutexNext
  <2>3. ASSUME NEW c \in Tasks, NEW m \in Muxes, LOS_MuxPend(c, m) PROVE Abstract!MutexNext
    BY <2>3, PendIsLockOrWait DEF Abstract!MutexNext
  <2>4. ASSUME NEW c \in Tasks, NEW m \in Muxes, LOS_MuxPost(c, m) PROVE Abstract!MutexNext
    BY <2>4, PostIsUnlock DEF Abstract!MutexNext
  <2>5. ASSUME NEW c, LOS_MuxCreate(c) \/ \E m \in Muxes : LOS_MuxDelete(c, m)
        PROVE  UNCHANGED Abstract!mutexVars
    BY <2>5, CreateAndDeleteStutter
  <2>6. CASE UNCHANGED muxVars
    BY <2>6, OwnersOnly DEF muxVars, Abstract!mutexVars, MuxOwner, MuxDepth, MuxQueue, MuxLate
  <2> QED BY <2>1, <2>2, <2>3, <2>4, <2>5, <2>6 DEF MuxNext
<1> HIDE DEF I
<1> QED BY <1>1, <1>2, <1>3, PTL DEF MuxSpec, ImplementsMutex, Abstract!MutexSpec

-----------------------------------------------------------------------------
(***************************************************************************)
(* Inheritance ends with ownership.  A task that takes a second mutex while*)
(* it is boosted keeps the boost, los_task.c lets LOS_TaskPriSet overwrite *)
(* it, and los_task.h forbids deleting an owner: none of these is          *)
(* considered here.                                                        *)
(***************************************************************************)
OneMutex ==
    /\ \A m, n \in Muxes : m = n
    /\ {"priset", "delete"} \cap (TaskCalls \cup IsrCalls) = {}

\* What a task that owns a mutex goes back to is its own priority.
BoostKept ==
    /\ \A m \in Muxes, t \in Tasks :
          mux[m].owner = t => "UNUSED" \notin k.status[t] /\ mux[m].priority = base[t]
    /\ \A t \in Tasks :
          "UNUSED" \notin k.status[t] /\ (\A m \in Muxes : mux[m].owner # t)
             => k.prio[t] = base[t]

\* A task in use stays in use, with its priority.
PrioKept(t) == "UNUSED" \notin k'.status[t] /\ k'.prio[t] = k.prio[t]

TasksKept == \A t \in Tasks : "UNUSED" \notin k.status[t] => PrioKept(t)

LEMMA CallTasksKept ==
    ASSUME NEW A, CoreInv(A, k, ctx), NEW c \in Tasks \cup {Isr}, NEW kk, Sane(kk),
           NEW need \in BOOLEAN, Finish(c, kk, need), kk.prio = k.prio,
           \A t \in Tasks : "UNUSED" \notin k.status[t] => "UNUSED" \notin kk.status[t]
    PROVE  TasksKept
<1>1. ctx \in [TCB -> ThreadState(A)] /\ c \in TCB \cup {Isr}
  BY TasksAreTCBs DEF CoreInv
<1>2. Finished(c, kk, need)
  BY <1>1, FinishStep
<1> QED BY <1>2 DEF Finished, SameTasks, TasksKept, PrioKept

LEMMA KernelTasksKept ==
    ASSUME NEW A, CoreInv(A, k, ctx),
           LOS_Start \/ PendSV \/ Tick({}) \/ \E t \in k.sort : Tick({t})
    PROVE  TasksKept
<1>0. Sane(k) /\ Booting(k)
  BY DEF CoreInv
<1>1. ASSUME Switched(k', k) PROVE TasksKept
  <2>1. ASSUME NEW t \in Tasks, "UNUSED" \notin k.status[t] PROVE "UNUSED" \notin k'.status[t]
    <3>1. k'.status[t] \ {"READY", "RUNNING"} = k.status[t] \ {"READY", "RUNNING"}
      BY <1>1 DEF Switched
    <3> QED BY <2>1, <3>1
  <2> QED BY <1>1, <2>1 DEF Switched, TasksKept, PrioKept
<1>2. CASE LOS_Start
  <2>1. k.run = Dummy /\ k' = OsSchedStart(k)
    BY <1>2 DEF LOS_Start, InUser, Running
  <2> QED BY <1>0, <1>1, <2>1, StartSafe
<1>3. CASE PendSV
  <2>1. PICK left \in BOOLEAN : k' = OsSchedTaskSwitch(k, left)
    BY <1>3 DEF PendSV
  <2> QED BY <1>0, <1>1, <2>1, SwitchSafe
<1>4. ASSUME NEW due, due = {} \/ \E t \in k.sort : due = {t}, Tick(due) PROVE TasksKept
  <2>1. PICK left \in BOOLEAN : k' = LOS_SchedTickHandler(k, due, left)
    BY <1>4 DEF Tick
  <2>2. PICK a : Ticked(k', a, k, due)
    BY <1>0, <1>4, <2>1, TickSafe
  <2>3. k'.status = a.status /\ k'.prio = a.prio
    BY <2>2 DEF Ticked, SameTasks
  <2>4. CASE a = k
    BY <2>3, <2>4 DEF TasksKept, PrioKept
  <2>5. ASSUME NEW t \in k.sort, a = OsSchedWakePendTimeTask(k, t) PROVE TasksKept
    <3>1. /\ t \in Tasks /\ SameBut(a, k, t) /\ a.prio = k.prio
          /\ a.status[t] = (k.status[t] \ {"PEND", "PEND_TIME", "DELAY"})
                               \cup (IF "PEND" \in k.status[t] THEN {"TIMEOUT"} ELSE {})
                               \cup (IF "SUSPEND" \in k.status[t] THEN {} ELSE {"READY"})
      BY <1>0, <2>5, WakePendTimeSafe
    <3>2. "UNUSED" \notin k.status[t] => "UNUSED" \notin a.status[t]
      BY <3>1
    <3>3. \A u \in Tasks : u # t => a.status[u] = k.status[u]
      BY <3>1, TasksAreTCBs DEF SameBut
    <3> QED BY <2>3, <3>1, <3>2, <3>3 DEF TasksKept, PrioKept
  <2> QED BY <2>2, <2>4, <2>5 DEF Ticked
<1> QED BY <1>2, <1>3, <1>4

LEMMA TaskCallTasksKept ==
    ASSUME NEW A, CoreInv(A, k, ctx), NEW c \in Tasks, TaskCall(c)
    PROVE  TasksKept
<1>0. Sane(k) /\ KInv(k) /\ ~k.fault /\ k.lock \in Nat /\ c \in TCB /\ k.run \in TCB
  BY TasksAreTCBs DEF CoreInv, Sane, KInv, KernelState
<1>1. ASSUME NEW kk, SameTasks(kk, k), NEW need \in BOOLEAN, Finish(c, kk, need) PROVE TasksKept
  <2>1. Sane(kk) /\ kk.prio = k.prio /\ kk.status = k.status
    BY <1>0, <1>1, SaneFrame DEF SameTasks
  <2> QED BY <1>1, <2>1, CallTasksKept
<1>2. CASE LOS_TaskDelay(c)
  <2>1. Caller(c, "delay") /\ Finish(c, OsSchedDelay(k), TRUE)
    BY <1>2 DEF LOS_TaskDelay
  <2>2. Calling(c)
    BY <2>1, CallerCalls
  <2>3. k.run = c
    BY <2>2, CallerNotStuck
  <2>4. k' = SetStatus(k, c, {}, {"DELAY"})
    BY <2>1, <2>3, TaskAssumption DEF Finish, OsSchedDelay, TCB
  <2>5. {"DELAY"} \in FlagSets /\ Harmless({}, {"DELAY"})
    BY DEF FlagSets, Flag, Harmless
  <2>6. /\ SameBut(k', k, c) /\ k'.prio = k.prio
        /\ k'.status[c] = (k.status[c] \ {}) \cup {"DELAY"}
    BY <1>0, <2>4, <2>5, SetStatusStep
  <2> QED BY <2>6, TasksAreTCBs DEF SameBut, TasksKept, PrioKept
<1>3. CASE LOS_TaskYield(c)
  <2>1. SameTasks(OsSchedYield(k), k)
    BY <1>0, SliceSafe DEF OsSchedYield
  <2> QED BY <1>1, <1>3, <2>1 DEF LOS_TaskYield
<1>4. CASE LOS_TaskLock(c)
  <2>1. SameTasks([k EXCEPT !.lock = k.lock + 1], k)
    BY <1>0, LockSafe
  <2> QED BY <1>1, <1>4, <2>1 DEF LOS_TaskLock
<1>5. CASE LOS_TaskUnlock(c)
  <2>1. SameTasks([k EXCEPT !.lock = k.lock - 1], k)
    <3>1. k.lock - 1 \in Nat
      BY <1>0, <1>5 DEF LOS_TaskUnlock
    <3> QED BY <1>0, <3>1, LockSafe
  <2> QED BY <1>1, <1>5, <2>1 DEF LOS_TaskUnlock
<1>6. CASE (\E t \in Tasks : LOS_TaskJoin(c, t) \/ LOS_TaskDetach(c, t)) \/ JoinRecycle(c)
  BY <1>0, <1>6, NobodyJoins
<1> QED BY <1>2, <1>3, <1>4, <1>5, <1>6 DEF TaskCall

LEMMA AnyCallTasksKept ==
    ASSUME NEW A, CoreInv(A, k, ctx), OneMutex, NEW c \in Tasks \cup {Isr}, AnyCall(c)
    PROVE  TasksKept
<1>0. Sane(k) /\ Creators(k, ctx) /\ RunNotSuspended(k)
  BY DEF CoreInv
<1>1. ASSUME NEW t \in Tasks, LOS_TaskSuspend(c, t) PROVE TasksKept
  <2> DEFINE kk == OsSchedSuspend(k, t)
             need == t = k.run
  <2>1. Exists(t) /\ Finish(c, kk, need) /\ need \in BOOLEAN
    BY <1>1 DEF LOS_TaskSuspend
  <2>2. "UNUSED" \notin k.status[t]
    BY <1>0, <2>1, ExistsNotHeld
  <2>3. /\ Sane(kk)
        /\ Becomes(kk, k, t, (k.status[t] \ {"READY"}) \cup {"SUSPEND"}, k.sort)
    BY <1>0, <2>2, SuspendSafe
  <2> HIDE DEF kk, need
  <2>4. kk.prio = k.prio /\ \A u \in Tasks : "UNUSED" \notin k.status[u] => "UNUSED" \notin kk.status[u]
    BY <2>3, TasksAreTCBs DEF Becomes, SameBut
  <2> QED BY <2>1, <2>3, <2>4, CallTasksKept
<1>2. ASSUME NEW t \in Tasks, LOS_TaskResume(c, t) PROVE TasksKept
  <2> DEFINE kk == OsSchedResume(k, t)
             need == OsSchedResumeResult(k, t)
  <2>1. /\ Exists(t) /\ Finish(c, kk, need) /\ need \in BOOLEAN
        /\ "SUSPEND" \in k.status[t] /\ Caller(c, "resume")
    BY <1>2 DEF LOS_TaskResume, OsSchedResumeResult, Has
  <2>2. "UNUSED" \notin k.status[t] /\ Calling(c)
    BY <1>0, <2>1, ExistsNotHeld, CallerCalls
  <2>3. t # k.run
    <3>1. CASE c \in Tasks
      BY <2>1, <2>2, <3>1, CallerNotStuck DEF Blocked
    <3>2. CASE c = Isr
      BY <1>0, <2>1, <3>2 DEF Caller, RunNotSuspended
    <3> QED BY <3>1, <3>2
  <2>4. /\ Sane(kk) /\ SameBut(kk, k, t) /\ kk.prio = k.prio
        /\ kk.status[t] = IF need THEN (k.status[t] \ {"SUSPEND"}) \cup {"READY"}
                                  ELSE k.status[t] \ {"SUSPEND"}
    BY <1>0, <2>1, <2>2, <2>3, ResumeSafe
  <2> HIDE DEF kk, need
  <2>5. \A u \in Tasks : "UNUSED" \notin k.status[u] => "UNUSED" \notin kk.status[u]
    BY <2>4, TasksAreTCBs DEF SameBut
  <2> QED BY <2>1, <2>4, <2>5, CallTasksKept
<1>3. ASSUME NEW t \in Tasks, LOS_TaskDelete(c, t) \/ \E p \in Prio : LOS_TaskPriSet(c, t, p)
      PROVE  FALSE
  BY <1>3 DEF OneMutex, LOS_TaskDelete, LOS_TaskPriSet, Caller
<1> QED BY <1>1, <1>2, <1>3 DEF AnyCall

LEMMA CreateCallTasksKept ==
    ASSUME NEW A, CoreInv(A, k, ctx), Plain, NEW c \in Tasks \cup {Dummy}, CreateCall(c)
    PROVE  TasksKept
<1>0. Sane(k) /\ Creators(k, ctx) /\ c \in TCB
  BY TasksAreTCBs DEF CoreInv
<1>1. ASSUME NEW t \in Tasks, SameBut(k', k, t), "UNUSED" \in k.status[t] PROVE TasksKept
  BY <1>1, TasksAreTCBs DEF SameBut, TasksKept, PrioKept
<1>2. CASE k' = k
  BY <1>2 DEF TasksKept, PrioKept
<1>3. CASE OsRecycleFinishedTask(c) /\ k.list[RecycleList] # << >>
  <2>1. k' = RecycleFirst(k)
    BY <1>3 DEF OsRecycleFinishedTask
  <2>2. PICK t \in Tasks : Recycled(k', k, t)
    BY <1>0, <1>3, <2>1, RecycleFirstSafe
  <2> QED BY <1>1, <2>2 DEF Recycled
<1>4. CASE TakeFreeTask(c) /\ k.list[FreeTask] # << >>
  <2>1. PICK t : t = k.list[FreeTask][1]
    OBVIOUS
  <2>2. k' = LOS_ListDelete(k, t)
    BY <1>4, <2>1 DEF TakeFreeTask
  <2>3. TakenOff(k', k, FreeTask, t)
    BY <1>0, <1>4, <2>1, <2>2, UnlinkFirstStep
  <2> QED BY <1>1, <2>3 DEF TakenOff
<1>5. CASE LOS_TaskCreateOnly(c)
  <2>1. PICK t : t = ctx[c].obj
    OBVIOUS
  <2>2. t \in Tasks /\ "UNUSED" \in k.status[t] /\ ~Linked(k, t)
    BY <1>0, <1>5, <2>1, TasksAreTCBs DEF LOS_TaskCreateOnly, Creators, Holding
  <2>3. PICK p \in CreatePrios : \E a : /\ a = OsNewTaskInit(k, t, p, FALSE)
                                        /\ k' = OsInsertTCBToFreeList(a, t) \/ k' = a
    BY <1>5, <2>1 DEF LOS_TaskCreateOnly, Plain
  <2> PICK a : /\ a = OsNewTaskInit(k, t, p, FALSE)
               /\ k' = OsInsertTCBToFreeList(a, t) \/ k' = a
    BY <2>3
  <2>4. /\ Sane(a) /\ SameBut(a, k, t) /\ ~Linked(a, t) /\ t \notin a.sort
    BY <1>0, <2>2, <2>3, NewTaskSafe
  <2>5. CASE k' = a
    BY <1>1, <2>2, <2>4, <2>5
  <2>6. CASE k' = OsInsertTCBToFreeList(a, t)
    <3>1. KInv(a) /\ ~a.fault
      BY <2>4 DEF Sane
    <3>2. SameBut(k', a, t)
      BY <2>2, <2>4, <2>6, <3>1, InsertFreeStep
    <3>3. SameBut(k', k, t)
      BY <2>2, <2>4, <3>2, SameButTrans
    <3> QED BY <1>1, <2>2, <3>3
  <2> QED BY <2>5, <2>6
<1>6. CASE LOS_TaskCreateEnQueue(c)
  <2>1. PICK t : t = ctx[c].obj
    OBVIOUS
  <2>2. k' = OsSchedTaskEnQueue(k, t)
    BY <1>6, <2>1 DEF LOS_TaskCreateEnQueue
  <2>3. t \in Tasks /\ k.status[t] = {"SUSPEND"} /\ KInv(k) /\ ~k.fault
    BY <1>0, <1>6, <2>1 DEF LOS_TaskCreateEnQueue, Creators, Holding, Sane
  <2>4. Becomes(k', k, t, (k.status[t] \ {"SUSPEND", "DELAY", "PEND_TIME"}) \cup {"READY"}, k.sort)
    BY <2>2, <2>3, EnQueueStep
  <2> QED BY <2>3, <2>4, TasksAreTCBs DEF Becomes, SameBut, TasksKept, PrioKept
<1>7. \/ k' = k \/ LOS_TaskCreateOnly(c) \/ LOS_TaskCreateEnQueue(c)
      \/ OsRecycleFinishedTask(c) /\ k.list[RecycleList] # << >>
      \/ TakeFreeTask(c) /\ k.list[FreeTask] # << >>
  BY DEF CreateCall, LOS_TaskCreate, OsRecycleFinishedTask, TakeFreeTask
<1> QED BY <1>2, <1>3, <1>4, <1>5, <1>6, <1>7

LEMMA NextTasksKept ==
    ASSUME NEW A, CoreInv(A, k, ctx), Plain, OneMutex, Next
    PROVE  TasksKept
<1>0. Sane(k)
  BY DEF CoreInv
<1>1. CASE LOS_Start \/ PendSV \/ Tick({}) \/ \E t \in k.sort : Tick({t})
  BY <1>1, KernelTasksKept
<1>2. CASE OsIdleTask
  <2>1. k' = RecycleFirst(k) /\ k.list[RecycleList] # << >>
    BY <1>2 DEF OsIdleTask
  <2>2. PICK t \in Tasks : Recycled(k', k, t)
    BY <1>0, <2>1, RecycleFirstSafe
  <2> QED BY <2>2, TasksAreTCBs DEF Recycled, SameBut, TasksKept, PrioKept
<1>3. ASSUME NEW c \in TCB, LOS_Schedule(c) PROVE TasksKept
  <2>1. k' = LOS_ScheduleEffect(k)
    BY <1>3 DEF LOS_Schedule
  <2>2. SameTasks(k', k)
    BY <1>0, <2>1, ScheduleSafe
  <2> QED BY <2>2 DEF SameTasks, TasksKept, PrioKept
<1>4. ASSUME NEW c \in Tasks, TaskCall(c) PROVE TasksKept
  BY <1>4, TaskCallTasksKept
<1>5. ASSUME NEW c \in Tasks \cup {Isr}, AnyCall(c) PROVE TasksKept
  BY <1>5, AnyCallTasksKept
<1>6. ASSUME NEW c \in Tasks \cup {Dummy}, CreateCall(c) PROVE TasksKept
  BY <1>6, CreateCallTasksKept
<1> QED BY <1>1, <1>2, <1>3, <1>4, <1>5, <1>6 DEF Next

\* The tasks keep their priorities and the mutexes their owners.
LEMMA BoostFrame ==
    ASSUME BoostKept, TasksKept, base' = base,
           \A t \in Tasks : "UNUSED" \in k.status[t] => "UNUSED" \in k'.status[t],
           \A m \in Muxes : /\ mux'[m].owner = mux[m].owner
                            /\ mux[m].owner \in Tasks => mux'[m].priority = mux[m].priority
    PROVE  BoostKept'
  BY DEF BoostKept, TasksKept, PrioKept

LEMMA TaskStepBoost ==
    ASSUME MuxSafe, BoostKept, Plain, OneMutex, TaskStep
    PROVE  BoostKept'
<1>1. /\ CoreInv(MuxAt, k, ctx) /\ Next /\ mux' = mux
      /\ base' = [t \in Tasks |-> IF Has(k, t, {"UNUSED"}) /\ ~Has(k', t, {"UNUSED"})
                                  THEN k'.prio[t] ELSE base[t]]
  BY DEF MuxSafe, TaskStep
<1>2. TasksKept
  BY <1>1, NextTasksKept
<1>3. ASSUME NEW t \in Tasks, "UNUSED" \notin k.status[t]
      PROVE  PrioKept(t) /\ base'[t] = base[t]
  BY <1>1, <1>2, <1>3 DEF TasksKept, Has
<1>4. ASSUME NEW t \in Tasks, "UNUSED" \in k.status[t], "UNUSED" \notin k'.status[t]
      PROVE  base'[t] = k'.prio[t]
  BY <1>1, <1>4 DEF Has
<1> QED BY <1>1, <1>3, <1>4 DEF BoostKept, PrioKept

LEMMA PendBoost ==
    ASSUME MuxSafe, BoostKept, OneMutex, NEW c \in Tasks, NEW m \in Muxes, LOS_MuxPend(c, m)
    PROVE  BoostKept'
<1>0. /\ CoreInv(MuxAt, k, ctx) /\ Sane(k) /\ MuxData(k, mux, unusedMux) /\ base' = base
      /\ Caller(c, "muxpend") /\ mux[m].owner \in Tasks \cup {NULL}
      /\ mux[m].count \in 0..MaxNest /\ (mux[m].count = 0 <=> mux[m].owner = NULL)
      /\ c # NULL /\ NULL \notin Tasks /\ \A n \in Muxes : n = m
  BY MuxAssumption, TasksAreTCBs DEF MuxSafe, LOS_MuxPend, CoreInv, MuxData, OneMutex
<1>1. k.run = c /\ "UNUSED" \notin k.status[c]
  <2>1. Calling(c)
    BY <1>0, CallerCalls
  <2>2. k.run = c
    BY <1>0, <2>1, CallerNotStuck
  <2> QED BY <1>0, <2>2, SaneFacts DEF PlaceOK
<1>2. CASE mux[m].owner = NULL
  <2>1. /\ mux' = [mux EXCEPT ![m].count = 1, ![m].owner = c, ![m].priority = k.prio[c]]
        /\ k' = k
    <3>1. mux[m].count = 0 /\ mux[m].owner # c /\ ~(mux[m].count > 0)
      BY <1>0, <1>2
    <3> QED BY <1>0, <3>1 DEF LOS_MuxPend
  <2>2. mux'[m].owner = c /\ mux'[m].priority = k.prio[c]
    BY <1>0, <2>1 DEF MuxData
  <2>3. k.prio[c] = base[c]
    BY <1>0, <1>1, <1>2 DEF BoostKept
  <2> QED BY <1>0, <1>1, <1>2, <2>1, <2>2, <2>3 DEF BoostKept
<1>3. CASE mux[m].owner = c
  <2>1. mux' = [mux EXCEPT ![m].count = mux[m].count + 1] /\ k' = k
    BY <1>0, <1>3 DEF LOS_MuxPend
  <2>2. mux'[m].owner = mux[m].owner /\ mux'[m].priority = mux[m].priority
    BY <1>0, <2>1 DEF MuxData
  <2> QED BY <1>0, <2>1, <2>2 DEF BoostKept
<1>4. CASE mux[m].owner \notin {NULL, c}
  <2>1. /\ Begins(c, WaitList(m)) /\ mux' = mux
        /\ \A u \in Tasks \ {mux[m].owner} : k'.prio[u] = k.prio[u]
    BY <1>4, MuxPendKept
  <2>2. \A u \in Tasks \ {c} : k'.status[u] = k.status[u]
    BY <2>1 DEF Begins
  <2>3. "UNUSED" \notin k'.status[c]
    <3>1. k'.status[c] \cap WaitFlags = (k.status[c] \cap WaitFlags) \cup {"PEND"}
      BY <2>1 DEF Begins
    <3> QED BY <1>1, <3>1 DEF WaitFlags
  <2> QED BY <1>0, <1>1, <2>1, <2>2, <2>3 DEF BoostKept
<1> QED BY <1>2, <1>3, <1>4

LEMMA PostBoost ==
    ASSUME MuxSafe, BoostKept, OneMutex, NEW c \in Tasks, NEW m \in Muxes, LOS_MuxPost(c, m)
    PROVE  BoostKept'
<1>0. /\ CoreInv(MuxAt, k, ctx) /\ Sane(k) /\ MuxData(k, mux, unusedMux) /\ base' = base
      /\ mux[m].owner = c /\ WaitList(m) \in Blockers
      /\ c # NULL /\ NULL \notin Tasks /\ \A n \in Muxes : n = m
  BY MuxAssumption, TasksAreTCBs, MuxLists DEF MuxSafe, LOS_MuxPost, CoreInv, OneMutex
<1>1. "UNUSED" \notin k.status[c] /\ mux[m].priority = base[c]
  BY <1>0 DEF BoostKept
<1>2. PICK a : a = Restore(k, m)
  OBVIOUS
<1>3. Reprioritised(a) /\ a.prio[c] = base[c] /\ \A u \in Tasks \ {c} : a.prio[u] = k.prio[u]
  BY <1>0, <1>1, <1>2, RestoreReprioritises
<1>4. CASE k' = k /\ mux' = [mux EXCEPT ![m].count = mux[m].count - 1]
  <2>1. mux'[m].owner = mux[m].owner /\ mux'[m].priority = mux[m].priority
    BY <1>0, <1>4 DEF MuxData
  <2> QED BY <1>0, <1>4, <2>1 DEF BoostKept
<1>5. CASE /\ mux' = [mux EXCEPT ![m].count = 0, ![m].owner = NULL]
           /\ Finished(c, Restore(k, m), FALSE)
  <2>1. mux'[m].owner = NULL
    BY <1>0, <1>5 DEF MuxData
  <2>2. /\ k'.prio[c] = base[c]
        /\ \A u \in Tasks : k'.status[u] = k.status[u] /\ (u # c => k'.prio[u] = k.prio[u])
    BY <1>2, <1>3, <1>5 DEF Finished, SameTasks, Reprioritised
  <2> QED BY <1>0, <1>1, <2>1, <2>2 DEF BoostKept
<1>6. CASE /\ k.list[WaitList(m)] # << >> /\ Ends(k.list[WaitList(m)][1])
           /\ k'.prio = Restore(k, m).prio
           /\ mux' = [mux EXCEPT ![m].owner = k.list[WaitList(m)][1],
                                 ![m].priority = k'.prio[k.list[WaitList(m)][1]]]
  <2>1. PICK t \in Tasks : /\ t = k.list[WaitList(m)][1]
                           /\ t \in Range(k.list[WaitList(m)]) /\ "PEND" \in k.status[t]
    BY <1>0, <1>6, FirstWaiter
  <2>2. "UNUSED" \notin k.status[t]
    BY <1>0, <2>1, SaneFacts DEF FlagsOK
  <2>3. t # c
    BY <1>0, <2>1 DEF MuxData
  <2>4. k'.prio[t] = base[t] /\ k'.prio[c] = base[c] /\ \A u \in Tasks \ {c} : k'.prio[u] = k.prio[u]
    BY <1>0, <1>2, <1>3, <1>6, <2>2, <2>3 DEF BoostKept
  <2>5. mux'[m].owner = t /\ mux'[m].priority = base[t]
    BY <1>0, <1>6, <2>1, <2>4 DEF MuxData
  <2>6. "UNUSED" \notin k'.status[t] /\ \A u \in Tasks \ {t} : k'.status[u] = k.status[u]
    BY <1>6, <2>1 DEF Ends
  <2> QED BY <1>0, <1>1, <2>3, <2>4, <2>5, <2>6 DEF BoostKept
<1> QED BY <1>4, <1>5, <1>6, MuxPostKept

LEMMA MuxNextBoost ==
    ASSUME MuxSafe, BoostKept, Plain, OneMutex, [MuxNext]_muxVars
    PROVE  BoostKept'
<1>0. MuxData(k, mux, unusedMux) /\ NULL \notin Tasks
  BY MuxAssumption, TasksAreTCBs DEF MuxSafe
<1>1. CASE TaskStep
  BY <1>1, TaskStepBoost
<1>2. ASSUME NEW c \in Tasks, MuxPendReturn(c) PROVE BoostKept'
  <2>1. /\ mux' = mux /\ base' = base /\ k'.prio = k.prio
        /\ k'.status[c] = k.status[c] \ {"TIMEOUT"}
        /\ \A u \in Tasks \ {c} : k'.status[u] = k.status[u]
    BY <1>2, MuxReturnKept DEF MuxPendReturn
  <2>2. \A u \in Tasks : "UNUSED" \in k'.status[u] <=> "UNUSED" \in k.status[u]
    BY <2>1
  <2> QED BY <2>1, <2>2 DEF BoostKept
<1>3. ASSUME NEW c \in Tasks, NEW m \in Muxes, LOS_MuxPend(c, m) PROVE BoostKept'
  BY <1>3, PendBoost
<1>4. ASSUME NEW c \in Tasks, NEW m \in Muxes, LOS_MuxPost(c, m) PROVE BoostKept'
  BY <1>4, PostBoost
<1>5. ASSUME NEW c \in Tasks \cup {Isr}, LOS_MuxCreate(c) PROVE BoostKept'
  <2>1. PICK m : m = unusedMux[1]
    OBVIOUS
  <2>2. /\ k' = k /\ base' = base /\ unusedMux \in Seq(Muxes) /\ unusedMux # << >>
        /\ mux' = [mux EXCEPT ![m] = [used |-> TRUE, count |-> 0, owner |-> NULL, priority |-> 0]]
    BY <1>0, <1>5, <2>1 DEF LOS_MuxCreate, MuxData
  <2>3. m \in Muxes /\ m \in Range(unusedMux)
    BY <2>1, <2>2, FirstOfList
  <2>4. mux[m].owner = NULL
    BY <1>0, <2>3 DEF MuxData
  <2>5. \A n \in Muxes : /\ mux'[n].owner = mux[n].owner
                         /\ mux[n].owner \in Tasks => mux'[n].priority = mux[n].priority
    BY <1>0, <2>2, <2>4 DEF MuxData
  <2> QED BY <2>2, <2>5, BoostFrame DEF TasksKept, PrioKept
<1>6. ASSUME NEW c \in Tasks \cup {Isr}, NEW m \in Muxes, LOS_MuxDelete(c, m) PROVE BoostKept'
  <2>1. k' = k /\ base' = base /\ mux' = [mux EXCEPT ![m].used = FALSE]
    BY <1>6 DEF LOS_MuxDelete
  <2>2. \A n \in Muxes : mux'[n].owner = mux[n].owner /\ mux'[n].priority = mux[n].priority
    BY <1>0, <2>1 DEF MuxData
  <2> QED BY <2>1, <2>2 DEF BoostKept
<1>7. CASE UNCHANGED muxVars
  BY <1>7 DEF BoostKept, muxVars
<1> QED BY <1>1, <1>2, <1>3, <1>4, <1>5, <1>6, <1>7 DEF MuxNext

\* Priority inheritance is undone.  With one mutex, and if nobody deletes tasks or sets
\* priorities, a task that owns no mutex has the priority it was created with, after any
\* number of boosts, hand-overs and timeouts of those that waited for it; and owners, nesting
\* counts and the list of free control blocks agree.
THEOREM BoostEnds == Plain /\ OneMutex => (MuxSpec => []MuxInv)
<1> SUFFICES ASSUME Plain, OneMutex PROVE MuxSpec => []MuxInv
  OBVIOUS
<1> DEFINE I == MuxSafe /\ BoostKept
<1>1. MuxInit => I
  <2> SUFFICES ASSUME MuxInit PROVE MuxSafe /\ BoostKept
    OBVIOUS
  <2>1. PICK free \in [1..Cardinality(Tasks) -> Tasks] : k = InitialKernel(free)
    BY DEF MuxInit, Init
  <2>2. \A t \in Tasks : k.status[t] = {"UNUSED"}
    BY <2>1, TasksAreTCBs, SchedAssumption DEF InitialKernel
  <2>3. \A m \in Muxes : mux[m].owner = NULL
    BY DEF MuxInit, OsMuxInit
  <2>4. NULL \notin Tasks
    BY MuxAssumption, TasksAreTCBs
  <2> QED BY <2>2, <2>3, <2>4, MuxInitSafe DEF BoostKept
<1>2. I /\ [MuxNext]_muxVars => I'
  BY MuxNextKept, MuxNextBoost DEF MuxKeeps
<1>3. I => MuxInv
  <2> SUFFICES ASSUME MuxSafe, BoostKept PROVE MuxTypeOK /\ BoostUndone
    BY DEF MuxInv
  <2>1. k \in KernelState /\ ctx \in [TCB -> ThreadState(MuxAt)]
    BY DEF MuxSafe, CoreInv, Sane, KInv
  <2>2. MuxTypeOK
    BY <2>1 DEF MuxSafe, MuxData, MuxTypeOK, MuxAt
  <2>3. BoostUndone
    BY DEF BoostKept, BoostUndone, Has
  <2> QED BY <2>2, <2>3
<1> HIDE DEF I
<1> QED BY <1>1, <1>2, <1>3, PTL DEF MuxSpec
=============================================================================
