----------------------------- MODULE TaskProofs -----------------------------
(***************************************************************************)
(* Task, for every number of tasks and priorities and whatever calls tasks *)
(* and interrupt handlers make: the type invariant holds, and as long as   *)
(* no fault occurs every list node is where taskStatus says and the bitmap *)
(* of the ready queues is exact.                                           *)
(*                                                                         *)
(* Neither part is inductive alone.  The switch must find a task where the *)
(* bitmap says there is one, or it would leave the type; the node of a     *)
(* ready task must be in the queue of its own priority, or a dequeue would *)
(* clear the wrong bit; and what a thread that stands inside a call holds  *)
(* on to must be a task.  IInv is their conjunction.                       *)
(***************************************************************************)
EXTENDS Task, SchedProofs, FiniteSetTheorems

-----------------------------------------------------------------------------
(***************************************************************************)
(* Task control blocks.                                                    *)
(***************************************************************************)
\* The first TCB of the free or the recycle list is a task's, and taking it off
\* leaves everything else in place.
LEMMA UnlinkFirst ==
    ASSUME NEW kk, KInv(kk), NEW h \in {FreeTask, RecycleList}, kk.list[h] # << >>,
           NEW t, t = kk.list[h][1], NEW r, r = LOS_ListDelete(kk, t)
    PROVE  t \in Tasks /\ KInv(r) /\ SameCtl(r, kk)
<1>0. h \in Head_ /\ kk \in KernelState /\ kk.list[h] \in Seq(Tasks)
  BY HeadsDiffer DEF KInv, KernelState
<1>1. t \in Tasks /\ h \in Where(kk, t)
  BY <1>0, FirstOfList DEF Where
<1>2. /\ r \in KernelState
      /\ SameTCBs(r, kk)
      /\ r.fault = (kk.fault \/ ~Linked(kk, t))
  BY <1>0, <1>1, ListDeleteType
<1>3. PrioOK(r) /\ SpecialOK(r) /\ SameCtl(r, kk)
  BY <1>2 DEF KInv, PrioOK, SpecialOK, SameCtl, SameTCBs
<1>4. ASSUME ~r.fault PROVE Coherent(r)
  <2>1. ~kk.fault /\ Loose(kk, t) /\ NodeOK(kk, t) /\ PrioOK(kk)
    BY <1>1, <1>2, <1>4, InvIsLoose
  <2>2. ~Has(kk, t, {"READY"}) /\ ~Has(kk, t, {"PEND"})
    BY <1>1, <2>1, HeadsDiffer DEF NodeOK, PrioOK
  <2>3. Loose(r, t) /\ Where(r, t) = {}
    BY <1>0, <1>1, <2>1, <2>2, NotReadyNotQueued, ListDeleteLoose
  <2>4. ~Has(r, t, {"READY"}) /\ ~Has(r, t, {"PEND"})
    BY <1>2, <2>2 DEF Has, SameTCBs
  <2>5. NodeOK(r, t)
    BY <2>3, <2>4 DEF NodeOK
  <2> QED BY <1>1, <2>3, <2>5, CoherentIsLoose
<1> QED BY <1>1, <1>2, <1>3, <1>4 DEF KInv

\* A TCB's status, priority and slice written at once; its node is on no list
\* unless the write is a fault.
Written(kk, t, st, p, f) ==
    [kk EXCEPT !.status = [kk.status EXCEPT ![t] = st],
               !.prio = [kk.prio EXCEPT ![t] = p],
               !.slice = [kk.slice EXCEPT ![t] = FALSE],
               !.fault = f]

LEMMA WriteTCB ==
    ASSUME NEW kk, KInv(kk), NEW t \in Tasks, NEW st \in FlagSets, NEW p \in Prio,
           NEW f \in BOOLEAN, kk.fault => f,
           NEW r, r = Written(kk, t, st, p, f)
    PROVE  /\ r \in KernelState /\ PrioOK(r) /\ SpecialOK(r) /\ SameCtl(r, kk)
           /\ r.fault = f /\ r.status[t] = st
           /\ \A u \in Tasks : Where(r, u) = Where(kk, u)
           /\ ~r.fault => Loose(r, t)
<1>0. t \in TCB /\ kk \in KernelState /\ p \in 0..(LowestPrio + 1) /\ st \in SUBSET Flag
  BY SchedAssumption DEF TCB, KInv, Prio, FlagSets
<1>1. /\ kk.status \in [TCB -> SUBSET Flag]
      /\ kk.prio \in [TCB -> 0..(LowestPrio + 1)]
      /\ kk.slice \in [TCB -> BOOLEAN]
  BY <1>0 DEF KernelState
<1>2. /\ [kk.status EXCEPT ![t] = st] \in [TCB -> SUBSET Flag]
      /\ [kk.prio EXCEPT ![t] = p] \in [TCB -> 0..(LowestPrio + 1)]
      /\ [kk.slice EXCEPT ![t] = FALSE] \in [TCB -> BOOLEAN]
  BY <1>0, <1>1
<1>3. /\ r \in KernelState
      /\ r.status = [kk.status EXCEPT ![t] = st]
      /\ r.prio = [kk.prio EXCEPT ![t] = p]
      /\ r.list = kk.list /\ r.bitmap = kk.bitmap /\ SameCtl(r, kk) /\ r.fault = f
  BY <1>0, <1>2 DEF Written, KernelState, SameCtl
<1>4. /\ r.status[t] = st /\ r.prio[t] = p
      /\ \A u \in TCB \ {t} : r.status[u] = kk.status[u] /\ r.prio[u] = kk.prio[u]
  BY <1>0, <1>1, <1>3
<1>5. PrioOK(r) /\ SpecialOK(r)
  BY <1>4, TasksAreTCBs DEF KInv, PrioOK, SpecialOK
<1>6. \A u \in Tasks : Where(r, u) = Where(kk, u)
  BY <1>3 DEF Where
<1>7. ASSUME ~r.fault PROVE Loose(r, t)
  <2>1. Coherent(kk)
    BY <1>3, <1>7 DEF KInv
  <2>2. \A u \in Tasks \ {t} : NodeOK(r, u)
    BY <1>4, <1>6, <2>1, TasksAreTCBs, NodeFrame DEF Coherent
  <2> QED BY <1>3, <2>1, <2>2 DEF Loose, Coherent, BitmapOK
<1> QED BY <1>3, <1>4, <1>5, <1>6, <1>7

LEMMA ZeroIsPrio == 0 \in Prio
  BY SchedAssumption DEF Prio

LEMMA InsertFreeInv ==
    ASSUME NEW kk, KInv(kk), NEW t \in Tasks, NEW r, r = OsInsertTCBToFreeList(kk, t)
    PROVE  KInv(r) /\ SameCtl(r, kk)
<1> DEFINE f == kk.fault \/ t \in kk.sort
           a == Written(kk, t, {"UNUSED"}, 0, f)
<1>0. r = LOS_ListAdd(a, FreeTask, t)
  BY DEF OsInsertTCBToFreeList, Written
<1>1. {"UNUSED"} \in FlagSets /\ f \in BOOLEAN /\ (kk.fault => f)
  BY DEF FlagSets, Flag
<1> HIDE DEF f
<1>2. /\ a \in KernelState /\ PrioOK(a) /\ SpecialOK(a) /\ SameCtl(a, kk)
      /\ a.status[t] = {"UNUSED"}
      /\ ~a.fault => Loose(a, t)
  BY <1>1, ZeroIsPrio, WriteTCB
<1> HIDE DEF a
<1>3. /\ r \in KernelState
      /\ SameTCBs(r, a)
      /\ r.fault = (a.fault \/ Linked(a, t))
  BY <1>0, <1>2, HeadsDiffer, ListInsertType
<1>4. PrioOK(r) /\ SpecialOK(r) /\ SameCtl(r, kk)
  BY <1>2, <1>3 DEF PrioOK, SpecialOK, SameCtl, SameTCBs
<1>5. ASSUME ~r.fault PROVE Coherent(r)
  <2>0. ~a.fault /\ ~Linked(a, t) /\ Loose(a, t)
    BY <1>2, <1>3, <1>5
  <2>1. Loose(r, t) /\ Where(r, t) = {FreeTask}
    BY <1>0, <1>2, <2>0, HeadsDiffer, ListInsertLoose
  <2>2. ~Has(r, t, {"READY"}) /\ ~Has(r, t, {"PEND"}) /\ Has(r, t, {"UNUSED"})
    BY <1>2, <1>3 DEF Has, SameTCBs
  <2>3. NodeOK(r, t)
    BY <2>1, <2>2 DEF NodeOK
  <2> QED BY <2>1, <2>3, CoherentIsLoose
<1> QED BY <1>3, <1>4, <1>5 DEF KInv

LEMMA RecycleInv ==
    ASSUME NEW kk, KInv(kk), NEW t \in Tasks, NEW r, r = OsRecycleTaskResources(kk, t)
    PROVE  KInv(r) /\ SameCtl(r, kk)
<1>1. CASE Has(kk, t, {"JOINABLE"})
  BY <1>1 DEF OsRecycleTaskResources, SameCtl
<1>2. CASE ~Has(kk, t, {"JOINABLE"})
  BY <1>2, InsertFreeInv DEF OsRecycleTaskResources
<1> QED BY <1>1, <1>2

LEMMA RecycleFirstInv ==
    ASSUME NEW kk, KInv(kk), kk.list[RecycleList] # << >>, NEW r, r = RecycleFirst(kk)
    PROVE  KInv(r) /\ SameCtl(r, kk)
<1> DEFINE t == kk.list[RecycleList][1]
           d == LOS_ListDelete(kk, t)
<1>1. t \in Tasks /\ KInv(d) /\ SameCtl(d, kk)
  BY UnlinkFirst
<1>2. r = OsRecycleTaskResources(d, t)
  BY DEF RecycleFirst
<1> HIDE DEF t, d
<1>3. KInv(r) /\ SameCtl(r, d)
  BY <1>1, <1>2, RecycleInv
<1> QED BY <1>1, <1>3 DEF SameCtl

LEMMA NewTaskInv ==
    ASSUME NEW kk, KInv(kk), NEW t \in Tasks, NEW p \in CreatePrios, NEW joinable \in BOOLEAN,
           NEW r, r = OsNewTaskInit(kk, t, p, joinable)
    PROVE  KInv(r) /\ SameCtl(r, kk)
<1> DEFINE f == kk.fault \/ Linked(kk, t) \/ t \in kk.sort
           st == IF joinable THEN {"SUSPEND", "JOINABLE"} ELSE {"SUSPEND"}
<1>0. p \in Prio
  BY TaskAssumption, SchedAssumption DEF Prio
<1>1. /\ st \in FlagSets /\ f \in BOOLEAN /\ (kk.fault => f)
      /\ "READY" \notin st /\ "PEND" \notin st
  BY DEF FlagSets, Flag
<1>2. r = Written(kk, t, st, p, f)
  BY DEF OsNewTaskInit, Written
<1>3. f => (kk.fault \/ Linked(kk, t) \/ t \in kk.sort)
  OBVIOUS
<1>4. ~f => Where(kk, t) = {}
  BY DEF Linked
<1> HIDE DEF f, st
<1>5. /\ r \in KernelState /\ PrioOK(r) /\ SpecialOK(r) /\ SameCtl(r, kk)
      /\ r.fault = f /\ r.status[t] = st
      /\ \A u \in Tasks : Where(r, u) = Where(kk, u)
      /\ ~r.fault => Loose(r, t)
  BY <1>0, <1>1, <1>2, WriteTCB
<1>6. ASSUME ~r.fault PROVE Coherent(r)
  <2>1. Where(r, t) = {}
    BY <1>4, <1>5, <1>6
  <2>2. ~Has(r, t, {"READY"}) /\ ~Has(r, t, {"PEND"})
    BY <1>1, <1>5 DEF Has
  <2>3. NodeOK(r, t)
    BY <2>1, <2>2 DEF NodeOK
  <2> QED BY <1>5, <1>6, <2>3, CoherentIsLoose
<1> QED BY <1>5, <1>6 DEF KInv

-----------------------------------------------------------------------------
(***************************************************************************)
(* Join and delete.                                                        *)
(***************************************************************************)
LEMMA JoinPostInv ==
    ASSUME NEW kk, KInv(kk), ~kk.fault, NEW t \in Tasks, NEW r, r = OsTaskJoinPostUnsafe(kk, t)
    PROVE  KInv(r) /\ SameCtl(r, kk)
<1>1. CASE Has(kk, t, {"JOINABLE"}) /\ kk.list[JoinList(t)] # << >>
  <2> DEFINE w == kk.list[JoinList(t)][1]
  <2>1. r = OsSchedTaskWake(kk, w)
    BY <1>1 DEF OsTaskJoinPostUnsafe
  <2>2. JoinList(t) \in Blockers /\ JoinList(t) \in Head_ /\ kk \in KernelState
    BY HeadsDiffer DEF KInv
  <2>3. kk.list[JoinList(t)] \in Seq(Tasks)
    BY <2>2 DEF KernelState
  <2>4. w \in Tasks /\ JoinList(t) \in Where(kk, w)
    BY <1>1, <2>2, <2>3, FirstOfList DEF Where
  <2> HIDE DEF w
  <2>5. ~Has(kk, w, {"READY"})
    BY <2>2, <2>4, WaiterNotReady
  <2> QED BY <2>1, <2>4, <2>5, TaskWakeInv
<1>2. CASE ~(Has(kk, t, {"JOINABLE"}) /\ kk.list[JoinList(t)] # << >>)
  <2>1. r = kk
    BY <1>2 DEF OsTaskJoinPostUnsafe
  <2> QED BY <2>1 DEF SameCtl
<1> QED BY <1>1, <1>2

LEMMA JoinPendInv ==
    ASSUME NEW kk, KInv(kk), kk.run \in Tasks, NEW t \in Tasks,
           NEW r, r = OsTaskJoinPendUnsafe(kk, t)
    PROVE  KInv(r) /\ SameCtl(r, kk)
<1>1. CASE Has(kk, t, {"EXIT"})
  BY <1>1 DEF OsTaskJoinPendUnsafe, SameCtl
<1>2. CASE ~Has(kk, t, {"EXIT"})
  <2>1. r = OsSchedTaskWait(kk, JoinList(t), FALSE) /\ JoinList(t) \in Blockers
    BY <1>2, HeadsDiffer DEF OsTaskJoinPendUnsafe
  <2> QED BY <2>1, TaskWaitInv
<1> QED BY <1>1, <1>2

\* The task that deletes itself: its node goes to the recycle list, and Dummy
\* takes over its flags.
LEMMA RunningDeleteInv ==
    ASSUME NEW kk, KInv(kk), NEW t \in Tasks, kk.status[t] \cap Timed = {},
           NEW r, r = OsRunningTaskDelete(kk, t)
    PROVE  KInv(r) /\ r.lock = kk.lock /\ r.scheduled = kk.scheduled
<1> DEFINE s == SetStatus(kk, t, {}, {"UNUSED"})
           a == LOS_ListTailInsert(s, RecycleList, t)
           st == a.status[t] \cup {"RUNNING"}
<1>0. /\ t \in TCB /\ {"UNUSED"} \in FlagSets /\ Harmless({}, {"UNUSED"})
      /\ RecycleList \in Head_ /\ \A p \in Prio : RecycleList # Pri(p)
  BY HeadsDiffer DEF TCB, FlagSets, Flag, Harmless
<1>1. r = [a EXCEPT !.run = Dummy, !.status = [a.status EXCEPT ![Dummy] = st]]
  BY DEF OsRunningTaskDelete
<1>2. /\ KInv(s) /\ SameCtl(s, kk)
      /\ s.status[t] = (kk.status[t] \ {}) \cup {"UNUSED"}
  BY <1>0, SetStatusInv
<1> HIDE DEF s
<1>3. /\ a \in KernelState
      /\ SameTCBs(a, s)
      /\ a.fault = (s.fault \/ Linked(s, t))
  BY <1>0, <1>2, InvIsLoose, ListInsertType
<1>4. ~a.fault => Coherent(a)
  <2> SUFFICES ASSUME ~a.fault PROVE Coherent(a)
    OBVIOUS
  <2>1. ~s.fault /\ ~Linked(s, t)
    BY <1>3
  <2>2. s \in KernelState /\ Loose(s, t) /\ NodeOK(s, t)
    BY <1>2, <2>1, InvIsLoose
  <2>3. Loose(a, t) /\ Where(a, t) = {RecycleList}
    BY <1>0, <2>1, <2>2, ListInsertLoose
  <2>4. ~Has(s, t, {"READY"}) /\ ~Has(s, t, {"PEND"})
    BY <2>1, <2>2 DEF NodeOK, Linked
  <2>5. ~Has(a, t, {"READY"}) /\ ~Has(a, t, {"PEND"}) /\ Has(a, t, {"UNUSED"})
    BY <1>2, <1>3, <2>4 DEF Has, SameTCBs
  <2>6. NodeOK(a, t)
    BY <2>3, <2>5 DEF NodeOK
  <2> QED BY <2>3, <2>6, CoherentIsLoose
<1>5. PrioOK(a) /\ a.status[t] = kk.status[t] \cup {"UNUSED"} /\ a.status[Idle] \cap Timed = {}
  BY <1>2, <1>3 DEF KInv, PrioOK, SpecialOK, SameTCBs
<1> HIDE DEF a
<1>6. st \in FlagSets /\ "UNUSED" \in st /\ st \cap Timed = {} /\ a.status \in [TCB -> FlagSets]
  BY <1>0, <1>3, <1>5 DEF KernelState, FlagSets, Flag, Timed
<1> HIDE DEF st
<1>7. Dummy \in TCB /\ [a.status EXCEPT ![Dummy] = st] \in [TCB -> FlagSets]
  BY <1>6 DEF TCB
<1>8. /\ r \in KernelState
      /\ r.status = [a.status EXCEPT ![Dummy] = st]
      /\ r.prio = a.prio /\ r.list = a.list /\ r.bitmap = a.bitmap /\ r.fault = a.fault
      /\ r.lock = a.lock /\ r.scheduled = a.scheduled
  BY <1>1, <1>3, <1>7 DEF KernelState, FlagSets
<1>9. /\ r.status[Dummy] = st
      /\ \A u \in Tasks \cup {Idle} : r.status[u] = a.status[u]
  BY <1>6, <1>7, <1>8, SchedAssumption DEF TCB
<1>10. PrioOK(r) /\ SpecialOK(r)
  BY <1>5, <1>6, <1>8, <1>9 DEF PrioOK, SpecialOK
<1>11. \A u \in Tasks : Where(r, u) = Where(a, u)
  BY <1>8 DEF Where
<1>12. ~r.fault => Coherent(r)
  <2> SUFFICES ASSUME ~r.fault PROVE Coherent(r)
    OBVIOUS
  <2>1. Coherent(a)
    BY <1>4, <1>8
  <2>2. \A u \in Tasks : NodeOK(r, u)
    BY <1>8, <1>9, <1>11, <2>1, NodeFrame DEF Coherent
  <2> QED BY <1>8, <2>1, <2>2 DEF Coherent, BitmapOK
<1> QED BY <1>2, <1>3, <1>8, <1>10, <1>12 DEF KInv, SameCtl, SameTCBs

LEMMA TaskDeleteInv ==
    ASSUME NEW kk, KInv(kk), ~kk.fault, NEW t \in Tasks, NEW r, r = TaskDeleteEffect(kk, t)
    PROVE  KInv(r) /\ (r.lock = 0 \/ r.lock = kk.lock) /\ r.scheduled = kk.scheduled
<1> DEFINE l == IF Has(kk, t, {"RUNNING"}) THEN [kk EXCEPT !.lock = 0] ELSE kk
           j == OsTaskJoinPostUnsafe(l, t)
           a == OsSchedTaskExit(j, t)
<1>1. /\ KInv(l) /\ ~l.fault /\ (l.lock = 0 \/ l.lock = kk.lock) /\ l.scheduled = kk.scheduled
  <2>1. CASE Has(kk, t, {"RUNNING"})
    <3>1. /\ l \in KernelState
          /\ l.status = kk.status /\ l.prio = kk.prio /\ l.list = kk.list
          /\ l.bitmap = kk.bitmap /\ l.fault = kk.fault /\ l.lock = 0
          /\ l.scheduled = kk.scheduled
      BY <2>1 DEF KInv, KernelState
    <3> QED BY <3>1, InvFrame
  <2>2. CASE ~Has(kk, t, {"RUNNING"})
    BY <2>2
  <2> QED BY <2>1, <2>2
<1>2. TaskExitEffect(kk, t) = a
  BY DEF TaskExitEffect
<1> HIDE DEF l
<1>3. KInv(j) /\ SameCtl(j, l)
  BY <1>1, JoinPostInv
<1> HIDE DEF j
<1>4. KInv(a) /\ SameCtl(a, j) /\ a.status[t] \cap Timed = {}
  BY <1>3, TaskExitInv
<1> HIDE DEF a
<1>5. (a.lock = 0 \/ a.lock = kk.lock) /\ a.scheduled = kk.scheduled
  BY <1>1, <1>3, <1>4 DEF SameCtl
<1>6. CASE Has(a, t, {"RUNNING"}) /\ Has(a, t, {"JOINABLE"})
  <2>1. r = a
    BY <1>2, <1>6 DEF TaskDeleteEffect
  <2> QED BY <1>4, <1>5, <2>1
<1>7. CASE Has(a, t, {"RUNNING"}) /\ ~Has(a, t, {"JOINABLE"})
  <2>1. r = OsRunningTaskDelete(a, t)
    BY <1>2, <1>7 DEF TaskDeleteEffect
  <2>2. KInv(r) /\ r.lock = a.lock /\ r.scheduled = a.scheduled
    BY <1>4, <2>1, RunningDeleteInv
  <2> QED BY <1>5, <2>2
<1>8. CASE ~Has(a, t, {"RUNNING"})
  <2>1. r = OsRecycleTaskResources(a, t)
    BY <1>2, <1>8 DEF TaskDeleteEffect
  <2>2. KInv(r) /\ SameCtl(r, a)
    BY <1>4, <2>1, RecycleInv
  <2> QED BY <1>5, <2>2 DEF SameCtl
<1> QED BY <1>6, <1>7, <1>8

-----------------------------------------------------------------------------
(***************************************************************************)
(* The inductive invariant.                                                *)
(***************************************************************************)
\* A thread inside LOS_TaskCreate or LOS_TaskJoin holds on to a task.
HoldsTask(s) == s.at \in {"init", "enqueue", "join"} => s.obj \in Tasks

CtxOK(x) ==
    /\ x \in [TCB -> ThreadState(At)]
    /\ \A c \in TCB : HoldsTask(x[c])

KernelOK(kk) == KInv(kk) /\ kk.lock <= MaxLock

IInv == KernelOK(k) /\ CtxOK(ctx)

LEMMA CtxSet ==
    ASSUME NEW x, CtxOK(x), NEW c \in TCB, NEW s \in ThreadState(At), HoldsTask(s)
    PROVE  CtxOK([x EXCEPT ![c] = s])
<1>1. x \in [TCB -> ThreadState(At)]
  BY DEF CtxOK
<1>2. [x EXCEPT ![c] = s] \in [TCB -> ThreadState(At)]
  BY <1>1
<1>3. \A d \in TCB : [x EXCEPT ![c] = s][d] = IF d = c THEN s ELSE x[d]
  BY <1>1
<1> HIDE DEF HoldsTask
<1> QED BY <1>2, <1>3 DEF CtxOK

LEMMA CtxWin ==
    ASSUME NEW x, CtxOK(x), NEW c \in TCB, NEW w \in BOOLEAN
    PROVE  CtxOK([x EXCEPT ![c].win = w])
<1> DEFINE s == [x[c] EXCEPT !.win = w]
<1>1. s \in ThreadState(At) /\ HoldsTask(s)
  BY DEF CtxOK, ThreadState, HoldsTask
<1> HIDE DEF s
<1>2. CtxOK([x EXCEPT ![c] = s])
  BY <1>1, CtxSet
<1> QED BY <1>2 DEF s

LEMMA CtxAt ==
    ASSUME NEW x, CtxOK(x), NEW c \in TCB, NEW at \in At,
           x[c].obj \in Tasks \/ at \notin {"init", "enqueue", "join"}
    PROVE  CtxOK([x EXCEPT ![c].at = at])
<1> DEFINE s == [x[c] EXCEPT !.at = at]
<1>1. s \in ThreadState(At) /\ HoldsTask(s)
  BY DEF CtxOK, ThreadState, HoldsTask
<1> HIDE DEF s
<1>2. CtxOK([x EXCEPT ![c] = s])
  BY <1>1, CtxSet
<1> QED BY <1>2 DEF s

LEMMA ThreadType ==
    ASSUME NEW at \in At, NEW o \in TCB, NEW w \in BOOLEAN,
           o \in Tasks \/ at \notin {"init", "enqueue", "join"}
    PROVE  Thread(at, o, w) \in ThreadState(At) /\ HoldsTask(Thread(at, o, w))
  BY DEF Thread, ThreadState, HoldsTask

LEMMA UserThreadType == UserThread \in ThreadState(At) /\ HoldsTask(UserThread)
<1>1. "user" \in At /\ Idle \in TCB /\ "user" \notin {"init", "enqueue", "join"}
  BY DEF At, TCB
<1> QED BY <1>1, ThreadType DEF UserThread

\* The end of every call.
LEMMA FinishInv ==
    ASSUME IInv, NEW c \in TCB \cup {Isr}, NEW kk, KernelOK(kk), NEW need \in BOOLEAN,
           Finish(c, kk, need)
    PROVE  IInv'
<1>1. CASE c = Isr
  <2>1. ctx' = ctx /\ k' = IF need THEN LOS_ScheduleEffect(kk) ELSE kk
    BY <1>1 DEF Finish
  <2>2. KernelOK(LOS_ScheduleEffect(kk))
    <3>1. KInv(LOS_ScheduleEffect(kk)) /\ LOS_ScheduleEffect(kk).lock = kk.lock
      BY ScheduleInv DEF KernelOK
    <3> QED BY <3>1 DEF KernelOK
  <2>3. KernelOK(k')
    BY <2>1, <2>2
  <2> QED BY <2>1, <2>3 DEF IInv
<1>2. CASE c # Isr
  <2>1. k' = kk /\ ctx' = [ctx EXCEPT ![c].win = need] /\ c \in TCB
    BY <1>2 DEF Finish
  <2>2. CtxOK(ctx')
    BY <2>1, CtxWin DEF IInv
  <2> QED BY <2>1, <2>2 DEF IInv
<1> QED BY <1>1, <1>2

LEMMA SameCtlOK ==
    ASSUME NEW kk, KernelOK(kk), NEW r, KInv(r), SameCtl(r, kk)
    PROVE  KernelOK(r)
  BY DEF KernelOK, SameCtl

\* Nobody enters the kernel after a fault, and a task that does is runTask.
LEMMA CallerRuns ==
    ASSUME NEW c \in TCB \cup {Isr}, NEW call, Caller(c, call)
    PROVE  ~k.fault /\ (c # Isr => k.run = c)
  BY DEF Caller, InUser, Running

LEMMA TaskNotIsr == \A c \in TCB : c # Isr
  BY TaskAssumption

-----------------------------------------------------------------------------
(***************************************************************************)
(* One lemma per group of actions.                                         *)
(***************************************************************************)
LEMMA InitOK == Init => IInv
<1> SUFFICES ASSUME Init PROVE IInv
  OBVIOUS
<1>1. PICK free \in [1..Cardinality(Tasks) -> Tasks] :
         Range(free) = Tasks /\ NoDup(free) /\ k = InitialKernel(free)
  BY DEF Init
<1>2. Cardinality(Tasks) \in Nat
  BY SchedAssumption, FS_CardinalityType
<1>3. free \in Seq(Tasks)
  BY <1>1, <1>2, IsASeq
<1>4. CtxOK(ctx)
  BY UserThreadType DEF Init, CtxOK
<1> DEFINE st == [t \in TCB |-> CASE t = Idle -> {"READY"}
                                  [] t = Dummy -> {"UNUSED", "RUNNING"}
                                  [] t \in Tasks -> {"UNUSED"}]
           pr == [t \in TCB |-> CASE t = Idle -> LowestPrio
                                  [] t = Dummy -> LowestPrio + 1
                                  [] t \in Tasks -> 0]
<1>5. /\ st \in [TCB -> SUBSET Flag]
      /\ st[Idle] = {"READY"} /\ st[Dummy] = {"UNUSED", "RUNNING"}
      /\ \A t \in Tasks : st[t] = {"UNUSED"}
  BY SchedAssumption DEF TCB, Flag
<1>6. pr \in [TCB -> 0..(LowestPrio + 1)] /\ \A t \in Tasks : pr[t] = 0
  BY SchedAssumption DEF TCB
<1>7. /\ k.status = st /\ k.prio = pr
      /\ k.list = [h \in Head_ |-> IF h = FreeTask THEN free ELSE << >>]
      /\ k.bitmap = {} /\ k.lock = 0 /\ k.fault = FALSE
  BY <1>1 DEF InitialKernel
<1> HIDE DEF st, pr
<1>8. k \in KernelState
  <2>1. k.list \in [Head_ -> Seq(Tasks)]
    BY <1>3, <1>7
  <2>2. Dummy \in TCB /\ [t \in TCB |-> FALSE] \in [TCB -> BOOLEAN]
    BY DEF TCB
  <2> QED BY <1>1, <1>5, <1>6, <1>7, <2>1, <2>2 DEF InitialKernel, KernelState, st, pr
<1>9. PrioOK(k) /\ SpecialOK(k)
  BY <1>5, <1>6, <1>7, ZeroIsPrio DEF PrioOK, SpecialOK, Timed
<1>10. Coherent(k)
  <2>1. /\ k.list[FreeTask] = free
        /\ \A h \in Head_ : h # FreeTask => k.list[h] = << >>
    BY <1>7, HeadsDiffer
  <2>0. NoDup(<< >>) /\ Range(<< >>) = {}
    BY DEF NoDup, Range
  <2>2. \A h \in Head_ : NoDup(k.list[h])
    BY <1>1, <2>0, <2>1
  <2>3. BitmapOK(k)
    BY <1>7, <2>1, HeadsDiffer DEF BitmapOK
  <2>4. ASSUME NEW t \in Tasks PROVE NodeOK(k, t)
    <3>1. Where(k, t) = {FreeTask}
      BY <1>1, <2>0, <2>1, HeadsDiffer DEF Where
    <3>2. ~Has(k, t, {"READY"}) /\ ~Has(k, t, {"PEND"}) /\ Has(k, t, {"UNUSED"})
      BY <1>5, <1>7 DEF Has
    <3> QED BY <3>1, <3>2 DEF NodeOK
  <2> QED BY <2>2, <2>3, <2>4 DEF Coherent
<1> QED BY <1>4, <1>7, <1>8, <1>9, <1>10, TaskAssumption DEF IInv, KernelOK, KInv

\* Start, switch and tick.
LEMMA KernelStepOK ==
    ASSUME IInv, LOS_Start \/ PendSV \/ Tick({}) \/ \E t \in k.sort : Tick({t})
    PROVE  IInv'
<1>0. KInv(k) /\ k.lock <= MaxLock /\ CtxOK(ctx)
  BY DEF IInv, KernelOK
<1>1. CASE LOS_Start
  <2>1. ~k.fault /\ k' = OsSchedStart(k) /\ ctx' = ctx
    BY <1>1 DEF LOS_Start, InUser, Running
  <2>2. KInv(k') /\ k'.lock = k.lock
    BY <1>0, <2>1, StartInv
  <2> QED BY <1>0, <2>1, <2>2 DEF IInv, KernelOK
<1>2. CASE PendSV
  <2>1. PICK left \in BOOLEAN : k' = OsSchedTaskSwitch(k, left)
    BY <1>2 DEF PendSV
  <2>2. KInv(k') /\ k'.lock = k.lock
    BY <1>0, <2>1, TaskSwitchInv
  <2>3. ctx' = ctx
    BY <1>2 DEF PendSV
  <2> QED BY <1>0, <2>2, <2>3 DEF IInv, KernelOK
<1>3. ASSUME NEW due, due = {} \/ \E t \in Tasks : due = {t}, Tick(due) PROVE IInv'
  <2>1. PICK left \in BOOLEAN : k' = LOS_SchedTickHandler(k, due, left)
    BY <1>3 DEF Tick
  <2>2. ~k.fault /\ ctx' = ctx
    BY <1>3 DEF Tick
  <2>3. KInv(k') /\ k'.lock = k.lock
    BY <1>0, <1>3, <2>1, <2>2, TickInv
  <2> QED BY <1>0, <2>2, <2>3 DEF IInv, KernelOK
<1>4. k.sort \subseteq Tasks
  BY <1>0 DEF KInv, KernelState
<1> QED BY <1>1, <1>2, <1>3, <1>4

LEMMA ScheduleOK ==
    ASSUME IInv, NEW c \in TCB, LOS_Schedule(c)
    PROVE  IInv'
<1>0. KInv(k) /\ k.lock <= MaxLock /\ CtxOK(ctx)
  BY DEF IInv, KernelOK
<1>1. k' = LOS_ScheduleEffect(k) /\ ctx' = [ctx EXCEPT ![c].win = FALSE]
  BY DEF LOS_Schedule
<1>2. KInv(k') /\ k'.lock = k.lock
  BY <1>0, <1>1, ScheduleInv
<1>3. CtxOK(ctx')
  BY <1>0, <1>1, CtxWin
<1> QED BY <1>0, <1>2, <1>3 DEF IInv, KernelOK

LEMMA IdleOK ==
    ASSUME IInv, OsIdleTask
    PROVE  IInv'
<1>1. KernelOK(RecycleFirst(k))
  <2>1. KInv(RecycleFirst(k)) /\ SameCtl(RecycleFirst(k), k)
    BY RecycleFirstInv DEF IInv, KernelOK, OsIdleTask
  <2> QED BY <2>1, SameCtlOK DEF IInv
<1> QED BY <1>1 DEF OsIdleTask, IInv

\* Suspend, resume, priority, delete: from tasks and from interrupt handlers.
LEMMA AnyCallOK ==
    ASSUME IInv, NEW c \in Tasks \cup {Isr}, AnyCall(c)
    PROVE  IInv'
<1>0. KInv(k) /\ KernelOK(k) /\ CtxOK(ctx) /\ c \in TCB \cup {Isr}
  BY DEF IInv, KernelOK, TCB
<1>1. PICK t \in Tasks : \/ LOS_TaskSuspend(c, t)
                         \/ LOS_TaskResume(c, t)
                         \/ \E p \in Prio : LOS_TaskPriSet(c, t, p)
                         \/ LOS_TaskDelete(c, t)
  BY DEF AnyCall
<1>2. CASE LOS_TaskSuspend(c, t)
  <2>1. KernelOK(OsSchedSuspend(k, t))
    BY <1>0, SuspendInv, SameCtlOK
  <2>2. Finish(c, OsSchedSuspend(k, t), t = k.run) /\ (t = k.run) \in BOOLEAN
    BY <1>2 DEF LOS_TaskSuspend
  <2> QED BY <1>0, <2>1, <2>2, FinishInv
<1>3. CASE LOS_TaskResume(c, t)
  <2>1. KernelOK(OsSchedResume(k, t))
    BY <1>0, ResumeInv, SameCtlOK
  <2>2. /\ Finish(c, OsSchedResume(k, t), OsSchedResumeResult(k, t))
        /\ OsSchedResumeResult(k, t) \in BOOLEAN
    BY <1>3 DEF LOS_TaskResume, OsSchedResumeResult, Has
  <2> QED BY <1>0, <2>1, <2>2, FinishInv
<1>4. ASSUME NEW p \in Prio, LOS_TaskPriSet(c, t, p) PROVE IInv'
  <2>1. KernelOK(OsSchedModifyTaskSchedParam(k, t, p))
    BY <1>0, ModifyInv, SameCtlOK
  <2>2. /\ Finish(c, OsSchedModifyTaskSchedParam(k, t, p), OsSchedModifyResult(k, t))
        /\ OsSchedModifyResult(k, t) \in BOOLEAN
    BY <1>4 DEF LOS_TaskPriSet, OsSchedModifyResult, Has
  <2> QED BY <1>0, <2>1, <2>2, FinishInv
<1>5. CASE LOS_TaskDelete(c, t)
  <2> DEFINE a == TaskDeleteEffect(k, t)
  <2>1. ~k.fault
    BY <1>0, <1>5, CallerRuns DEF LOS_TaskDelete
  <2>2. KInv(a) /\ (a.lock = 0 \/ a.lock = k.lock)
    BY <1>0, <2>1, TaskDeleteInv
  <2>3. \/ k' = a /\ ctx' = [ctx EXCEPT ![a.run].win = TRUE]
        \/ Finish(c, a, Has(k, t, {"RUNNING"}))
    BY <1>5 DEF LOS_TaskDelete
  <2> HIDE DEF a
  <2>4. KernelOK(a)
    BY <1>0, <2>2, TaskAssumption DEF KernelOK
  <2>5. CASE k' = a /\ ctx' = [ctx EXCEPT ![a.run].win = TRUE]
    <3>1. a.run \in TCB
      BY <2>2 DEF KInv, KernelState
    <3>2. CtxOK(ctx')
      BY <1>0, <2>5, <3>1, CtxWin
    <3> QED BY <2>4, <2>5, <3>2 DEF IInv
  <2>6. CASE Finish(c, a, Has(k, t, {"RUNNING"}))
    <3>1. Has(k, t, {"RUNNING"}) \in BOOLEAN
      BY DEF Has
    <3> QED BY <1>0, <2>4, <2>6, <3>1, FinishInv
  <2> QED BY <2>3, <2>5, <2>6
<1> QED BY <1>1, <1>2, <1>3, <1>4, <1>5

\* A call that changes the nesting of LOS_TaskLock only.
LEMMA LockInv ==
    ASSUME NEW kk, KInv(kk), NEW n \in Nat, n <= MaxLock
    PROVE  KernelOK([kk EXCEPT !.lock = n])
<1> DEFINE r == [kk EXCEPT !.lock = n]
<1>1. /\ r \in KernelState
      /\ r.status = kk.status /\ r.prio = kk.prio /\ r.list = kk.list
      /\ r.bitmap = kk.bitmap /\ r.fault = kk.fault /\ r.lock = n
  BY DEF KInv, KernelState
<1> HIDE DEF r
<1>2. KInv(r)
  BY <1>1, InvFrame
<1>3. KernelOK(r)
  BY <1>1, <1>2 DEF KernelOK
<1> QED BY <1>3 DEF r

LEMMA JoinCallOK ==
    ASSUME IInv, NEW c \in Tasks, k.run = c, NEW t \in Tasks, JoinCall(c, t)
    PROVE  IInv'
<1>0. KInv(k) /\ KernelOK(k) /\ CtxOK(ctx)
  BY DEF IInv, KernelOK
<1>1. k' = OsTaskJoinPendUnsafe(k, t) /\ ctx' = [ctx EXCEPT ![c] = Thread("join", t, TRUE)]
  BY DEF JoinCall
<1>2. KernelOK(k')
  BY <1>0, <1>1, JoinPendInv, SameCtlOK
<1>3. "join" \in At /\ c \in TCB /\ t \in TCB
  BY DEF At, TCB
<1>4. CtxOK(ctx')
  BY <1>0, <1>1, <1>3, ThreadType, CtxSet
<1> QED BY <1>2, <1>4 DEF IInv

\* The calls only tasks make.
LEMMA TaskCallOK ==
    ASSUME IInv, NEW c \in Tasks, TaskCall(c)
    PROVE  IInv'
<1>0. /\ KInv(k) /\ KernelOK(k) /\ CtxOK(ctx) /\ k \in KernelState
      /\ c \in TCB /\ c \in TCB \cup {Isr} /\ c # Isr
  BY TaskNotIsr DEF IInv, KernelOK, KInv, TCB
<1>1. CASE LOS_TaskDelay(c)
  <2>1. k.run = c /\ Finish(c, OsSchedDelay(k), TRUE)
    BY <1>0, <1>1, CallerRuns DEF LOS_TaskDelay
  <2>2. OsSchedDelay(k) = SetStatus(k, c, {}, {"DELAY"})
    BY <2>1 DEF OsSchedDelay
  <2>3. {"DELAY"} \in FlagSets /\ Harmless({}, {"DELAY"})
    BY DEF FlagSets, Flag, Harmless
  <2>4. KernelOK(OsSchedDelay(k))
    BY <1>0, <2>2, <2>3, SetStatusInv, SameCtlOK
  <2> QED BY <1>0, <2>1, <2>4, FinishInv
<1>2. CASE LOS_TaskYield(c)
  <2>1. Finish(c, OsSchedYield(k), TRUE) /\ k.run \in TCB
    BY <1>0, <1>2 DEF LOS_TaskYield, KernelState
  <2>2. KernelOK(OsSchedYield(k))
    BY <1>0, <2>1, SliceInv, SameCtlOK DEF OsSchedYield
  <2> QED BY <1>0, <2>1, <2>2, FinishInv
<1>3. CASE LOS_TaskLock(c)
  <2>1. Finish(c, [k EXCEPT !.lock = k.lock + 1], FALSE) /\ k.lock < MaxLock
    BY <1>3 DEF LOS_TaskLock
  <2>2. k.lock + 1 \in Nat /\ k.lock + 1 <= MaxLock
    <3>1. k.lock \in Nat /\ MaxLock \in Nat
      BY <1>0, TaskAssumption DEF KernelState
    <3> QED BY <2>1, <3>1
  <2>3. KernelOK([k EXCEPT !.lock = k.lock + 1])
    BY <1>0, <2>2, LockInv
  <2> QED BY <1>0, <2>1, <2>3, FinishInv
<1>4. CASE LOS_TaskUnlock(c)
  <2>1. /\ Finish(c, [k EXCEPT !.lock = k.lock - 1], k.lock = 1)
        /\ k.lock - 1 \in Nat /\ k.lock - 1 <= MaxLock /\ (k.lock = 1) \in BOOLEAN
    BY <1>0, <1>4, TaskAssumption DEF LOS_TaskUnlock, KernelState, KernelOK
  <2>2. KernelOK([k EXCEPT !.lock = k.lock - 1])
    BY <1>0, <2>1, LockInv
  <2> QED BY <1>0, <2>1, <2>2, FinishInv
<1>5. ASSUME NEW t \in Tasks, LOS_TaskJoin(c, t) PROVE IInv'
  BY <1>0, <1>5, CallerRuns, JoinCallOK DEF LOS_TaskJoin
<1>6. ASSUME NEW t \in Tasks, LOS_TaskDetach(c, t) PROVE IInv'
  <2>1. k.run = c
    BY <1>0, <1>6, CallerRuns DEF LOS_TaskDetach
  <2>2. CASE JoinCall(c, t)
    BY <2>1, <2>2, JoinCallOK
  <2>3. CASE Finish(c, SetStatus(k, t, {"JOINABLE"}, {}), FALSE)
    <3>1. t \in TCB /\ {} \in FlagSets /\ Harmless({"JOINABLE"}, {})
      BY DEF TCB, FlagSets, Harmless
    <3>2. KernelOK(SetStatus(k, t, {"JOINABLE"}, {}))
      BY <1>0, <3>1, SetStatusInv, SameCtlOK
    <3> QED BY <1>0, <2>3, <3>2, FinishInv
  <2> QED BY <1>6, <2>2, <2>3 DEF LOS_TaskDetach
<1>7. CASE JoinRecycle(c)
  <2> DEFINE t == ctx[c].obj
             s == SetStatus(k, t, {"JOINABLE"}, {})
  <2>1. /\ k' = OsRecycleTaskResources(s, t)
        /\ ctx' = [ctx EXCEPT ![c] = UserThread]
        /\ ctx[c].at = "join"
    BY <1>7 DEF JoinRecycle
  <2>2. t \in Tasks
    BY <1>0, <2>1 DEF CtxOK, HoldsTask
  <2> HIDE DEF t
  <2>3. t \in TCB /\ {} \in FlagSets /\ Harmless({"JOINABLE"}, {})
    BY <2>2 DEF TCB, FlagSets, Harmless
  <2>4. KInv(s) /\ KernelOK(s)
    BY <1>0, <2>2, <2>3, SetStatusInv, SameCtlOK
  <2> HIDE DEF s
  <2>5. KernelOK(k')
    BY <2>1, <2>2, <2>4, RecycleInv, SameCtlOK
  <2>6. CtxOK(ctx')
    BY <1>0, <2>1, UserThreadType, CtxSet
  <2> QED BY <2>5, <2>6 DEF IInv
<1> QED BY <1>1, <1>2, <1>3, <1>4, <1>5, <1>6, <1>7 DEF TaskCall

\* The steps of LOS_TaskCreate.
LEMMA CreateCallOK ==
    ASSUME IInv, NEW c \in Tasks \cup {Dummy}, CreateCall(c)
    PROVE  IInv'
<1>0. /\ KInv(k) /\ KernelOK(k) /\ CtxOK(ctx) /\ k \in KernelState /\ c \in TCB
      /\ k.scheduled \in BOOLEAN
  BY DEF IInv, KernelOK, KInv, KernelState, TCB
<1>1. CASE LOS_TaskCreate(c)
  <2>1. k' = k /\ ctx' = [ctx EXCEPT ![c] = Thread("recycle", Idle, FALSE)]
    BY <1>1 DEF LOS_TaskCreate
  <2>2. /\ "recycle" \in At /\ "recycle" \notin {"init", "enqueue", "join"}
        /\ Idle \in TCB
    BY DEF At, TCB
  <2>3. CtxOK(ctx')
    BY <1>0, <2>1, <2>2, ThreadType, CtxSet
  <2> QED BY <1>0, <2>1, <2>3 DEF IInv
<1>2. CASE OsRecycleFinishedTask(c)
  <2>1. CASE k.list[RecycleList] # << >>
    <3>1. k' = RecycleFirst(k) /\ ctx' = ctx
      BY <1>2, <2>1 DEF OsRecycleFinishedTask
    <3>2. KernelOK(k')
      BY <1>0, <2>1, <3>1, RecycleFirstInv, SameCtlOK
    <3> QED BY <1>0, <3>1, <3>2 DEF IInv
  <2>2. CASE k.list[RecycleList] = << >>
    <3>1. k' = k /\ ctx' = [ctx EXCEPT ![c].at = "take"]
      BY <1>2, <2>2 DEF OsRecycleFinishedTask
    <3>2. "take" \in At /\ "take" \notin {"init", "enqueue", "join"}
      BY DEF At
    <3>3. CtxOK(ctx')
      BY <1>0, <3>1, <3>2, CtxAt
    <3> QED BY <1>0, <3>1, <3>3 DEF IInv
  <2> QED BY <2>1, <2>2
<1>3. CASE TakeFreeTask(c)
  <2>1. CASE k.list[FreeTask] = << >>
    <3>1. k' = k /\ ctx' = [ctx EXCEPT ![c] = UserThread]
      BY <1>3, <2>1 DEF TakeFreeTask
    <3>2. CtxOK(ctx')
      BY <1>0, <3>1, UserThreadType, CtxSet
    <3> QED BY <1>0, <3>1, <3>2 DEF IInv
  <2>2. CASE k.list[FreeTask] # << >>
    <3> DEFINE t == k.list[FreeTask][1]
    <3>1. k' = LOS_ListDelete(k, t) /\ ctx' = [ctx EXCEPT ![c] = Thread("init", t, FALSE)]
      BY <1>3, <2>2 DEF TakeFreeTask
    <3>2. t \in Tasks /\ KInv(k') /\ SameCtl(k', k)
      BY <1>0, <2>2, <3>1, UnlinkFirst
    <3> HIDE DEF t
    <3>3. KernelOK(k') /\ "init" \in At /\ t \in TCB
      BY <1>0, <3>2, SameCtlOK DEF At, TCB
    <3>4. CtxOK(ctx')
      BY <1>0, <3>1, <3>2, <3>3, ThreadType, CtxSet
    <3> QED BY <3>3, <3>4 DEF IInv
  <2> QED BY <2>1, <2>2
<1>4. CASE LOS_TaskCreateOnly(c)
  <2> DEFINE t == ctx[c].obj
  <2>1. PICK p \in CreatePrios, joinable \in BOOLEAN :
           LET a == OsNewTaskInit(k, t, p, joinable)
           IN  \/ /\ k' = OsInsertTCBToFreeList(a, t)
                  /\ ctx' = [ctx EXCEPT ![c] = UserThread]
               \/ /\ k' = a
                  /\ ctx' = [ctx EXCEPT ![c].at = "enqueue", ![t] = UserThread]
               \/ /\ "createonly" \in TaskCalls
                  /\ k' = a
                  /\ ctx' = [ctx EXCEPT ![c] = UserThread, ![t] = UserThread]
    BY <1>4 DEF LOS_TaskCreateOnly
  <2> DEFINE a == OsNewTaskInit(k, t, p, joinable)
             x == [ctx EXCEPT ![c].at = "enqueue"]
             y == [ctx EXCEPT ![c] = UserThread]
  <2>2. /\ k' = a \/ k' = OsInsertTCBToFreeList(a, t)
        /\ ctx' = y \/ ctx' = [x EXCEPT ![t] = UserThread] \/ ctx' = [y EXCEPT ![t] = UserThread]
    BY <2>1
  <2>3. t \in Tasks
    BY <1>0, <1>4 DEF LOS_TaskCreateOnly, CtxOK, HoldsTask
  <2>4. "enqueue" \in At /\ t \in TCB
    BY <2>3 DEF At, TCB
  <2>5. CtxOK(x) /\ CtxOK(y)
    BY <1>0, <2>3, <2>4, CtxAt, UserThreadType, CtxSet
  <2> HIDE DEF x, y, t
  <2>6. KInv(a) /\ KernelOK(a)
    BY <1>0, <2>3, NewTaskInv, SameCtlOK
  <2> HIDE DEF a
  <2>7. KernelOK(OsInsertTCBToFreeList(a, t))
    BY <2>3, <2>6, InsertFreeInv, SameCtlOK
  <2>8. CtxOK(ctx')
    BY <2>2, <2>4, <2>5, UserThreadType, CtxSet
  <2> QED BY <2>2, <2>6, <2>7, <2>8 DEF IInv
<1>5. CASE LOS_TaskCreateEnQueue(c)
  <2> DEFINE t == ctx[c].obj
  <2>1. /\ k' = OsSchedTaskEnQueue(k, t)
        /\ ctx' = [ctx EXCEPT ![c] = Thread("user", Idle, k.scheduled)]
    BY <1>5 DEF LOS_TaskCreateEnQueue
  <2>2. t \in Tasks
    BY <1>0, <1>5 DEF LOS_TaskCreateEnQueue, CtxOK, HoldsTask
  <2> HIDE DEF t
  <2>3. KernelOK(k')
    BY <1>0, <2>1, <2>2, InvIsLoose, EnQueueInv, SameCtlOK
  <2>4. /\ "user" \in At /\ "user" \notin {"init", "enqueue", "join"}
        /\ Idle \in TCB
    BY DEF At, TCB
  <2>5. CtxOK(ctx')
    BY <1>0, <2>1, <2>4, ThreadType, CtxSet
  <2> QED BY <2>3, <2>5 DEF IInv
<1> QED BY <1>1, <1>2, <1>3, <1>4, <1>5 DEF CreateCall

-----------------------------------------------------------------------------
(***************************************************************************)
(* The theorems.                                                           *)
(***************************************************************************)
LEMMA StepOK == IInv /\ [Next]_vars => IInv'
<1> SUFFICES ASSUME IInv, [Next]_vars PROVE IInv'
  OBVIOUS
<1>1. CASE UNCHANGED vars
  BY <1>1 DEF IInv, vars
<1>2. CASE Next
  BY <1>2, KernelStepOK, IdleOK, ScheduleOK, TaskCallOK, AnyCallOK, CreateCallOK DEF Next
<1> QED BY <1>1, <1>2

\* IInv is an invariant of Task.
THEOREM TaskInvariant == Spec => []IInv
  BY InitOK, StepOK, PTL DEF Spec

\* Whatever tasks and interrupt handlers call, and in whatever order interrupts
\* and switches come, the kernel state keeps its type: in particular the switch
\* always finds a task, and g_losTaskLock never leaves 0..MaxLock.
THEOREM TypeCorrect == Spec => []TaskTypeOK
<1>1. IInv => TaskTypeOK
  BY DEF IInv, KernelOK, KInv, CtxOK, TaskTypeOK
<1> QED BY <1>1, TaskInvariant, PTL

\* As long as no LOS_ASSERT has failed and no list operation has met a node in
\* the wrong place, every TCB's one list node is where its taskStatus says.
THEOREM NodesInPlace == Spec => [](NoFault => NodeWhereStatusSays)
<1>1. IInv => (NoFault => NodeWhereStatusSays)
  BY DEF IInv, KernelOK, KInv, NoFault, NodeWhereStatusSays, Coherent
<1> QED BY <1>1, TaskInvariant, PTL

\* Under the same condition g_queueBitmap has exactly the bits of the non-empty
\* ready queues, so that OsGetTopTask never takes a list head for a task.
THEOREM BitmapIsExact == Spec => [](NoFault => BitmapExact)
<1>1. IInv => (NoFault => BitmapExact)
  BY DEF IInv, KernelOK, KInv, NoFault, BitmapExact, Coherent
<1> QED BY <1>1, TaskInvariant, PTL

-----------------------------------------------------------------------------
(***************************************************************************)
(* The kernel with its task calls never faults, loses no timeout, never    *)
(* lets a thread that may not go on go on, and runs the ready task of the  *)
(* highest priority: proofs for any number of tasks and priorities.        *)
(*                                                                         *)
(* The inductive invariant is CoreInv /\ Highest.  Sane (SchedProofs) says *)
(* how the flags of the TCBs, runTask and the sort link agree; Creators    *)
(* says that the TCBs inside LOS_TaskCreate are on no list and in one      *)
(* hand; SwitchDue says that a runTask that is blocked is in the window    *)
(* before its LOS_Schedule, or has its switch pending.                     *)
(*                                                                         *)
(* The lemmas about steps take the set A of places threads may be at as a  *)
(* parameter, so that modules with more system calls can use them.         *)
(***************************************************************************)

-----------------------------------------------------------------------------
(***************************************************************************)
(* Task control blocks.                                                    *)
(***************************************************************************)
LEMMA InsertFreeStep ==
    ASSUME NEW kk, KInv(kk), ~kk.fault, NEW t \in Tasks, t \notin kk.sort, ~Linked(kk, t),
           NEW r, r = OsInsertTCBToFreeList(kk, t)
    PROVE  /\ SameBut(r, kk, t) /\ r.sort = kk.sort /\ SameWaiters(r, kk)
           /\ r.status[t] = {"UNUSED"} /\ Where(r, t) = {FreeTask}
<1> DEFINE f == kk.fault \/ t \in kk.sort
           a == Written(kk, t, {"UNUSED"}, 0, f)
<1>0. /\ r = LOS_ListAdd(a, FreeTask, t) /\ ~f /\ {"UNUSED"} \in FlagSets /\ f \in BOOLEAN
      /\ t \in TCB /\ kk \in KernelState /\ \A h \in Head_ : NoDup(kk.list[h])
      /\ (kk.fault => f)
  BY TasksAreTCBs DEF OsInsertTCBToFreeList, Written, FlagSets, Flag, KInv, Coherent
<1>1. KInv(r) /\ SameCtl(r, kk)
  BY InsertFreeInv
<1> HIDE DEF f
<1>2. /\ a \in KernelState /\ a.fault = f /\ a.status[t] = {"UNUSED"}
      /\ \A u \in Tasks : Where(a, u) = Where(kk, u)
  BY <1>0, ZeroIsPrio, WriteTCB
<1>3. /\ \A u \in TCB \ {t} : a.status[u] = kk.status[u] /\ a.prio[u] = kk.prio[u]
      /\ a.list = kk.list /\ a.sort = kk.sort
  BY <1>0 DEF Written, KernelState
<1> HIDE DEF a
<1>4. FreeTask \in Head_ /\ ~Linked(a, t) /\ \A h \in Head_ : NoDup(a.list[h])
  BY <1>0, <1>2, <1>3, HeadsDiffer DEF Linked
<1>5. /\ SameTCBs(r, a) /\ r.fault = (a.fault \/ Linked(a, t))
      /\ \A g \in Head_ : g # FreeTask => r.list[g] = a.list[g]
  BY <1>0, <1>2, <1>4, ListInsertType
<1>6. Where(r, t) = {FreeTask} /\ \A u \in Tasks \ {t} : Where(r, u) = Where(a, u)
  BY <1>0, <1>2, <1>4, WhereAfterInsert
<1>7. SameWaiters(r, kk)
  BY <1>3, <1>5, HeadsDiffer DEF SameWaiters
<1>8. OthersStay(r, kk, t)
  BY <1>2, <1>6 DEF OthersStay
<1> QED BY <1>0, <1>1, <1>2, <1>3, <1>4, <1>5, <1>6, <1>7, <1>8 DEF SameBut, SameTCBs

\* The first TCB of the free or the recycle list is unused and on no other list.
TakenOff(r, kk, h, t) ==
    /\ t \in Tasks /\ "UNUSED" \in kk.status[t] /\ Where(kk, t) = {h}
    /\ Sane(r) /\ SameBut(r, kk, t) /\ r.status = kk.status /\ r.prio = kk.prio
    /\ r.sort = kk.sort /\ ~Linked(r, t) /\ SameWaiters(r, kk)

LEMMA UnlinkFirstStep ==
    ASSUME NEW kk, Sane(kk), NEW h \in {FreeTask, RecycleList}, kk.list[h] # << >>,
           NEW t, t = kk.list[h][1], NEW r, r = LOS_ListDelete(kk, t)
    PROVE  TakenOff(r, kk, h, t)
<1>0. /\ h \in Head_ /\ kk \in KernelState /\ kk.list[h] \in Seq(Tasks)
      /\ \A g \in Head_ : NoDup(kk.list[g])
  BY HeadsDiffer DEF Sane, KInv, KernelState, Coherent
<1>1. t \in Tasks /\ h \in Where(kk, t)
  BY <1>0, FirstOfList DEF Where
<1>2. KInv(r) /\ SameCtl(r, kk) /\ KInv(kk) /\ ~kk.fault
  BY UnlinkFirst DEF Sane
<1>3. NodeOK(kk, t) /\ PrioOK(kk) /\ TaskSane(kk, t)
  BY <1>1, <1>2 DEF KInv, Coherent, Sane
<1>4. Where(kk, t) = {h}
  <2>1. CASE Has(kk, t, {"READY"})
    BY <1>1, <1>3, <2>1, HeadsDiffer DEF NodeOK, PrioOK
  <2>2. CASE Has(kk, t, {"PEND"})
    BY <1>1, <1>3, <2>2, HeadsDiffer DEF NodeOK
  <2>3. CASE ~Has(kk, t, {"READY", "PEND"})
    BY <1>1, <1>3, <2>3 DEF NodeOK
  <2> QED BY <2>1, <2>2, <2>3 DEF Has
<1>5. "UNUSED" \in kk.status[t]
  BY <1>3, <1>4 DEF NodeOK, Has
<1>6. /\ SameTCBs(r, kk) /\ r.fault = (kk.fault \/ ~Linked(kk, t))
      /\ r.list = [g \in Head_ |-> Without(kk.list[g], t)]
  BY <1>0, <1>1, ListDeleteType
<1>7. /\ Where(r, t) = {} /\ \A u \in Tasks \ {t} : Where(r, u) = Where(kk, u)
      /\ \A g \in Head_ : g \notin Where(kk, t) => r.list[g] = kk.list[g]
  BY <1>0, <1>1, WhereAfterDelete
<1>8. OthersStay(r, kk, t) /\ ~r.fault /\ ~Linked(r, t) /\ SameWaiters(r, kk)
  BY <1>2, <1>4, <1>6, <1>7, HeadsDiffer DEF OthersStay, Linked, SameWaiters
<1>9. SameBut(r, kk, t)
  BY <1>2, <1>6, <1>8 DEF SameBut, SameTCBs
<1>10. Sane(r)
  BY <1>1, <1>2, <1>3, <1>6, <1>9, SameButSane DEF TaskSane, PlaceOK, SameTCBs, SameCtl
<1> QED BY <1>1, <1>4, <1>5, <1>6, <1>8, <1>9, <1>10 DEF SameTCBs, TakenOff

\* One turn of OsRecycleFinishedTask: from the recycle list to the free list.
Recycled(r, kk, t) ==
    /\ "UNUSED" \in kk.status[t] /\ Where(kk, t) = {RecycleList}
    /\ Sane(r) /\ SameBut(r, kk, t) /\ SameWaiters(r, kk) /\ r.sort = kk.sort
    /\ r.status[t] = {"UNUSED"} /\ Where(r, t) = {FreeTask}

LEMMA RecycleFirstSafe ==
    ASSUME NEW kk, Sane(kk), kk.list[RecycleList] # << >>, NEW r, r = RecycleFirst(kk)
    PROVE  \E t \in Tasks : Recycled(r, kk, t)
<1> DEFINE t == kk.list[RecycleList][1]
           d == LOS_ListDelete(kk, t)
<1>1. /\ t \in Tasks /\ "UNUSED" \in kk.status[t] /\ Where(kk, t) = {RecycleList}
      /\ Sane(d) /\ SameBut(d, kk, t) /\ d.status = kk.status /\ d.prio = kk.prio
      /\ d.sort = kk.sort /\ ~Linked(d, t) /\ SameWaiters(d, kk)
  BY UnlinkFirstStep DEF TakenOff
<1>2. r = OsRecycleTaskResources(d, t)
  BY DEF RecycleFirst
<1> HIDE DEF t, d
<1>3. FlagsOK(d.status[t]) /\ PlaceOK(d, t) /\ KInv(d) /\ ~d.fault /\ t # kk.run
  BY <1>1, SaneFacts DEF PlaceOK
<1>4. r = OsInsertTCBToFreeList(d, t) /\ t \notin d.sort
  BY <1>1, <1>2, <1>3 DEF OsRecycleTaskResources, Has, FlagsOK, PlaceOK
<1>5. /\ SameBut(r, d, t) /\ r.sort = d.sort /\ SameWaiters(r, d)
      /\ r.status[t] = {"UNUSED"} /\ Where(r, t) = {FreeTask}
  BY <1>1, <1>3, <1>4, InsertFreeStep
<1>6. SameBut(r, kk, t)
  BY <1>1, <1>5, SameButTrans
<1>7. TaskSane(r, t)
  BY <1>1, <1>3, <1>4, <1>5, <1>6 DEF TaskSane, FlagsOK, PlaceOK, Blocked, Timed, SameBut, SameCtl
<1>8. Sane(r)
  BY <1>1, <1>6, <1>7, SameButSane
<1>9. SameWaiters(r, kk) /\ r.sort = kk.sort
  BY <1>1, <1>5 DEF SameWaiters
<1> QED BY <1>1, <1>5, <1>6, <1>8, <1>9 DEF Recycled

\* OsNewTaskInit finds the TCB off every list.
LEMMA NewTaskSafe ==
    ASSUME NEW kk, Sane(kk), NEW t \in Tasks, "UNUSED" \in kk.status[t], ~Linked(kk, t),
           NEW p \in CreatePrios, NEW r, r = OsNewTaskInit(kk, t, p, FALSE)
    PROVE  /\ Sane(r) /\ SameBut(r, kk, t) /\ SameWaiters(r, kk)
           /\ r.status[t] = {"SUSPEND"} /\ r.sort = kk.sort /\ ~Linked(r, t) /\ t \notin r.sort
<1>0. /\ KInv(kk) /\ ~kk.fault /\ kk \in KernelState /\ t \in TCB /\ FlagsOK(kk.status[t])
      /\ PlaceOK(kk, t)
  BY SaneFacts
<1>1. t \notin kk.sort /\ t # kk.run
  BY <1>0 DEF FlagsOK, PlaceOK
<1>2. KInv(r) /\ SameCtl(r, kk)
  BY <1>0, NewTaskInv
<1>3. /\ r.fault = (kk.fault \/ Linked(kk, t) \/ t \in kk.sort) /\ r.status[t] = {"SUSPEND"}
      /\ \A u \in TCB \ {t} : r.status[u] = kk.status[u] /\ r.prio[u] = kk.prio[u]
      /\ r.list = kk.list /\ r.sort = kk.sort
  BY <1>0 DEF OsNewTaskInit, KernelState
<1>4. \A u \in Tasks : Where(r, u) = Where(kk, u)
  BY <1>3 DEF Where
<1>5. ~r.fault
  BY <1>0, <1>1, <1>3
<1>6. SameBut(r, kk, t)
  BY <1>2, <1>3, <1>4, <1>5 DEF SameBut, OthersStay
<1>7. TaskSane(r, t)
  BY <1>1, <1>2, <1>3 DEF TaskSane, FlagsOK, PlaceOK, Timed, SameCtl
<1>8. Sane(r)
  BY <1>6, <1>7, SameButSane
<1> QED BY <1>1, <1>3, <1>4, <1>6, <1>8 DEF SameWaiters, Linked

-----------------------------------------------------------------------------
(***************************************************************************)
(* Deletion.                                                               *)
(***************************************************************************)
\* The running task's node goes to the recycle list and Dummy takes its place.
LEMMA RunningDeleteStep ==
    ASSUME NEW kk, KInv(kk), ~kk.fault, NEW t \in Tasks, ~Linked(kk, t),
           kk.status[t] \cap Timed = {}, NEW r, r = OsRunningTaskDelete(kk, t)
    PROVE  /\ KInv(r) /\ ~r.fault /\ r.run = Dummy /\ r.lock = kk.lock
           /\ r.scheduled = kk.scheduled /\ r.pendsv = kk.pendsv
           /\ r.prio = kk.prio /\ r.sort = kk.sort
           /\ r.status[t] = kk.status[t] \cup {"UNUSED"}
           /\ \A u \in (Tasks \ {t}) \cup {Idle} : r.status[u] = kk.status[u]
           /\ OthersStay(r, kk, t) /\ Where(r, t) = {RecycleList} /\ SameWaiters(r, kk)
<1> DEFINE s == SetStatus(kk, t, {}, {"UNUSED"})
           a == LOS_ListTailInsert(s, RecycleList, t)
           st == a.status[t] \cup {"RUNNING"}
<1>0. /\ t \in TCB /\ {"UNUSED"} \in FlagSets /\ kk \in KernelState
      /\ RecycleList \in Head_ /\ \A h \in Head_ : NoDup(kk.list[h])
      /\ r = [a EXCEPT !.run = Dummy, !.status = [a.status EXCEPT ![Dummy] = st]]
  BY TasksAreTCBs, HeadsDiffer DEF FlagSets, Flag, KInv, Coherent, OsRunningTaskDelete
<1>1. KInv(r)
  BY RunningDeleteInv
<1>2. /\ s \in KernelState
      /\ s.status[t] = (kk.status[t] \ {}) \cup {"UNUSED"}
      /\ \A u \in TCB \ {t} : s.status[u] = kk.status[u]
      /\ s.prio = kk.prio /\ s.list = kk.list /\ s.sort = kk.sort
      /\ s.lock = kk.lock /\ s.scheduled = kk.scheduled
      /\ s.pendsv = kk.pendsv /\ s.fault = kk.fault
      /\ \A u \in Tasks : Where(s, u) = Where(kk, u)
  BY <1>0, SetStatusType
<1> HIDE DEF s
<1>3. ~Linked(s, t) /\ \A h \in Head_ : NoDup(s.list[h])
  BY <1>0, <1>2 DEF Linked
<1>4. /\ a \in KernelState /\ SameTCBs(a, s) /\ a.fault = (s.fault \/ Linked(s, t))
      /\ \A g \in Head_ : g # RecycleList => a.list[g] = s.list[g]
  BY <1>0, <1>2, ListInsertType
<1>5. Where(a, t) = {RecycleList} /\ \A u \in Tasks \ {t} : Where(a, u) = Where(s, u)
  BY <1>0, <1>2, <1>3, WhereAfterInsert
<1> HIDE DEF a
<1>6. /\ r.status = [a.status EXCEPT ![Dummy] = st] /\ r.run = Dummy
      /\ r.prio = a.prio /\ r.list = a.list /\ r.sort = a.sort /\ r.fault = a.fault
      /\ r.lock = a.lock /\ r.scheduled = a.scheduled /\ r.pendsv = a.pendsv
      /\ a.status \in [TCB -> SUBSET Flag]
  BY <1>0, <1>4 DEF KernelState
<1> HIDE DEF st
<1>7. \A u \in Tasks \cup {Idle} : r.status[u] = a.status[u]
  BY <1>6, TasksAreTCBs, SchedAssumption
<1>8. /\ r.status[t] = kk.status[t] \cup {"UNUSED"}
      /\ \A u \in (Tasks \ {t}) \cup {Idle} : r.status[u] = kk.status[u]
  BY <1>2, <1>4, <1>7, TasksAreTCBs DEF SameTCBs
<1>9. OthersStay(r, kk, t) /\ Where(r, t) = {RecycleList} /\ SameWaiters(r, kk)
  BY <1>2, <1>4, <1>5, <1>6, HeadsDiffer DEF OthersStay, SameWaiters, Where
<1> QED BY <1>1, <1>2, <1>3, <1>4, <1>6, <1>8, <1>9 DEF SameTCBs

\* t is out of use, its node waits to be reused; a task that deletes itself leaves
\* the core to Dummy with the scheduler unlocked.
Deleted(r, kk, t) ==
    /\ Sane(r) /\ r.scheduled = kk.scheduled /\ r.pendsv = kk.pendsv
    /\ \A u \in Tasks \ {t} : r.status[u] = kk.status[u] /\ r.prio[u] = kk.prio[u]
    /\ OthersStay(r, kk, t) /\ Left(r, kk, t)
    /\ "UNUSED" \in r.status[t] /\ r.status[t] \cap {"READY", "PEND"} = {}
    /\ Where(r, t) \in {{FreeTask}, {RecycleList}}
    /\ t = kk.run => r.run = Dummy /\ r.lock = 0
    /\ t # kk.run => r.run = kk.run /\ r.lock = kk.lock

LEMMA DeleteSafe ==
    ASSUME NEW kk, Sane(kk), NEW t \in Tasks, "UNUSED" \notin kk.status[t],
           NEW r, r = TaskDeleteEffect(kk, t)
    PROVE  Deleted(r, kk, t)
<1> DEFINE st == kk.status[t]
           l == IF Has(kk, t, {"RUNNING"}) THEN [kk EXCEPT !.lock = 0] ELSE kk
           a == OsSchedTaskExit(l, t)
<1>0. /\ KInv(kk) /\ ~kk.fault /\ FlagsOK(st) /\ PlaceOK(kk, t) /\ t \in TCB
      /\ Has(kk, t, {"RUNNING"}) <=> t = kk.run
      /\ Dummy \notin Tasks /\ Dummy # Idle /\ Idle \notin Tasks /\ IdleSane(kk)
  BY SaneFacts, SchedAssumption DEF PlaceOK, Has, Sane
<1>1. /\ Sane(l) /\ SameTasks(l, kk) /\ l.scheduled = kk.scheduled /\ l.pendsv = kk.pendsv
      /\ l.lock = IF t = kk.run THEN 0 ELSE kk.lock
  <2>1. CASE t = kk.run
    <3>1. l = [kk EXCEPT !.lock = 0]
      BY <1>0, <2>1
    <3>2. /\ SameTasks(l, kk) /\ l.lock = 0 /\ l.scheduled = kk.scheduled
          /\ l.pendsv = kk.pendsv
      BY <3>1, LockSafe
    <3> QED BY <2>1, <3>2, SaneFrame
  <2>2. CASE t # kk.run
    BY <1>0, <2>2 DEF SameTasks
  <2> QED BY <2>1, <2>2
<1> HIDE DEF l
<1>2. TaskExitEffect(kk, t) = a
  <2>1. ~Has(l, t, {"JOINABLE"})
    BY <1>0, <1>1 DEF SameTasks, Has, FlagsOK
  <2>2. OsTaskJoinPostUnsafe(l, t) = l
    BY <2>1 DEF OsTaskJoinPostUnsafe
  <2> QED BY <2>2 DEF TaskExitEffect, l
<1>3. /\ SameBut(a, l, t) /\ Left(a, l, t) /\ a.prio = l.prio
      /\ a.status[t] = (l.status[t] \ {"READY", "PEND", "DELAY", "PEND_TIME"}) \cup {"EXIT"}
      /\ t \notin a.sort /\ ~Linked(a, t)
  BY <1>1, ExitSafe DEF SameTasks
<1> HIDE DEF a
<1>4. /\ KInv(a) /\ ~a.fault /\ SameCtl(a, l)
      /\ a.status[t] = (st \ {"READY", "PEND", "DELAY", "PEND_TIME"}) \cup {"EXIT"}
      /\ \A u \in TCB \ {t} : a.status[u] = kk.status[u] /\ a.prio[u] = kk.prio[u]
                              /\ (u \in a.sort <=> u \in kk.sort)
      /\ OthersStay(a, kk, t) /\ Left(a, kk, t)
  BY <1>1, <1>3 DEF SameBut, SameTasks, OthersStay, Left, Where
<1>5. ~Has(a, t, {"JOINABLE"}) /\ (Has(a, t, {"RUNNING"}) <=> t = kk.run)
  BY <1>0, <1>4 DEF Has, FlagsOK
<1>6. CASE t = kk.run
  <2>1. r = OsRunningTaskDelete(a, t)
    BY <1>2, <1>5, <1>6 DEF TaskDeleteEffect
  <2>2. /\ KInv(r) /\ ~r.fault /\ r.run = Dummy /\ r.lock = a.lock
        /\ r.scheduled = a.scheduled /\ r.pendsv = a.pendsv
        /\ r.prio = a.prio /\ r.sort = a.sort
        /\ r.status[t] = a.status[t] \cup {"UNUSED"}
        /\ \A u \in (Tasks \ {t}) \cup {Idle} : r.status[u] = a.status[u]
        /\ OthersStay(r, a, t) /\ Where(r, t) = {RecycleList} /\ SameWaiters(r, a)
    <3>1. a.status[t] \cap Timed = {}
      BY <1>4 DEF Timed
    <3> QED BY <1>3, <1>4, <2>1, <3>1, RunningDeleteStep
  <2>3. \A u \in Tasks \ {t} : r.status[u] = kk.status[u] /\ r.prio[u] = kk.prio[u]
                               /\ (u \in r.sort <=> u \in kk.sort)
    BY <1>4, <2>2, TasksAreTCBs
  <2>4. "UNUSED" \in r.status[t] /\ r.status[t] \cap {"READY", "PEND"} = {}
    BY <1>4, <2>2
  <2>5. FlagsOK(r.status[t]) /\ PlaceOK(r, t)
    BY <1>0, <1>3, <1>4, <2>2 DEF FlagsOK, PlaceOK, Timed
  <2>6. ASSUME NEW u \in Tasks \ {t} PROVE TaskSane(r, u)
    <3>1. FlagsOK(kk.status[u]) /\ PlaceOK(kk, u)
      BY SaneFacts
    <3> QED BY <1>0, <1>6, <2>2, <2>3, <3>1 DEF TaskSane, PlaceOK
  <2>7. IdleSane(r)
    BY <1>0, <1>4, <1>6, <2>2, TasksAreTCBs DEF IdleSane
  <2>8. Sane(r)
    BY <2>2, <2>5, <2>6, <2>7 DEF Sane, TaskSane
  <2>9. OthersStay(r, kk, t) /\ Left(r, kk, t)
    BY <1>4, <2>2 DEF OthersStay, Left, SameWaiters
  <2>10. r.lock = 0 /\ r.scheduled = kk.scheduled /\ r.pendsv = kk.pendsv
    BY <1>1, <1>4, <1>6, <2>2 DEF SameCtl
  <2> QED BY <1>6, <2>2, <2>3, <2>4, <2>8, <2>9, <2>10 DEF Deleted
<1>7. CASE t # kk.run
  <2>1. r = OsRecycleTaskResources(a, t)
    BY <1>2, <1>5, <1>7 DEF TaskDeleteEffect
  <2>2. r = OsInsertTCBToFreeList(a, t)
    BY <1>5, <2>1 DEF OsRecycleTaskResources
  <2>3. /\ SameBut(r, a, t) /\ r.sort = a.sort /\ SameWaiters(r, a)
        /\ r.status[t] = {"UNUSED"} /\ Where(r, t) = {FreeTask}
    BY <1>3, <1>4, <2>2, InsertFreeStep
  <2>4. SameBut(r, l, t)
    BY <1>3, <2>3, SameButTrans
  <2>5. TaskSane(r, t)
    BY <1>1, <1>3, <1>7, <2>3, <2>4
       DEF TaskSane, FlagsOK, PlaceOK, Blocked, Timed, SameBut, SameCtl, SameTasks
  <2>6. Sane(r)
    BY <1>1, <2>4, <2>5, SameButSane
  <2>7. \A u \in Tasks \ {t} : r.status[u] = kk.status[u] /\ r.prio[u] = kk.prio[u]
    BY <1>4, <2>3, TasksAreTCBs DEF SameBut
  <2>8. OthersStay(r, kk, t) /\ Left(r, kk, t)
    BY <1>4, <2>3 DEF OthersStay, Left, SameWaiters, SameBut
  <2>9. /\ r.run = kk.run /\ r.lock = kk.lock
        /\ r.scheduled = kk.scheduled /\ r.pendsv = kk.pendsv
    BY <1>1, <1>7, <2>4 DEF SameBut, SameCtl, SameTasks
  <2> QED BY <1>7, <2>3, <2>6, <2>7, <2>8, <2>9 DEF Deleted
<1> QED BY <1>6, <1>7

-----------------------------------------------------------------------------
(***************************************************************************)
(* The inductive invariant.  A is the set of places threads may be at, of  *)
(* which a module that adds system calls has more than At.                 *)
(***************************************************************************)
Creating == {"recycle", "take", "init", "enqueue"}

Holding == {"init", "enqueue"}

\* TCB t has been taken off the free list by a thread inside LOS_TaskCreate.
Held(x, t) == \E c \in TCB : x[c].at \in Holding /\ x[c].obj = t

Creators(kk, x) ==
    /\ \A c \in TCB :
          /\ x[c].at # "join"
          /\ x[c].at \in Creating => ~x[c].win
          /\ x[c].at \in Holding => x[c].obj \in Tasks
          /\ x[c].at = "init" => "UNUSED" \in kk.status[x[c].obj] /\ ~Linked(kk, x[c].obj)
          /\ x[c].at = "enqueue" => kk.status[x[c].obj] = {"SUSPEND"}
    /\ \A c, d \in TCB :
          x[c].at \in Holding /\ x[d].at \in Holding /\ x[c].obj = x[d].obj => c = d
    /\ kk.scheduled => x[Dummy].at = "user"

\* Before OsSchedStart the boot code runs.
Booting(kk) == ~kk.scheduled => kk.run = Dummy /\ ~kk.pendsv

\* Where interrupt handlers resume tasks, the running task is not suspended.
RunNotSuspended(kk) ==
    "resume" \in IsrCalls => (kk.run \in Tasks => "SUSPEND" \notin kk.status[kk.run])

\* runTask may not go on ...
Stuck(kk) == kk.run # Idle /\ kk.status[kk.run] \cap (Blocked \cup {"DELAY"}) # {}

\* ... and does not, because a switch is pending or LOS_Schedule comes next.
SwitchDue(kk, x) ==
    kk.scheduled /\ Stuck(kk) => kk.pendsv \/ (x[kk.run].win /\ kk.lock = 0)

CoreInv(A, kk, x) ==
    /\ Sane(kk)
    /\ x \in [TCB -> ThreadState(A)]
    /\ Creators(kk, x)
    /\ Booting(kk)
    /\ RunNotSuspended(kk)
    /\ SwitchDue(kk, x)

\* No ready task has precedence over runTask.
Top(kk) == \A u \in Tasks : "READY" \in kk.status[u] => kk.prio[kk.run] <= kk.prio[u]

Highest(kk, x) ==
    kk.scheduled /\ kk.run \in Tasks /\ ~kk.pendsv /\ ~x[kk.run].win /\ kk.lock = 0 => Top(kk)

\* A TCB that is not in use can be found again.
TcbKept(kk, x) ==
    \A t \in Tasks :
        "UNUSED" \in kk.status[t] =>
            /\ x[t].at = "user"
            /\ \/ Where(kk, t) \in {{FreeTask}, {RecycleList}}
               \/ \E c \in TCB : x[c].at = "init" /\ x[c].obj = t

\* A task that joins has no place in the invariant, and the finding about
\* LOS_TaskResume in interrupt handlers is left to the model checker: the kernels
\* considered here create no joinable task, and if their interrupt handlers resume
\* tasks, nobody suspends the task that runs.
Plain ==
    /\ Joinables = {}
    /\ "resume" \notin IsrCalls \/ "suspendrunning" \notin TaskCalls \cup IsrCalls

-----------------------------------------------------------------------------
(***************************************************************************)
(* What a step leaves alone.                                               *)
(***************************************************************************)
Untouched(r, kk, u) == r.status[u] = kk.status[u] /\ Where(r, u) = Where(kk, u)

LEMMA CreatorsFrame ==
    ASSUME NEW kk, NEW x, Creators(kk, x), NEW r, NEW y,
           \A c \in TCB : /\ y[c].at = x[c].at /\ y[c].obj = x[c].obj
                          /\ y[c].at \in Creating => ~y[c].win,
           \A u \in Tasks : Held(x, u) => Untouched(r, kk, u),
           r.scheduled => kk.scheduled \/ x[Dummy].at = "user"
    PROVE  Creators(r, y)
<1>1. ASSUME NEW c \in TCB
      PROVE  /\ y[c].at # "join"
             /\ y[c].at \in Creating => ~y[c].win
             /\ y[c].at \in Holding => y[c].obj \in Tasks
             /\ y[c].at = "init" => "UNUSED" \in r.status[y[c].obj] /\ ~Linked(r, y[c].obj)
             /\ y[c].at = "enqueue" => r.status[y[c].obj] = {"SUSPEND"}
  <2>1. y[c].at \in Holding => y[c].obj \in Tasks /\ Untouched(r, kk, y[c].obj)
    BY DEF Creators, Held
  <2> QED BY <2>1 DEF Creators, Holding, Untouched, Linked
<1>2. ASSUME NEW c \in TCB, NEW d \in TCB,
             y[c].at \in Holding, y[d].at \in Holding, y[c].obj = y[d].obj
      PROVE  c = d
  BY <1>2 DEF Creators
<1>3. r.scheduled => y[Dummy].at = "user"
  BY TasksAreTCBs DEF Creators
<1> QED BY <1>1, <1>2, <1>3 DEF Creators

LEMMA TcbKeptFrame ==
    ASSUME NEW kk, NEW x, TcbKept(kk, x), NEW r, NEW y,
           \A c \in TCB : y[c].at = x[c].at /\ y[c].obj = x[c].obj,
           \A u \in Tasks : "UNUSED" \in r.status[u] =>
              \/ "UNUSED" \in kk.status[u] /\ Where(r, u) = Where(kk, u)
              \/ x[u].at = "user" /\ Where(r, u) \in {{FreeTask}, {RecycleList}}
    PROVE  TcbKept(r, y)
<1> SUFFICES ASSUME NEW t \in Tasks, "UNUSED" \in r.status[t]
             PROVE  /\ y[t].at = "user"
                    /\ \/ Where(r, t) \in {{FreeTask}, {RecycleList}}
                       \/ \E c \in TCB : y[c].at = "init" /\ y[c].obj = t
  BY DEF TcbKept
<1>1. t \in TCB
  BY TasksAreTCBs
<1>2. CASE "UNUSED" \in kk.status[t] /\ Where(r, t) = Where(kk, t)
  BY <1>1, <1>2 DEF TcbKept
<1>3. CASE x[t].at = "user" /\ Where(r, t) \in {{FreeTask}, {RecycleList}}
  BY <1>1, <1>3
<1> QED BY <1>2, <1>3

\* A TCB that is being created is not runTask, not ready and in no timed wait.
LEMMA HeldFacts ==
    ASSUME NEW kk, Sane(kk), NEW x, Creators(kk, x), NEW u \in Tasks, Held(x, u)
    PROVE  /\ u # kk.run /\ u \notin kk.sort
           /\ kk.status[u] \cap {"READY", "PEND"} = {}
           /\ "UNUSED" \in kk.status[u] \/ kk.status[u] = {"SUSPEND"}
<1>1. "UNUSED" \in kk.status[u] \/ kk.status[u] = {"SUSPEND"}
  BY DEF Held, Creators, Holding
<1>2. FlagsOK(kk.status[u]) /\ PlaceOK(kk, u)
  BY SaneFacts
<1> QED BY <1>1, <1>2 DEF FlagsOK, PlaceOK, Blocked, Timed

LEMMA ExistsNotHeld ==
    ASSUME Creators(k, ctx), NEW t \in Tasks, Exists(t)
    PROVE  ~Held(ctx, t) /\ "UNUSED" \notin k.status[t]
  BY DEF Creators, Exists, Known, Has, Held, Holding

\* A switch touches no TCB that is unused or held.
LEMMA SwitchFrame ==
    ASSUME NEW kk, Sane(kk), NEW x, Creators(kk, x), NEW r, Switched(r, kk)
    PROVE  /\ \A u \in Tasks : Held(x, u) => Untouched(r, kk, u)
           /\ \A u \in Tasks : "UNUSED" \in r.status[u] =>
                 "UNUSED" \in kk.status[u] /\ Where(r, u) = Where(kk, u)
<1>1. ASSUME NEW u \in Tasks, Held(x, u) PROVE Untouched(r, kk, u)
  BY <1>1, HeldFacts DEF Switched, Untouched
<1>2. ASSUME NEW u \in Tasks, "UNUSED" \in r.status[u]
      PROVE  "UNUSED" \in kk.status[u] /\ Where(r, u) = Where(kk, u)
  <2>1. r.status[u] \ {"READY", "RUNNING"} = kk.status[u] \ {"READY", "RUNNING"}
    BY DEF Switched
  <2>2. "UNUSED" \in kk.status[u]
    BY <1>2, <2>1
  <2>3. FlagsOK(kk.status[u]) /\ PlaceOK(kk, u)
    BY SaneFacts
  <2>4. u # kk.run /\ "READY" \notin kk.status[u]
    BY <2>2, <2>3 DEF FlagsOK, PlaceOK, Blocked
  <2> QED BY <2>2, <2>4 DEF Switched
<1> QED BY <1>1, <1>2

-----------------------------------------------------------------------------
(***************************************************************************)
(* The kernel's own steps.                                                 *)
(***************************************************************************)
LEMMA SwitchedInv ==
    ASSUME NEW A, NEW kk, NEW x, CoreInv(A, kk, x), NEW r,
           Sane(r), Picked(r), Switched(r, kk), r.scheduled,
           kk.scheduled \/ x[Dummy].at = "user"
    PROVE  CoreInv(A, r, x) /\ Highest(r, x) /\ (TcbKept(kk, x) => TcbKept(r, x))
<1>0. Sane(kk) /\ Creators(kk, x) /\ x \in [TCB -> ThreadState(A)]
  BY DEF CoreInv
<1>1. /\ \A u \in Tasks : Held(x, u) => Untouched(r, kk, u)
      /\ \A u \in Tasks : "UNUSED" \in r.status[u] =>
            "UNUSED" \in kk.status[u] /\ Where(r, u) = Where(kk, u)
  BY <1>0, SwitchFrame
<1>2. Creators(r, x)
  <2>1. \A c \in TCB : x[c].at \in Creating => ~x[c].win
    BY <1>0 DEF Creators
  <2> QED BY <1>0, <1>1, <2>1, CreatorsFrame
<1>3. ~Stuck(r) /\ (r.run \in Tasks => "SUSPEND" \notin r.status[r.run])
  BY DEF Picked, Stuck, Blocked
<1>4. Highest(r, x)
  BY DEF Highest, Picked, Top
<1>5. TcbKept(kk, x) => TcbKept(r, x)
  BY <1>1, TcbKeptFrame
<1> QED BY <1>0, <1>2, <1>3, <1>4, <1>5 DEF CoreInv, Booting, RunNotSuspended, SwitchDue

LEMMA DummyStuck ==
    ASSUME NEW kk, Sane(kk)
    PROVE  kk.status[Dummy] \cap (Blocked \cup {"DELAY"}) # {}
  BY DEF Sane, KInv, SpecialOK, Blocked

\* A step that touches neither runTask nor a TCB that is unused or held, and pends
\* a switch if it can.
LEMMA PendingInv ==
    ASSUME NEW A, NEW kk, NEW x, CoreInv(A, kk, x), kk.scheduled, NEW r, Sane(r),
           r.run = kk.run, r.scheduled, r.lock = kk.lock,
           r.pendsv = (kk.pendsv \/ kk.lock = 0),
           kk.run \in Tasks => r.status[kk.run] = kk.status[kk.run],
           \A u \in Tasks : Held(x, u) => Untouched(r, kk, u),
           \A u \in Tasks : "UNUSED" \in r.status[u] =>
              "UNUSED" \in kk.status[u] /\ Where(r, u) = Where(kk, u)
    PROVE  CoreInv(A, r, x) /\ Highest(r, x) /\ (TcbKept(kk, x) => TcbKept(r, x))
<1>0. Sane(kk) /\ Creators(kk, x) /\ x \in [TCB -> ThreadState(A)]
  BY DEF CoreInv
<1>1. Creators(r, x)
  <2>1. \A c \in TCB : x[c].at \in Creating => ~x[c].win
    BY <1>0 DEF Creators
  <2> QED BY <1>0, <2>1, CreatorsFrame
<1>2. SwitchDue(r, x)
  <2>1. kk.run \in Tasks \/ kk.run = Idle \/ kk.run = Dummy
    BY <1>0, TasksAreTCBs DEF Sane, KInv, KernelState
  <2>2. Stuck(r) => Stuck(kk)
    BY <1>0, <2>1, DummyStuck, SchedAssumption DEF Stuck
  <2> QED BY <2>2 DEF SwitchDue, CoreInv
<1>3. Highest(r, x)
  BY DEF Highest
<1>4. TcbKept(kk, x) => TcbKept(r, x)
  BY TcbKeptFrame
<1> QED BY <1>0, <1>1, <1>2, <1>3, <1>4 DEF CoreInv, Booting, RunNotSuspended

LEMMA TickedInv ==
    ASSUME NEW A, CoreInv(A, k, ctx), NEW due, due = {} \/ \E t \in k.sort : due = {t}, Tick(due)
    PROVE  /\ CoreInv(A, k', ctx') /\ Highest(k', ctx')
           /\ TcbKept(k, ctx) => TcbKept(k', ctx')
<1>0. Sane(k) /\ Creators(k, ctx) /\ k.scheduled /\ ctx' = ctx
  BY DEF CoreInv, Tick
<1>1. PICK left \in BOOLEAN : k' = LOS_SchedTickHandler(k, due, left)
  BY DEF Tick
<1>2. PICK a : Ticked(k', a, k, due)
  BY <1>0, <1>1, TickSafe
<1>3. /\ k.run \in Tasks => a.status[k.run] = k.status[k.run]
      /\ \A u \in Tasks : Held(ctx, u) => Untouched(a, k, u)
      /\ \A u \in Tasks : "UNUSED" \in a.status[u] =>
            "UNUSED" \in k.status[u] /\ Where(a, u) = Where(k, u)
  <2>1. CASE a = k
    BY <2>1 DEF Untouched
  <2>2. ASSUME NEW t \in k.sort, a = OsSchedWakePendTimeTask(k, t)
        PROVE  <1>3!1 /\ <1>3!2 /\ <1>3!3
    <3>1. /\ t \in Tasks /\ t # k.run /\ SameBut(a, k, t)
          /\ k.status[t] \cap {"UNUSED", "EXIT", "READY"} = {}
          /\ a.status[t] = (k.status[t] \ {"PEND", "PEND_TIME", "DELAY"})
                               \cup (IF "PEND" \in k.status[t] THEN {"TIMEOUT"} ELSE {})
                               \cup (IF "SUSPEND" \in k.status[t] THEN {} ELSE {"READY"})
      BY <1>0, <2>2, WakePendTimeSafe
    <3>2. "UNUSED" \notin a.status[t]
      BY <3>1
    <3>3. \A u \in Tasks \ {t} : a.status[u] = k.status[u] /\ Where(a, u) = Where(k, u)
      BY TasksAreTCBs, <3>1 DEF SameBut, OthersStay
    <3>4. ~Held(ctx, t)
      BY <1>0, <3>1, HeldFacts
    <3> QED BY <3>1, <3>2, <3>3, <3>4 DEF Untouched
  <2> QED BY <1>2, <2>1, <2>2 DEF Ticked
<1>4. /\ k.run \in Tasks => k'.status[k.run] = k.status[k.run]
      /\ \A u \in Tasks : Held(ctx, u) => Untouched(k', k, u)
      /\ \A u \in Tasks : "UNUSED" \in k'.status[u] =>
            "UNUSED" \in k.status[u] /\ Where(k', u) = Where(k, u)
  BY <1>2, <1>3 DEF Ticked, SameTasks, Untouched, Where
<1>5. k'.run = k.run /\ Sane(k') /\ k'.lock = k.lock /\ k'.scheduled
  BY <1>0, <1>2 DEF Ticked, SameTasks, SameCtl
<1>6. k'.pendsv = (k.pendsv \/ k.lock = 0)
  BY <1>0, <1>2 DEF Ticked
<1> QED BY <1>0, <1>4, <1>5, <1>6, PendingInv

LEMMA KernelSafe ==
    ASSUME NEW A, CoreInv(A, k, ctx),
           LOS_Start \/ PendSV \/ Tick({}) \/ \E t \in k.sort : Tick({t})
    PROVE  /\ CoreInv(A, k', ctx') /\ Highest(k', ctx')
           /\ TcbKept(k, ctx) => TcbKept(k', ctx')
<1>0. Sane(k) /\ Booting(k)
  BY DEF CoreInv
<1>1. CASE LOS_Start
  <2>1. k.run = Dummy /\ k' = OsSchedStart(k) /\ ctx' = ctx /\ ctx[Dummy].at = "user"
    BY <1>1 DEF LOS_Start, InUser, Running
  <2>2. Sane(k') /\ Picked(k') /\ Switched(k', k) /\ k'.scheduled
    BY <1>0, <2>1, StartSafe
  <2> QED BY <2>1, <2>2, SwitchedInv
<1>2. CASE PendSV
  <2>1. PICK left \in BOOLEAN : k' = OsSchedTaskSwitch(k, left)
    BY <1>2 DEF PendSV
  <2>2. ctx' = ctx /\ k.scheduled
    BY <1>0, <1>2 DEF PendSV, Booting
  <2>3. Sane(k') /\ Picked(k') /\ Switched(k', k) /\ k'.scheduled
    BY <1>0, <2>1, <2>2, SwitchSafe
  <2> QED BY <2>2, <2>3, SwitchedInv
<1>3. CASE Tick({})
  BY <1>3, TickedInv
<1>4. ASSUME NEW t \in k.sort, Tick({t})
      PROVE  /\ CoreInv(A, k', ctx') /\ Highest(k', ctx')
             /\ TcbKept(k, ctx) => TcbKept(k', ctx')
  BY <1>4, TickedInv
<1> QED BY <1>1, <1>2, <1>3, <1>4

LEMMA ScheduleKept ==
    ASSUME NEW A, CoreInv(A, k, ctx), NEW c \in TCB, LOS_Schedule(c)
    PROVE  /\ CoreInv(A, k', ctx') /\ Highest(k', ctx')
           /\ TcbKept(k, ctx) => TcbKept(k', ctx')
<1>0. /\ Sane(k) /\ Creators(k, ctx) /\ ctx \in [TCB -> ThreadState(A)] /\ Booting(k)
      /\ RunNotSuspended(k) /\ SwitchDue(k, ctx)
  BY DEF CoreInv
<1>1. /\ k.run = c /\ ~k.pendsv /\ ctx[c].win /\ k' = LOS_ScheduleEffect(k)
      /\ ctx' = [ctx EXCEPT ![c].win = FALSE]
  BY DEF LOS_Schedule, Running
<1>2. /\ SameTasks(k', k) /\ k'.lock = k.lock /\ k'.scheduled = k.scheduled
      /\ k'.pendsv = (k.pendsv \/ (k.scheduled /\ k.lock = 0))
  BY <1>0, <1>1, ScheduleSafe
<1>3. Sane(k')
  BY <1>0, <1>2, SaneFrame
<1>4. ctx' \in [TCB -> ThreadState(A)]
  BY <1>0, <1>1 DEF ThreadState
<1>5. \A d \in TCB : /\ ctx'[d].at = ctx[d].at /\ ctx'[d].obj = ctx[d].obj
                     /\ ctx'[d].at \in Creating => ~ctx'[d].win
  BY <1>0, <1>1 DEF ThreadState, Creators
<1>6. \A u \in Tasks : Untouched(k', k, u)
  BY <1>2 DEF Untouched, SameTasks, Where
<1>7. Creators(k', ctx')
  BY <1>0, <1>2, <1>5, <1>6, CreatorsFrame
<1>8. SwitchDue(k', ctx')
  BY <1>0, <1>2 DEF SwitchDue, Stuck, SameTasks
<1>9. Booting(k') /\ RunNotSuspended(k') /\ Highest(k', ctx')
  BY <1>0, <1>2 DEF Booting, RunNotSuspended, SameTasks, Highest
<1>10. TcbKept(k, ctx) => TcbKept(k', ctx')
  BY <1>5, <1>6, TcbKeptFrame DEF Untouched
<1> QED BY <1>3, <1>4, <1>7, <1>8, <1>9, <1>10 DEF CoreInv

-----------------------------------------------------------------------------
(***************************************************************************)
(* A system call.                                                          *)
(***************************************************************************)
\* c may make a call.
Calling(c) == k.scheduled /\ ~k.fault /\ (c # Isr => c \in Tasks /\ InUser(c))

LEMMA CallerCalls ==
    ASSUME NEW c \in Tasks \cup {Isr}, NEW call, Caller(c, call)
    PROVE  Calling(c)
  BY DEF Caller, Calling, InUser, Running

\* A task that makes a call is not stuck.
LEMMA CallerNotStuck ==
    ASSUME NEW A, CoreInv(A, k, ctx), NEW c \in Tasks, Calling(c)
    PROVE  /\ k.run = c /\ ~k.pendsv /\ ~k.fault /\ ctx[c].at = "user" /\ ~ctx[c].win
           /\ k.status[c] \cap (Blocked \cup {"DELAY"}) = {} /\ ~Stuck(k)
<1>1. c # Isr /\ c # Idle
  BY TaskAssumption, TasksAreTCBs
<1>2. k.run = c /\ ~k.pendsv /\ ~k.fault /\ ctx[c].at = "user" /\ ~ctx[c].win /\ k.scheduled
  BY <1>1 DEF Calling, InUser, Running
<1>3. SwitchDue(k, ctx)
  BY DEF CoreInv
<1> QED BY <1>1, <1>2, <1>3 DEF SwitchDue, Stuck

\* What Finish leaves: kk with a switch pending, or the caller in its window.
Finished(c, kk, need) ==
    /\ SameTasks(k', kk) /\ Sane(k') /\ k'.lock = kk.lock /\ k'.scheduled = kk.scheduled
    /\ \A d \in TCB : /\ ctx'[d].at = ctx[d].at /\ ctx'[d].obj = ctx[d].obj
                      /\ ctx'[d].win = IF d = c THEN need ELSE ctx[d].win
    /\ k'.pendsv = (kk.pendsv \/ (c = Isr /\ need /\ kk.scheduled /\ kk.lock = 0))

LEMMA FinishStep ==
    ASSUME NEW A, ctx \in [TCB -> ThreadState(A)], NEW c \in TCB \cup {Isr},
           NEW kk, Sane(kk), NEW need \in BOOLEAN, Finish(c, kk, need)
    PROVE  Finished(c, kk, need) /\ ctx' \in [TCB -> ThreadState(A)]
<1>0. KInv(kk) /\ ~kk.fault /\ SameTasks(kk, kk) /\ kk.pendsv \in BOOLEAN
      /\ \A d \in TCB : d # Isr
  BY TaskAssumption DEF Sane, SameTasks, KInv, KernelState
<1>1. CASE c = Isr
  <2>1. ctx' = ctx /\ k' = IF need THEN LOS_ScheduleEffect(kk) ELSE kk
    BY <1>1 DEF Finish
  <2>2. CASE need
    <3>1. k' = LOS_ScheduleEffect(kk)
      BY <2>1, <2>2
    <3>2. /\ SameTasks(k', kk) /\ k'.lock = kk.lock /\ k'.scheduled = kk.scheduled
          /\ k'.pendsv = (kk.pendsv \/ (kk.scheduled /\ kk.lock = 0))
      BY <3>1, ScheduleSafe
    <3>3. Sane(k')
      BY <3>2, SaneFrame
    <3> QED BY <1>0, <1>1, <2>1, <2>2, <3>2, <3>3 DEF Finished
  <2>3. CASE ~need
    BY <1>0, <1>1, <2>1, <2>3 DEF Finished
  <2> QED BY <2>2, <2>3
<1>2. CASE c # Isr
  <2>1. k' = kk /\ ctx' = [ctx EXCEPT ![c].win = need] /\ c \in TCB
    BY <1>2 DEF Finish
  <2>2. ctx' \in [TCB -> ThreadState(A)]
    BY <2>1 DEF ThreadState
  <2>3. \A d \in TCB : /\ ctx'[d].at = ctx[d].at /\ ctx'[d].obj = ctx[d].obj
                       /\ ctx'[d].win = IF d = c THEN need ELSE ctx[d].win
    BY <2>1 DEF ThreadState
  <2> QED BY <1>0, <1>2, <2>1, <2>2, <2>3 DEF Finished
<1> QED BY <1>1, <1>2

\* A call that does not change runTask.
LEMMA CallSafe ==
    ASSUME NEW A, CoreInv(A, k, ctx), NEW c \in Tasks \cup {Isr}, Calling(c),
           NEW kk, Sane(kk), kk.run = k.run, kk.scheduled = k.scheduled, kk.pendsv = k.pendsv,
           c = Isr => kk.lock = k.lock,
           NEW need \in BOOLEAN, Finish(c, kk, need),
           RunNotSuspended(kk),
           Stuck(kk) => Stuck(k) \/ (need /\ kk.lock = 0),
           \A u \in Tasks : Held(ctx, u) => Untouched(kk, k, u)
    PROVE  /\ CoreInv(A, k', ctx') /\ Finished(c, kk, need)
           /\ (k.run \in Tasks /\ ~need /\ kk.lock = 0 => k.lock = 0 /\ (Top(k) => Top(kk)))
                 => (Highest(k, ctx) => Highest(k', ctx'))
           /\ (\A u \in Tasks : "UNUSED" \in kk.status[u] =>
                 \/ "UNUSED" \in k.status[u] /\ Where(kk, u) = Where(k, u)
                 \/ ctx[u].at = "user" /\ Where(kk, u) \in {{FreeTask}, {RecycleList}})
                 => (TcbKept(k, ctx) => TcbKept(k', ctx'))
<1>0. /\ Sane(k) /\ Creators(k, ctx) /\ ctx \in [TCB -> ThreadState(A)] /\ Booting(k)
      /\ SwitchDue(k, ctx) /\ k.scheduled /\ c \in TCB \cup {Isr}
  BY TasksAreTCBs DEF CoreInv, Calling
<1>1. Finished(c, kk, need) /\ ctx' \in [TCB -> ThreadState(A)]
  BY <1>0, FinishStep
<1>2. /\ SameTasks(k', kk) /\ Sane(k') /\ k'.lock = kk.lock /\ k'.scheduled /\ k'.run = k.run
      /\ \A d \in TCB : /\ ctx'[d].at = ctx[d].at /\ ctx'[d].obj = ctx[d].obj
                        /\ ctx'[d].win = IF d = c THEN need ELSE ctx[d].win
      /\ k'.pendsv = (k.pendsv \/ (c = Isr /\ need /\ kk.lock = 0))
  BY <1>0, <1>1 DEF Finished, SameTasks
<1>3. \A d \in TCB : ctx'[d].at \in Creating => ~ctx'[d].win
  <2>1. c \in Tasks => ctx[c].at = "user" /\ c # Isr
    BY CallerNotStuck, TasksAreTCBs, TaskAssumption
  <2> QED BY <1>0, <1>2, <2>1, TaskAssumption DEF Creators, Creating
<1>4. \A u \in Tasks : Held(ctx, u) => Untouched(k', k, u)
  BY <1>2 DEF SameTasks, Untouched, Where
<1>5. Creators(k', ctx')
  BY <1>0, <1>2, <1>3, <1>4, CreatorsFrame
<1>6. SwitchDue(k', ctx')
  <2>1. SUFFICES ASSUME Stuck(kk) PROVE k'.pendsv \/ (ctx'[k'.run].win /\ k'.lock = 0)
    BY <1>2 DEF SwitchDue, SameTasks, Stuck
  <2>2. CASE c \in Tasks
    <3>1. k.run = c /\ ~Stuck(k) /\ c \in TCB
      BY <2>2, CallerNotStuck, TasksAreTCBs
    <3> QED BY <1>2, <2>1, <3>1
  <2>3. CASE c = Isr
    <3>1. k.run \in TCB /\ k.run # Isr
      BY <1>0, TaskAssumption DEF Sane, KInv, KernelState
    <3>2. CASE Stuck(k)
      BY <1>0, <1>2, <2>3, <3>1, <3>2 DEF SwitchDue
    <3>3. CASE need /\ kk.lock = 0
      BY <1>2, <2>3, <3>3
    <3> QED BY <2>1, <3>2, <3>3
  <2> QED BY <2>2, <2>3
<1>7. RunNotSuspended(k') /\ Booting(k')
  BY <1>2 DEF RunNotSuspended, Booting, SameTasks
<1>8. ASSUME k.run \in Tasks /\ ~need /\ kk.lock = 0 => k.lock = 0 /\ (Top(k) => Top(kk)),
             Highest(k, ctx)
      PROVE  Highest(k', ctx')
  <2>1. SUFFICES ASSUME k'.run \in Tasks, ~k'.pendsv, ~ctx'[k'.run].win, k'.lock = 0
                 PROVE  Top(kk)
    BY <1>2 DEF Highest, Top, SameTasks
  <2>2. k.run \in Tasks /\ k.run \in TCB /\ k.run # Isr
    BY <1>2, <2>1, TasksAreTCBs, TaskAssumption
  <2>3. ~need
    <3>1. CASE c = Isr
      BY <1>2, <2>1, <3>1
    <3>2. CASE c \in Tasks
      <4>1. k.run = c
        BY <3>2, CallerNotStuck
      <4> QED BY <1>2, <2>1, <2>2, <4>1
    <3> QED BY <3>1, <3>2
  <2>4. ~ctx[k.run].win
    <3>1. CASE c = Isr
      BY <1>2, <2>1, <2>2, <3>1
    <3>2. CASE c \in Tasks
      BY <3>2, CallerNotStuck
    <3> QED BY <3>1, <3>2
  <2> QED BY <1>0, <1>2, <1>8, <2>1, <2>2, <2>3, <2>4 DEF Highest
<1>9. ASSUME \A u \in Tasks : "UNUSED" \in kk.status[u] =>
                 \/ "UNUSED" \in k.status[u] /\ Where(kk, u) = Where(k, u)
                 \/ ctx[u].at = "user" /\ Where(kk, u) \in {{FreeTask}, {RecycleList}},
             TcbKept(k, ctx)
      PROVE  TcbKept(k', ctx')
  <2>1. \A u \in Tasks : k'.status[u] = kk.status[u] /\ Where(k', u) = Where(kk, u)
    BY <1>2 DEF SameTasks, Where
  <2> QED BY <1>2, <1>9, <2>1, TcbKeptFrame
<1>10. CoreInv(A, k', ctx')
  BY <1>1, <1>2, <1>5, <1>6, <1>7 DEF CoreInv
<1> QED BY <1>1, <1>8, <1>9, <1>10

\* What every step of Task does to the invariants.
StepKeeps(A) ==
    /\ CoreInv(A, k', ctx')
    /\ Highest(k, ctx) => Highest(k', ctx')
    /\ Victims = {} /\ TcbKept(k, ctx) => TcbKept(k', ctx')

\* A call that changes one task.  It may omit LOS_Schedule only if that task does not
\* run and is not ready afterwards.
LEMMA CallOnTask ==
    ASSUME NEW A, CoreInv(A, k, ctx), NEW c \in Tasks \cup {Isr}, Calling(c),
           NEW t \in Tasks, ~Held(ctx, t), "UNUSED" \notin k.status[t],
           NEW kk, Sane(kk), SameBut(kk, k, t), "UNUSED" \notin kk.status[t],
           NEW need \in BOOLEAN, Finish(c, kk, need),
           t = k.run /\ "resume" \in IsrCalls => "SUSPEND" \notin kk.status[t],
           t = k.run /\ Stuck(kk) => Stuck(k) \/ (need /\ k.lock = 0),
           ~need => t # k.run /\ "READY" \notin kk.status[t]
    PROVE  StepKeeps(A) /\ Finished(c, kk, need)
<1>0. Sane(k) /\ RunNotSuspended(k) /\ SameCtl(kk, k) /\ k.run \in TCB /\ t \in TCB
  BY TasksAreTCBs DEF CoreInv, SameBut, Sane, KInv, KernelState
<1>1. kk.run = k.run /\ kk.scheduled = k.scheduled /\ kk.pendsv = k.pendsv /\ kk.lock = k.lock
  BY <1>0 DEF SameCtl
<1>2. /\ \A u \in TCB \ {t} : kk.status[u] = k.status[u] /\ kk.prio[u] = k.prio[u]
      /\ \A u \in Tasks \ {t} : Untouched(kk, k, u)
  BY TasksAreTCBs DEF SameBut, OthersStay, Untouched
<1>3. \A u \in Tasks : Held(ctx, u) => Untouched(kk, k, u)
  BY <1>2
<1>4. RunNotSuspended(kk)
  BY <1>0, <1>1, <1>2 DEF RunNotSuspended
<1>5. Stuck(kk) => Stuck(k) \/ (need /\ kk.lock = 0)
  BY <1>0, <1>1, <1>2 DEF Stuck
<1>6. k.run \in Tasks /\ ~need /\ kk.lock = 0 => k.lock = 0 /\ (Top(k) => Top(kk))
  BY <1>0, <1>1, <1>2, TasksAreTCBs DEF Top
<1>7. \A u \in Tasks : "UNUSED" \in kk.status[u] =>
         \/ "UNUSED" \in k.status[u] /\ Where(kk, u) = Where(k, u)
         \/ ctx[u].at = "user" /\ Where(kk, u) \in {{FreeTask}, {RecycleList}}
  BY <1>2 DEF Untouched
<1>8. /\ CoreInv(A, k', ctx') /\ Finished(c, kk, need)
      /\ (k.run \in Tasks /\ ~need /\ kk.lock = 0 => k.lock = 0 /\ (Top(k) => Top(kk)))
            => (Highest(k, ctx) => Highest(k', ctx'))
      /\ (\A u \in Tasks : "UNUSED" \in kk.status[u] =>
            \/ "UNUSED" \in k.status[u] /\ Where(kk, u) = Where(k, u)
            \/ ctx[u].at = "user" /\ Where(kk, u) \in {{FreeTask}, {RecycleList}})
            => (TcbKept(k, ctx) => TcbKept(k', ctx'))
  BY <1>1, <1>3, <1>4, <1>5, CallSafe
<1> QED BY <1>6, <1>7, <1>8 DEF StepKeeps

LEMMA SuspendKept ==
    ASSUME NEW A, CoreInv(A, k, ctx), Plain, NEW c \in Tasks \cup {Isr}, NEW t \in Tasks,
           LOS_TaskSuspend(c, t)
    PROVE  StepKeeps(A)
<1> DEFINE kk == OsSchedSuspend(k, t)
           need == t = k.run
<1>0. /\ Sane(k) /\ Creators(k, ctx) /\ Exists(t) /\ Finish(c, kk, need) /\ need \in BOOLEAN
      /\ ~(Has(k, t, {"RUNNING"}) /\ k.lock # 0)
      /\ Caller(c, IF t = k.run THEN "suspendrunning" ELSE "suspend")
  BY DEF CoreInv, LOS_TaskSuspend
<1>1. Calling(c) /\ ~Held(ctx, t) /\ "UNUSED" \notin k.status[t]
  BY <1>0, CallerCalls, ExistsNotHeld
<1>2. /\ Sane(kk)
      /\ Becomes(kk, k, t, (k.status[t] \ {"READY"}) \cup {"SUSPEND"}, k.sort)
  BY <1>0, <1>1, SuspendSafe
<1>3. SameBut(kk, k, t) /\ kk.status[t] = (k.status[t] \ {"READY"}) \cup {"SUSPEND"}
  BY <1>2 DEF Becomes
<1> HIDE DEF kk
<1>4. "UNUSED" \notin kk.status[t] /\ "READY" \notin kk.status[t]
  BY <1>1, <1>3
<1>5. ASSUME need PROVE k.lock = 0 /\ "resume" \notin IsrCalls
  <2>1. Caller(c, "suspendrunning")
    BY <1>0, <1>5
  <2>2. "suspendrunning" \in TaskCalls \cup IsrCalls
    BY <2>1 DEF Caller
  <2>3. "RUNNING" \in k.status[t]
    BY <1>0, <1>5, SaneFacts DEF PlaceOK
  <2> QED BY <1>0, <2>2, <2>3 DEF Plain, Has
<1> QED BY <1>0, <1>1, <1>2, <1>3, <1>4, <1>5, CallOnTask

LEMMA ResumeKept ==
    ASSUME NEW A, CoreInv(A, k, ctx), NEW c \in Tasks \cup {Isr}, NEW t \in Tasks,
           LOS_TaskResume(c, t)
    PROVE  StepKeeps(A)
<1> DEFINE kk == OsSchedResume(k, t)
           need == OsSchedResumeResult(k, t)
<1>0. /\ Sane(k) /\ Creators(k, ctx) /\ RunNotSuspended(k) /\ Exists(t)
      /\ Finish(c, kk, need) /\ need \in BOOLEAN
      /\ Has(k, t, {"SUSPEND"}) /\ Caller(c, "resume")
  BY DEF CoreInv, LOS_TaskResume, OsSchedResumeResult
<1>1. /\ Calling(c) /\ ~Held(ctx, t) /\ "UNUSED" \notin k.status[t] /\ "SUSPEND" \in k.status[t]
  BY <1>0, CallerCalls, ExistsNotHeld DEF Has
<1>2. t # k.run
  <2>1. CASE c \in Tasks
    BY <1>1, <2>1, CallerNotStuck DEF Blocked
  <2>2. CASE c = Isr
    BY <1>0, <1>1, <2>2 DEF Caller, RunNotSuspended
  <2> QED BY <2>1, <2>2
<1>3. /\ Sane(kk) /\ SameBut(kk, k, t)
      /\ kk.status[t] = IF need THEN (k.status[t] \ {"SUSPEND"}) \cup {"READY"}
                                ELSE k.status[t] \ {"SUSPEND"}
  BY <1>0, <1>1, <1>2, ResumeSafe
<1>4. ~need => k.status[t] \cap {"DELAY", "PEND"} # {}
  BY DEF OsSchedResumeResult, Has
<1> HIDE DEF kk, need
<1>5. FlagsOK(k.status[t])
  BY <1>0, SaneFacts
<1>6. "UNUSED" \notin kk.status[t] /\ (~need => "READY" \notin kk.status[t])
  BY <1>1, <1>3, <1>4, <1>5 DEF FlagsOK, Timed, Blocked
<1> QED BY <1>0, <1>1, <1>2, <1>3, <1>6, CallOnTask

LEMMA PriSetKept ==
    ASSUME NEW A, CoreInv(A, k, ctx), NEW c \in Tasks \cup {Isr}, NEW t \in Tasks,
           NEW p \in Prio, LOS_TaskPriSet(c, t, p)
    PROVE  StepKeeps(A)
<1> DEFINE kk == OsSchedModifyTaskSchedParam(k, t, p)
           need == OsSchedModifyResult(k, t)
<1>0. /\ Sane(k) /\ Creators(k, ctx) /\ RunNotSuspended(k) /\ Exists(t)
      /\ Finish(c, kk, need) /\ need \in BOOLEAN /\ Caller(c, "priset")
  BY DEF CoreInv, LOS_TaskPriSet, OsSchedModifyResult, Has
<1>1. /\ Calling(c) /\ ~Held(ctx, t) /\ "UNUSED" \notin k.status[t]
  BY <1>0, CallerCalls, ExistsNotHeld
<1>2. Sane(kk) /\ SameBut(kk, k, t) /\ kk.status[t] = k.status[t]
  BY <1>0, ModifySafe
<1>3. PlaceOK(k, t)
  BY <1>0, SaneFacts
<1>4. ~need => t # k.run /\ "READY" \notin k.status[t]
  BY <1>3 DEF OsSchedModifyResult, Has, PlaceOK
<1> HIDE DEF kk, need
<1>5. kk.run = k.run
  BY <1>2 DEF SameBut, SameCtl
<1>6. t = k.run => (Stuck(kk) => Stuck(k))
  BY <1>2, <1>5 DEF Stuck
<1>7. t = k.run /\ "resume" \in IsrCalls => "SUSPEND" \notin kk.status[t]
  BY <1>0, <1>2 DEF RunNotSuspended
<1> QED BY <1>0, <1>1, <1>2, <1>4, <1>6, <1>7, CallOnTask

\* runTask has been deleted: Dummy stands in for it until the switch.
LEMMA StandInInv ==
    ASSUME NEW A, CoreInv(A, k, ctx), k.scheduled, NEW t \in Tasks, t = k.run, ~Held(ctx, t),
           NEW kk, Deleted(kk, k, t), SameTasks(k', kk), k'.lock = kk.lock, k'.scheduled,
           ctx' \in [TCB -> ThreadState(A)],
           \A d \in TCB : /\ ctx'[d].at = ctx[d].at /\ ctx'[d].obj = ctx[d].obj
                          /\ ctx'[d].win = ctx[d].win \/ d = Dummy,
           k'.pendsv \/ ctx'[Dummy].win,
           Victims = {} => ctx[t].at = "user"
    PROVE  StepKeeps(A)
<1>0. /\ Sane(k) /\ Creators(k, ctx) /\ Sane(kk) /\ kk.run = Dummy /\ kk.lock = 0
      /\ Dummy \notin Tasks
  BY SchedAssumption DEF CoreInv, Deleted
<1>1. Sane(k') /\ k'.run = Dummy /\ k'.lock = 0
  BY <1>0, SaneFrame DEF SameTasks
<1>2. \A u \in Tasks : k'.status[u] = kk.status[u] /\ Where(k', u) = Where(kk, u)
  BY DEF SameTasks, Where
<1>3. \A u \in Tasks \ {t} : Untouched(k', k, u)
  BY <1>2 DEF Deleted, OthersStay, Untouched
<1>4. Creators(k', ctx')
  <2>1. ctx[Dummy].at = "user"
    BY <1>0 DEF Creators
  <2>2. \A d \in TCB : ctx'[d].at \in Creating => ~ctx'[d].win
    BY <1>0, <2>1 DEF Creators, Creating
  <2> QED BY <1>0, <1>3, <2>2, CreatorsFrame
<1>5. SwitchDue(k', ctx') /\ Booting(k') /\ RunNotSuspended(k') /\ Highest(k', ctx')
  BY <1>0, <1>1 DEF SwitchDue, Booting, RunNotSuspended, Highest
<1>6. ASSUME Victims = {}, TcbKept(k, ctx) PROVE TcbKept(k', ctx')
  <2>1. \A u \in Tasks : "UNUSED" \in k'.status[u] =>
           \/ "UNUSED" \in k.status[u] /\ Where(k', u) = Where(k, u)
           \/ ctx[u].at = "user" /\ Where(k', u) \in {{FreeTask}, {RecycleList}}
    BY <1>2, <1>3, <1>6 DEF Untouched, Deleted
  <2> QED BY <1>6, <2>1, TcbKeptFrame
<1> QED BY <1>1, <1>4, <1>5, <1>6 DEF CoreInv, StepKeeps

LEMMA DeleteKept ==
    ASSUME NEW A, CoreInv(A, k, ctx), NEW c \in Tasks \cup {Isr}, NEW t \in Tasks,
           LOS_TaskDelete(c, t)
    PROVE  StepKeeps(A)
<1> DEFINE kk == TaskDeleteEffect(k, t)
           need == Has(k, t, {"RUNNING"})
<1>0. /\ Sane(k) /\ Creators(k, ctx) /\ RunNotSuspended(k) /\ Exists(t)
      /\ Caller(c, "delete") /\ (c = t \/ t \in Victims)
      /\ c = t => k' = kk /\ ctx' = [ctx EXCEPT ![kk.run].win = TRUE]
      /\ c # t => Finish(c, kk, need)
      /\ ctx \in [TCB -> ThreadState(A)]
  BY DEF CoreInv, LOS_TaskDelete
<1>1. Calling(c) /\ ~Held(ctx, t) /\ "UNUSED" \notin k.status[t] /\ k.scheduled
  <2>1. Calling(c)
    BY <1>0, CallerCalls
  <2> QED BY <1>0, <2>1, ExistsNotHeld DEF Calling
<1>2. Deleted(kk, k, t)
  BY <1>0, <1>1, DeleteSafe
<1>3. (need <=> t = k.run) /\ need \in BOOLEAN
  BY <1>0, <1>1, SaneFacts DEF PlaceOK, Has
<1>4. c \in Tasks => k.run = c /\ ctx[c].at = "user" /\ ~Stuck(k) /\ c # Isr /\ c \in TCB
  BY <1>1, CallerNotStuck, TasksAreTCBs, TaskAssumption
<1> HIDE DEF kk, need
<1>5. Sane(kk) /\ kk.scheduled = k.scheduled /\ kk.pendsv = k.pendsv
  BY <1>2 DEF Deleted
<1>6. CASE c = t
  <2>1. kk.run = Dummy /\ kk.lock = 0 /\ t = k.run /\ Dummy \in TCB
    BY <1>2, <1>4, <1>6, TasksAreTCBs DEF Deleted
  <2>2. k' = kk /\ ctx' = [ctx EXCEPT ![Dummy].win = TRUE]
    BY <1>0, <1>6, <2>1
  <2>3. ctx' \in [TCB -> ThreadState(A)]
    BY <1>0, <2>1, <2>2 DEF ThreadState
  <2>4. /\ \A d \in TCB : /\ ctx'[d].at = ctx[d].at /\ ctx'[d].obj = ctx[d].obj
                          /\ ctx'[d].win = ctx[d].win \/ d = Dummy
        /\ ctx'[Dummy].win
    BY <1>0, <2>1, <2>2 DEF ThreadState
  <2>5. SameTasks(k', kk) /\ k'.lock = kk.lock /\ k'.scheduled
    BY <1>1, <1>5, <2>2 DEF SameTasks, Sane
  <2> QED BY <1>1, <1>2, <1>4, <1>6, <2>1, <2>3, <2>4, <2>5, StandInInv
<1>7. CASE c # t /\ t = k.run
  <2>1. c = Isr /\ kk.lock = 0 /\ Finish(c, kk, TRUE)
    BY <1>0, <1>2, <1>3, <1>4, <1>7 DEF Deleted
  <2>2. Finished(c, kk, TRUE) /\ ctx' \in [TCB -> ThreadState(A)]
    BY <1>0, <1>5, <2>1, FinishStep
  <2>3. /\ SameTasks(k', kk) /\ k'.lock = kk.lock /\ k'.scheduled = kk.scheduled
        /\ \A d \in TCB : /\ ctx'[d].at = ctx[d].at /\ ctx'[d].obj = ctx[d].obj
                          /\ ctx'[d].win = ctx[d].win
        /\ k'.pendsv
    BY <1>1, <1>5, <2>1, <2>2, TaskAssumption DEF Finished
  <2>4. Victims # {}
    BY <1>0, <1>7
  <2> QED BY <1>1, <1>2, <1>5, <1>7, <2>2, <2>3, <2>4, StandInInv
<1>8. CASE t # k.run
  <2>1. /\ kk.run = k.run /\ kk.lock = k.lock /\ c # t /\ ~need
        /\ \A u \in Tasks \ {t} : /\ kk.status[u] = k.status[u] /\ kk.prio[u] = k.prio[u]
                                  /\ Untouched(kk, k, u)
        /\ "READY" \notin kk.status[t]
    BY <1>2, <1>3, <1>4, <1>8 DEF Deleted, OthersStay, Untouched
  <2>2. Finish(c, kk, FALSE)
    BY <1>0, <2>1, <1>3
  <2>3. RunNotSuspended(kk)
    BY <1>0, <1>8, <2>1 DEF RunNotSuspended
  <2>4. Stuck(kk) => Stuck(k)
    <3>1. k.run \in Tasks \/ k.run = Idle \/ k.run = Dummy
      BY <1>0, TasksAreTCBs DEF Sane, KInv, KernelState
    <3> QED BY <1>0, <1>8, <2>1, <3>1, DummyStuck, SchedAssumption DEF Stuck
  <2>5. k.run \in Tasks /\ kk.lock = 0 => k.lock = 0 /\ (Top(k) => Top(kk))
    BY <1>8, <2>1 DEF Top
  <2>6. Victims # {}
    BY <1>0, <2>1
  <2>7. \A u \in Tasks : Held(ctx, u) => Untouched(kk, k, u)
    BY <1>1, <2>1
  <2>8. /\ CoreInv(A, k', ctx')
        /\ (k.run \in Tasks /\ ~FALSE /\ kk.lock = 0 => k.lock = 0 /\ (Top(k) => Top(kk)))
              => (Highest(k, ctx) => Highest(k', ctx'))
    BY <1>1, <1>5, <2>1, <2>2, <2>3, <2>4, <2>7, CallSafe
  <2> QED BY <2>5, <2>6, <2>8 DEF StepKeeps
<1> QED BY <1>6, <1>7, <1>8

\* Calls that change no task: LOS_TaskYield, LOS_TaskLock, LOS_TaskUnlock.
LEMMA CallOnNobody ==
    ASSUME NEW A, CoreInv(A, k, ctx), NEW c \in Tasks, Calling(c),
           NEW kk, Sane(kk), SameTasks(kk, k), kk.scheduled = k.scheduled, kk.pendsv = k.pendsv,
           NEW need \in BOOLEAN, Finish(c, kk, need),
           ~need /\ kk.lock = 0 => k.lock = 0
    PROVE  StepKeeps(A)
<1>0. RunNotSuspended(k) /\ c # Isr /\ kk.run = k.run
  BY TaskAssumption, TasksAreTCBs DEF CoreInv, SameTasks
<1>1. RunNotSuspended(kk) /\ (Stuck(kk) => Stuck(k)) /\ (Top(k) => Top(kk))
  BY <1>0 DEF RunNotSuspended, Stuck, Top, SameTasks
<1>2. \A u \in Tasks : Untouched(kk, k, u)
  BY DEF Untouched, SameTasks, Where
<1>3. \A u \in Tasks : "UNUSED" \in kk.status[u] =>
         \/ "UNUSED" \in k.status[u] /\ Where(kk, u) = Where(k, u)
         \/ ctx[u].at = "user" /\ Where(kk, u) \in {{FreeTask}, {RecycleList}}
  BY <1>2 DEF Untouched
<1>4. /\ CoreInv(A, k', ctx')
      /\ (k.run \in Tasks /\ ~need /\ kk.lock = 0 => k.lock = 0 /\ (Top(k) => Top(kk)))
            => (Highest(k, ctx) => Highest(k', ctx'))
      /\ (\A u \in Tasks : "UNUSED" \in kk.status[u] =>
            \/ "UNUSED" \in k.status[u] /\ Where(kk, u) = Where(k, u)
            \/ ctx[u].at = "user" /\ Where(kk, u) \in {{FreeTask}, {RecycleList}})
            => (TcbKept(k, ctx) => TcbKept(k', ctx'))
  BY <1>0, <1>1, <1>2, CallSafe
<1> QED BY <1>1, <1>3, <1>4 DEF StepKeeps

LEMMA DelayKept ==
    ASSUME NEW A, CoreInv(A, k, ctx), NEW c \in Tasks, LOS_TaskDelay(c)
    PROVE  StepKeeps(A)
<1> DEFINE kk == OsSchedDelay(k)
<1>0. /\ Sane(k) /\ Creators(k, ctx) /\ RunNotSuspended(k) /\ k.lock = 0 /\ Finish(c, kk, TRUE)
      /\ Caller(c, "delay")
  BY DEF CoreInv, LOS_TaskDelay
<1>1. Calling(c)
  BY <1>0, CallerCalls
<1>2. k.run = c /\ k.status[c] \cap (Blocked \cup {"DELAY"}) = {}
  BY <1>1, CallerNotStuck
<1>3. kk = SetStatus(k, c, {}, {"DELAY"}) /\ {"DELAY"} \in FlagSets /\ Harmless({}, {"DELAY"})
  BY <1>2 DEF OsSchedDelay, FlagSets, Flag, Harmless
<1> HIDE DEF kk
<1>4. KInv(k) /\ ~k.fault /\ FlagsOK(k.status[c]) /\ PlaceOK(k, c)
  BY <1>0, SaneFacts
<1>5. /\ SameBut(kk, k, c) /\ kk.sort = k.sort
      /\ kk.status[c] = (k.status[c] \ {}) \cup {"DELAY"}
  BY <1>3, <1>4, SetStatusStep
<1>6. kk.status[c] = k.status[c] \cup {"DELAY"} /\ kk.run = c
  BY <1>2, <1>5 DEF SameBut, SameCtl
<1>7. TaskSane(kk, c)
  BY <1>2, <1>4, <1>5, <1>6 DEF TaskSane, FlagsOK, PlaceOK, Blocked, Timed
<1>8. Sane(kk)
  BY <1>0, <1>5, <1>7, SameButSane
<1>9. /\ "UNUSED" \notin k.status[c] /\ "UNUSED" \notin kk.status[c]
      /\ "SUSPEND" \notin kk.status[c]
  BY <1>2, <1>6 DEF Blocked
<1>10. ~Held(ctx, c)
  BY <1>0, <1>2, HeldFacts
<1> QED BY <1>0, <1>1, <1>2, <1>5, <1>8, <1>9, <1>10, CallOnTask

\* With no joinable task nobody waits in LOS_TaskJoin.
LEMMA NobodyJoins ==
    ASSUME NEW A, CoreInv(A, k, ctx), NEW c \in TCB, NEW t \in Tasks
    PROVE  ~LOS_TaskJoin(c, t) /\ ~LOS_TaskDetach(c, t) /\ ~JoinRecycle(c)
<1>0. Sane(k) /\ Creators(k, ctx)
  BY DEF CoreInv
<1>1. FlagsOK(k.status[t])
  BY <1>0, SaneFacts
<1>2. ~(Exists(t) /\ Has(k, t, {"EXIT", "JOINABLE"}))
  BY <1>1 DEF FlagsOK, Exists, Has
<1>3. ~JoinCall(c, t)
  BY <1>2 DEF JoinCall, JoinPendOK, Has
<1>4. ~LOS_TaskDetach(c, t)
  BY <1>2, <1>3 DEF LOS_TaskDetach, Has
<1>5. ~JoinRecycle(c)
  BY <1>0 DEF JoinRecycle, Creators
<1> QED BY <1>3, <1>4, <1>5 DEF LOS_TaskJoin

LEMMA TaskCallKept ==
    ASSUME NEW A, CoreInv(A, k, ctx), NEW c \in Tasks, TaskCall(c)
    PROVE  StepKeeps(A)
<1>0. Sane(k) /\ k.lock \in Nat /\ c \in TCB /\ k.run \in TCB
  BY TasksAreTCBs DEF CoreInv, Sane, KInv, KernelState
<1>1. CASE LOS_TaskDelay(c)
  BY <1>1, DelayKept
<1>2. CASE LOS_TaskYield(c)
  <2> DEFINE kk == OsSchedYield(k)
  <2>1. Caller(c, "yield") /\ Finish(c, kk, TRUE)
    BY <1>2 DEF LOS_TaskYield
  <2>2. SameTasks(kk, k) /\ SameCtl(kk, k)
    BY <1>0, SliceSafe DEF OsSchedYield
  <2> HIDE DEF kk
  <2>3. Sane(kk) /\ Calling(c)
    BY <1>0, <2>1, <2>2, SaneFrame, CallerCalls
  <2> QED BY <2>1, <2>2, <2>3, CallOnNobody DEF SameCtl
<1>3. CASE LOS_TaskLock(c)
  <2> DEFINE n == k.lock + 1
             kk == [k EXCEPT !.lock = n]
  <2>1. Caller(c, "lock") /\ Finish(c, kk, FALSE)
    BY <1>3 DEF LOS_TaskLock
  <2>2. n \in Nat /\ n # 0
    BY <1>0
  <2>3. /\ SameTasks(kk, k) /\ kk.lock = n /\ kk.scheduled = k.scheduled
        /\ kk.pendsv = k.pendsv
    BY <1>0, <2>2, LockSafe
  <2> HIDE DEF kk, n
  <2>4. Sane(kk) /\ Calling(c)
    BY <1>0, <2>1, <2>3, SaneFrame, CallerCalls
  <2> QED BY <2>1, <2>2, <2>3, <2>4, CallOnNobody
<1>4. CASE LOS_TaskUnlock(c)
  <2> DEFINE n == k.lock - 1
             kk == [k EXCEPT !.lock = n]
             need == k.lock = 1
  <2>1. Caller(c, "lock") /\ Finish(c, kk, need) /\ need \in BOOLEAN /\ k.lock > 0
    BY <1>4 DEF LOS_TaskUnlock
  <2>2. n \in Nat /\ (n = 0 => need)
    BY <1>0, <2>1
  <2>3. /\ SameTasks(kk, k) /\ kk.lock = n /\ kk.scheduled = k.scheduled
        /\ kk.pendsv = k.pendsv
    BY <1>0, <2>2, LockSafe
  <2> HIDE DEF kk, n, need
  <2>4. Sane(kk) /\ Calling(c)
    BY <1>0, <2>1, <2>3, SaneFrame, CallerCalls
  <2> QED BY <2>1, <2>2, <2>3, <2>4, CallOnNobody
<1>5. CASE (\E t \in Tasks : LOS_TaskJoin(c, t) \/ LOS_TaskDetach(c, t))
  BY <1>0, <1>5, NobodyJoins
<1>6. CASE JoinRecycle(c)
  BY <1>0, <1>6, NobodyJoins
<1> QED BY <1>1, <1>2, <1>3, <1>4, <1>5, <1>6 DEF TaskCall

-----------------------------------------------------------------------------
(***************************************************************************)
(* Creation.                                                               *)
(***************************************************************************)
\* The boot code is over once the scheduler runs: Dummy only waits for the switch.
LEMMA DummyNeverRuns ==
    ASSUME NEW A, CoreInv(A, k, ctx), NEW c \in TCB, Running(c), ~ctx[c].win
    PROVE  k.run = c /\ ~(k.scheduled /\ Stuck(k)) /\ (k.scheduled => c # Dummy)
<1>1. k.run = c /\ ~k.pendsv /\ SwitchDue(k, ctx) /\ Sane(k)
  BY DEF Running, CoreInv
<1>2. ~(k.scheduled /\ Stuck(k))
  BY <1>1 DEF SwitchDue
<1>3. c = Dummy => Stuck(k)
  BY <1>1, DummyStuck, SchedAssumption DEF Stuck
<1> QED BY <1>1, <1>2, <1>3

\* OsRecycleFinishedTask moves one TCB from the recycle list to the free list.
LEMMA RecycleKept ==
    ASSUME NEW A, CoreInv(A, k, ctx), k.list[RecycleList] # << >>, k' = RecycleFirst(k),
           ctx' = ctx
    PROVE  StepKeeps(A)
<1>0. /\ Sane(k) /\ Creators(k, ctx) /\ RunNotSuspended(k) /\ SwitchDue(k, ctx) /\ Booting(k)
      /\ ctx \in [TCB -> ThreadState(A)] /\ k.run \in TCB
  BY DEF CoreInv, Sane, KInv, KernelState
<1>1. PICK t \in Tasks : Recycled(k', k, t)
  BY <1>0, RecycleFirstSafe
<1>2. /\ \A u \in TCB \ {t} : k'.status[u] = k.status[u] /\ k'.prio[u] = k.prio[u]
      /\ \A u \in Tasks \ {t} : Untouched(k', k, u)
      /\ k'.run = k.run /\ k'.lock = k.lock /\ k'.scheduled = k.scheduled
      /\ k'.pendsv = k.pendsv
  BY <1>1, TasksAreTCBs DEF Recycled, SameBut, SameCtl, OthersStay, Untouched
<1>3. t # k.run
  BY <1>0, <1>1, SaneFacts DEF PlaceOK, Recycled
<1>4. ~Held(ctx, t)
  BY <1>0, <1>1 DEF Held, Creators, Holding, Linked, Recycled
<1>5. Creators(k', ctx')
  <2>1. \A c \in TCB : ctx'[c].at \in Creating => ~ctx'[c].win
    BY <1>0 DEF Creators
  <2> QED BY <1>0, <1>2, <1>4, <2>1, CreatorsFrame
<1>6. SwitchDue(k', ctx') /\ Booting(k') /\ RunNotSuspended(k')
  BY <1>0, <1>2, <1>3 DEF SwitchDue, Stuck, Booting, RunNotSuspended
<1>7. Highest(k, ctx) => Highest(k', ctx')
  BY <1>1, <1>2, <1>3, TasksAreTCBs DEF Highest, Top, Recycled
<1>8. ASSUME TcbKept(k, ctx) PROVE TcbKept(k', ctx')
  <2>1. ctx[t].at = "user"
    BY <1>1, <1>8 DEF TcbKept, Recycled
  <2>2. \A u \in Tasks : "UNUSED" \in k'.status[u] =>
           \/ "UNUSED" \in k.status[u] /\ Where(k', u) = Where(k, u)
           \/ ctx[u].at = "user" /\ Where(k', u) \in {{FreeTask}, {RecycleList}}
    BY <1>1, <1>2, <2>1 DEF Untouched, Recycled
  <2> QED BY <1>8, <2>2, TcbKeptFrame
<1> QED BY <1>0, <1>1, <1>5, <1>6, <1>7, <1>8 DEF CoreInv, StepKeeps, Recycled

\* A step of thread c inside LOS_TaskCreate that changes the TCBs in T.
CreatorChanges(A, c, T) ==
    /\ Sane(k') /\ SameCtl(k', k) /\ T \subseteq Tasks /\ c \notin T
    /\ \A u \in TCB \ T : k'.status[u] = k.status[u] /\ k'.prio[u] = k.prio[u]
    /\ \A u \in Tasks \ T : Where(k', u) = Where(k, u)
    /\ \A d \in TCB \ {c} : ctx[d].at \in Holding => ctx[d].obj \notin T
    /\ ctx[c].at = "init" => ctx[c].obj \in T
    /\ ctx' \in [TCB -> ThreadState(A)]
    /\ \A d \in TCB \ {c} : \/ ctx'[d] = ctx[d]
                            \/ ctx'[d] = UserThread /\ d \in T /\ "UNUSED" \in k.status[d]
    /\ ctx'[c].at # "join"
    /\ ctx'[c].win => ctx'[c].at = "user"
    /\ ctx'[c].at \in Holding => ctx'[c].obj \in T
    /\ ctx'[c].at = "init" => "UNUSED" \in k'.status[ctx'[c].obj] /\ ~Linked(k', ctx'[c].obj)
    /\ ctx'[c].at = "enqueue" => k'.status[ctx'[c].obj] = {"SUSPEND"}
    /\ \A u \in T : "READY" \in k'.status[u] /\ k.scheduled => ctx'[c].win
    /\ \A u \in T : "UNUSED" \in k'.status[u] =>
          /\ "UNUSED" \in k.status[u]
          /\ \/ Where(k', u) \in {{FreeTask}, {RecycleList}}
             \/ ctx'[c].at = "init" /\ ctx'[c].obj = u

LEMMA CreatorStep ==
    ASSUME NEW A, CoreInv(A, k, ctx), NEW c \in Tasks \cup {Dummy}, Running(c), ~ctx[c].win,
           NEW T, CreatorChanges(A, c, T)
    PROVE  StepKeeps(A)
<1> USE DEF CreatorChanges
<1>0. /\ Sane(k) /\ Creators(k, ctx) /\ RunNotSuspended(k) /\ Booting(k)
      /\ c \in TCB /\ Dummy \notin Tasks /\ Dummy \in TCB
  BY TasksAreTCBs, SchedAssumption DEF CoreInv
<1>1. k.run = c /\ ~(k.scheduled /\ Stuck(k)) /\ (k.scheduled => c # Dummy)
  BY <1>0, DummyNeverRuns
<1>2. /\ k'.run = c /\ k'.lock = k.lock /\ k'.scheduled = k.scheduled
      /\ k'.pendsv = k.pendsv /\ k'.status[c] = k.status[c] /\ k'.prio[c] = k.prio[c]
  BY <1>0, <1>1 DEF SameCtl
<1>3. UserThread.at = "user" /\ ~UserThread.win
  BY DEF UserThread, Thread
<1>4. \A d \in TCB \ {c} : \/ ctx'[d] = ctx[d]
                           \/ ctx'[d].at = "user" /\ d \in T /\ "UNUSED" \in k.status[d]
  BY <1>3
<1>5. ASSUME NEW d \in TCB, d # c
      PROVE  /\ ctx'[d].at # "join"
             /\ ctx'[d].at \in Creating => ~ctx'[d].win
             /\ ctx'[d].at \in Holding => ctx'[d].obj \in Tasks /\ ctx'[d].obj \notin T
             /\ ctx'[d].at = "init" => "UNUSED" \in k'.status[ctx'[d].obj] /\ ~Linked(k', ctx'[d].obj)
             /\ ctx'[d].at = "enqueue" => k'.status[ctx'[d].obj] = {"SUSPEND"}
  <2>1. CASE ctx'[d] = ctx[d]
    <3>1. ctx[d].at \in Holding =>
             /\ ctx[d].obj \in Tasks /\ ctx[d].obj \notin T
             /\ k'.status[ctx[d].obj] = k.status[ctx[d].obj]
             /\ Where(k', ctx[d].obj) = Where(k, ctx[d].obj)
      BY <1>0, <1>5, TasksAreTCBs DEF Creators
    <3>2. /\ ctx[d].at # "join" /\ (ctx[d].at \in Creating => ~ctx[d].win)
          /\ ctx[d].at = "init" => "UNUSED" \in k.status[ctx[d].obj] /\ Where(k, ctx[d].obj) = {}
          /\ ctx[d].at = "enqueue" => k.status[ctx[d].obj] = {"SUSPEND"}
      BY <1>0 DEF Creators, Linked
    <3>3. ctx[d].at = "init" \/ ctx[d].at = "enqueue" => ctx[d].at \in Holding
      BY DEF Holding
    <3> QED BY <2>1, <3>1, <3>2, <3>3 DEF Linked
  <2>2. CASE ctx'[d] = UserThread
    BY <1>3, <2>2 DEF Creating, Holding
  <2> QED BY <1>5, <2>1, <2>2
<1>6. Creators(k', ctx')
  <2>1. ASSUME NEW d \in TCB
        PROVE  /\ ctx'[d].at # "join"
               /\ ctx'[d].at \in Creating => ~ctx'[d].win
               /\ ctx'[d].at \in Holding => ctx'[d].obj \in Tasks
               /\ ctx'[d].at = "init" => "UNUSED" \in k'.status[ctx'[d].obj] /\ ~Linked(k', ctx'[d].obj)
               /\ ctx'[d].at = "enqueue" => k'.status[ctx'[d].obj] = {"SUSPEND"}
    <3>1. CASE d = c
      BY <3>1 DEF Creating
    <3>2. CASE d # c
      BY <1>5, <3>2
    <3> QED BY <3>1, <3>2
  <2>2. ASSUME NEW d \in TCB, NEW e \in TCB, ctx'[d].at \in Holding, ctx'[e].at \in Holding,
               ctx'[d].obj = ctx'[e].obj
        PROVE  d = e
    <3>1. CASE d = c \/ e = c
      BY <1>5, <2>2, <3>1
    <3>2. CASE d # c /\ e # c
      <4>1. ctx'[d] = ctx[d] /\ ctx'[e] = ctx[e]
        BY <1>3, <2>2, <3>2 DEF Holding
      <4> QED BY <1>0, <2>2, <4>1 DEF Creators
    <3> QED BY <3>1, <3>2
  <2>3. k'.scheduled => ctx'[Dummy].at = "user"
    BY <1>0, <1>1, <1>2, <1>4 DEF Creators
  <2> QED BY <2>1, <2>2, <2>3 DEF Creators
<1>7. SwitchDue(k', ctx') /\ Booting(k') /\ RunNotSuspended(k')
  BY <1>0, <1>1, <1>2 DEF SwitchDue, Stuck, Booting, RunNotSuspended
<1>8. ASSUME Highest(k, ctx) PROVE Highest(k', ctx')
  <2>1. SUFFICES ASSUME k.scheduled, c \in Tasks, ~k.pendsv, ~ctx'[c].win, k.lock = 0
                 PROVE  Top(k')
    BY <1>2 DEF Highest
  <2>2. Top(k)
    BY <1>1, <1>8, <2>1 DEF Highest
  <2>3. \A u \in Tasks : "READY" \in k'.status[u] => u \notin T /\ u \in TCB
    BY <2>1, TasksAreTCBs
  <2> QED BY <1>1, <1>2, <2>2, <2>3 DEF Top
<1>9. ASSUME TcbKept(k, ctx) PROVE TcbKept(k', ctx')
  <2>1. SUFFICES ASSUME NEW u \in Tasks, "UNUSED" \in k'.status[u]
                 PROVE  /\ ctx'[u].at = "user"
                        /\ \/ Where(k', u) \in {{FreeTask}, {RecycleList}}
                           \/ \E d \in TCB : ctx'[d].at = "init" /\ ctx'[d].obj = u
    BY DEF TcbKept
  <2>2. "UNUSED" \in k.status[u] /\ u \in TCB
    BY <2>1, TasksAreTCBs
  <2>3. u # c
    BY <1>0, <1>1, <2>2, SaneFacts DEF PlaceOK
  <2>4. ctx[u].at = "user"
    BY <1>9, <2>2 DEF TcbKept
  <2>5. ctx'[u].at = "user"
    BY <1>4, <2>2, <2>3, <2>4
  <2>6. CASE u \in T
    BY <1>0, <2>1, <2>5, <2>6
  <2>7. CASE u \notin T
    <3>1. Where(k', u) = Where(k, u)
      BY <2>7
    <3>2. ASSUME NEW d \in TCB, ctx[d].at = "init", ctx[d].obj = u
          PROVE  ctx'[d].at = "init" /\ ctx'[d].obj = u
      <4>1. d # c
        BY <2>7, <3>2
      <4>2. d \in T => "UNUSED" \notin k.status[d]
        BY <1>9, <3>2 DEF TcbKept
      <4> QED BY <1>4, <3>2, <4>1, <4>2
    <3> QED BY <1>9, <2>2, <2>5, <3>1, <3>2 DEF TcbKept
  <2> QED BY <2>6, <2>7
<1> QED BY <1>6, <1>7, <1>8, <1>9 DEF CoreInv, StepKeeps

\* A step inside LOS_TaskCreate that leaves the kernel state alone.
LEMMA CreatorMoves ==
    ASSUME NEW A, CoreInv(A, k, ctx), NEW c \in Tasks \cup {Dummy}, Running(c), ~ctx[c].win,
           ctx[c].at # "init", k' = k, ctx' \in [TCB -> ThreadState(A)],
           \A d \in TCB \ {c} : ctx'[d] = ctx[d],
           ctx'[c].at \notin Holding \cup {"join"}, ~ctx'[c].win
    PROVE  StepKeeps(A)
<1>1. Sane(k') /\ SameCtl(k', k) /\ {} \subseteq Tasks /\ c \notin {}
  BY DEF CoreInv, SameCtl
<1>2. /\ \A u \in TCB \ {} : k'.status[u] = k.status[u] /\ k'.prio[u] = k.prio[u]
      /\ \A u \in Tasks \ {} : Where(k', u) = Where(k, u)
      /\ \A d \in TCB \ {c} : ctx[d].at \in Holding => ctx[d].obj \notin {}
  OBVIOUS
<1>3. ctx'[c].at # "join" /\ ctx'[c].at # "init" /\ ctx'[c].at # "enqueue"
  BY DEF Holding
<1>4. CreatorChanges(A, c, {})
  BY <1>1, <1>2, <1>3 DEF CreatorChanges
<1> QED BY <1>4, CreatorStep

LEMMA TakeKept ==
    ASSUME NEW A, At \subseteq A, CoreInv(A, k, ctx), NEW c \in Tasks \cup {Dummy},
           TakeFreeTask(c), k.list[FreeTask] # << >>
    PROVE  StepKeeps(A)
<1>t. PICK t : t = k.list[FreeTask][1]
  OBVIOUS
<1>0. /\ Sane(k) /\ Creators(k, ctx) /\ ctx \in [TCB -> ThreadState(A)] /\ c \in TCB
      /\ Running(c) /\ ctx[c].at = "take" /\ k' = LOS_ListDelete(k, t)
      /\ ctx' = [ctx EXCEPT ![c] = Thread("init", t, FALSE)]
  BY <1>t, TasksAreTCBs DEF CoreInv, TakeFreeTask
<1>1. /\ t \in Tasks /\ "UNUSED" \in k.status[t] /\ Where(k, t) = {FreeTask}
      /\ Sane(k') /\ SameBut(k', k, t) /\ k'.status = k.status /\ k'.prio = k.prio
      /\ k'.sort = k.sort /\ ~Linked(k', t) /\ SameWaiters(k', k)
  <2>1. TakenOff(k', k, FreeTask, t)
    BY <1>t, <1>0, UnlinkFirstStep
  <2> QED BY <2>1 DEF TakenOff
<1>2. ~ctx[c].win
  BY <1>0 DEF Creators, Creating
<1>3. k.run = c
  BY <1>0 DEF Running
<1>4. t # c
  BY <1>0, <1>1, <1>3, SaneFacts DEF PlaceOK
<1>5. \A d \in TCB : ctx[d].at \in Holding => ctx[d].obj # t
  <2>1. Linked(k, t) /\ k.status[t] # {"SUSPEND"}
    BY <1>1 DEF Linked
  <2> QED BY <1>0, <2>1 DEF Creators, Holding
<1>6. ctx'[c] = Thread("init", t, FALSE) /\ \A d \in TCB \ {c} : ctx'[d] = ctx[d]
  BY <1>0
<1>7. /\ ctx'[c].at = "init" /\ ctx'[c].obj = t /\ ~ctx'[c].win
      /\ Thread("init", t, FALSE) \in ThreadState(A)
  BY <1>1, <1>6, TasksAreTCBs DEF Thread, ThreadState, At
<1>8. ctx' \in [TCB -> ThreadState(A)]
  BY <1>0, <1>7
<1>9. /\ \A u \in TCB \ {t} : k'.status[u] = k.status[u] /\ k'.prio[u] = k.prio[u]
      /\ \A u \in Tasks \ {t} : Where(k', u) = Where(k, u)
      /\ SameCtl(k', k)
  BY <1>1 DEF SameBut, OthersStay
<1>10. FlagsOK(k.status[t])
  BY <1>0, <1>1, SaneFacts
<1>11. "READY" \notin k'.status[t] /\ "UNUSED" \in k'.status[t] /\ {t} \subseteq Tasks
  BY <1>1, <1>10 DEF FlagsOK, Blocked
<1>12. CreatorChanges(A, c, {t})
  BY <1>0, <1>1, <1>4, <1>5, <1>6, <1>7, <1>8, <1>9, <1>11 DEF CreatorChanges
<1> QED BY <1>0, <1>2, <1>12, CreatorStep

LEMMA CreateOnlyKept ==
    ASSUME NEW A, At \subseteq A, CoreInv(A, k, ctx), Plain, NEW c \in Tasks \cup {Dummy},
           LOS_TaskCreateOnly(c)
    PROVE  StepKeeps(A)
<1> DEFINE t == ctx[c].obj
<1>0. /\ Sane(k) /\ Creators(k, ctx) /\ ctx \in [TCB -> ThreadState(A)] /\ c \in TCB
      /\ Running(c) /\ ctx[c].at = "init"
  BY TasksAreTCBs DEF CoreInv, LOS_TaskCreateOnly
<1>1. PICK p \in CreatePrios, joinable \in BOOLEAN :
         LET a == OsNewTaskInit(k, t, p, joinable)
         IN  /\ joinable => t \in Joinables
             /\ \/ /\ k' = OsInsertTCBToFreeList(a, t)
                   /\ ctx' = [ctx EXCEPT ![c] = UserThread]
                \/ /\ k' = a
                   /\ ctx' = [ctx EXCEPT ![c].at = "enqueue", ![t] = UserThread]
                \/ /\ "createonly" \in TaskCalls
                   /\ k' = a
                   /\ ctx' = [ctx EXCEPT ![c] = UserThread, ![t] = UserThread]
  BY DEF LOS_TaskCreateOnly
<1> DEFINE a == OsNewTaskInit(k, t, p, FALSE)
<1>2. joinable = FALSE
  BY <1>1 DEF Plain
<1>3. \/ k' = OsInsertTCBToFreeList(a, t) /\ ctx' = [ctx EXCEPT ![c] = UserThread]
      \/ k' = a /\ ctx' = [ctx EXCEPT ![c].at = "enqueue", ![t] = UserThread]
      \/ k' = a /\ ctx' = [ctx EXCEPT ![c] = UserThread, ![t] = UserThread]
  BY <1>1, <1>2
<1>4. /\ t \in Tasks /\ t \in TCB /\ "UNUSED" \in k.status[t] /\ ~Linked(k, t) /\ ~ctx[c].win
      /\ \A d \in TCB \ {c} : ctx[d].at \in Holding => ctx[d].obj # t
  BY <1>0, TasksAreTCBs DEF Creators, Holding, Creating
<1>5. k.run = c
  BY <1>0 DEF Running
<1>6. t # c
  BY <1>0, <1>4, <1>5, SaneFacts DEF PlaceOK
<1>7. /\ Sane(a) /\ SameBut(a, k, t) /\ SameWaiters(a, k)
      /\ a.status[t] = {"SUSPEND"} /\ a.sort = k.sort /\ ~Linked(a, t) /\ t \notin a.sort
  BY <1>0, <1>4, NewTaskSafe
<1>8. UserThread \in ThreadState(A) /\ UserThread.at = "user" /\ ~UserThread.win
  BY TasksAreTCBs DEF UserThread, Thread, ThreadState, At
<1>9. ctx[c].obj = t
  OBVIOUS
<1> HIDE DEF a, t
<1>10. {t} \subseteq Tasks /\ c \notin {t} /\ "enqueue" \in A
  BY <1>4, <1>6 DEF At
<1>11. CASE k' = OsInsertTCBToFreeList(a, t) /\ ctx' = [ctx EXCEPT ![c] = UserThread]
  <2>1. KInv(a) /\ ~a.fault
    BY <1>7 DEF Sane
  <2>2. /\ SameBut(k', a, t) /\ k'.sort = a.sort
        /\ k'.status[t] = {"UNUSED"} /\ Where(k', t) = {FreeTask}
    BY <1>4, <1>7, <1>11, <2>1, InsertFreeStep
  <2>3. SameBut(k', k, t)
    BY <1>4, <1>7, <2>2, SameButTrans
  <2>4. TaskSane(k', t)
    <3>1. k'.run = c
      BY <1>5, <2>3 DEF SameBut, SameCtl
    <3> QED BY <1>6, <1>7, <2>2, <3>1 DEF TaskSane, FlagsOK, PlaceOK, Blocked, Timed
  <2>5. Sane(k')
    BY <1>0, <1>4, <2>3, <2>4, SameButSane
  <2>6. /\ \A u \in TCB \ {t} : k'.status[u] = k.status[u] /\ k'.prio[u] = k.prio[u]
        /\ \A u \in Tasks \ {t} : Where(k', u) = Where(k, u)
        /\ SameCtl(k', k)
    BY <2>3 DEF SameBut, OthersStay
  <2>7. /\ ctx'[c] = UserThread /\ \A d \in TCB \ {c} : ctx'[d] = ctx[d]
        /\ ctx' \in [TCB -> ThreadState(A)]
    BY <1>0, <1>8, <1>11
  <2>8. ctx'[c].at = "user" /\ ctx'[c].at \notin Holding /\ "READY" \notin k'.status[t]
    BY <1>8, <2>2, <2>7 DEF Holding
  <2>9. CreatorChanges(A, c, {t})
    BY <1>4, <1>8, <1>9, <1>10, <2>2, <2>5, <2>6, <2>7, <2>8 DEF CreatorChanges
  <2> QED BY <1>0, <1>4, <2>9, CreatorStep
<1>12. CASE /\ k' = a
            /\ \/ ctx' = [ctx EXCEPT ![c].at = "enqueue", ![t] = UserThread]
               \/ ctx' = [ctx EXCEPT ![c] = UserThread, ![t] = UserThread]
  <2>1. /\ \A u \in TCB \ {t} : k'.status[u] = k.status[u] /\ k'.prio[u] = k.prio[u]
        /\ \A u \in Tasks \ {t} : Where(k', u) = Where(k, u)
        /\ SameCtl(k', k) /\ Sane(k') /\ k'.status[t] = {"SUSPEND"}
    BY <1>7, <1>12 DEF SameBut, OthersStay
  <2>2. /\ ctx'[t] = UserThread /\ \A d \in TCB \ {c, t} : ctx'[d] = ctx[d]
        /\ ctx' \in [TCB -> ThreadState(A)]
        /\ ~ctx'[c].win /\ ctx'[c].at \in {"user", "enqueue"}
        /\ ctx'[c].at = "enqueue" => ctx'[c].obj = t
    <3>1. CASE ctx' = [ctx EXCEPT ![c].at = "enqueue", ![t] = UserThread]
      <4>1. ctx'[c] = [ctx[c] EXCEPT !.at = "enqueue"]
        BY <1>0, <1>4, <1>6, <3>1
      <4>2. /\ [ctx[c] EXCEPT !.at = "enqueue"] \in ThreadState(A)
            /\ ctx'[c].at = "enqueue" /\ ctx'[c].obj = t /\ ctx'[c].win = ctx[c].win
        BY <1>0, <1>9, <1>10, <4>1 DEF ThreadState
      <4> QED BY <1>0, <1>4, <1>6, <1>8, <3>1, <4>2
    <3>2. CASE ctx' = [ctx EXCEPT ![c] = UserThread, ![t] = UserThread]
      BY <1>0, <1>4, <1>6, <1>8, <3>2
    <3> QED BY <1>12, <3>1, <3>2
  <2>3. \A d \in TCB \ {c} : \/ ctx'[d] = ctx[d]
                             \/ /\ ctx'[d] = UserThread /\ d \in {t}
                                /\ "UNUSED" \in k.status[d]
    BY <1>4, <2>2
  <2>4. /\ ctx'[c].at # "join" /\ ctx'[c].at # "init"
        /\ "READY" \notin k'.status[t] /\ "UNUSED" \notin k'.status[t]
        /\ ctx'[c].at \in Holding => ctx'[c].obj \in {t}
    BY <2>1, <2>2 DEF Holding
  <2>5. CreatorChanges(A, c, {t})
    BY <1>4, <1>9, <1>10, <2>1, <2>2, <2>3, <2>4 DEF CreatorChanges
  <2> QED BY <1>0, <1>4, <2>5, CreatorStep
<1> QED BY <1>3, <1>11, <1>12

LEMMA EnQueueKept ==
    ASSUME NEW A, At \subseteq A, CoreInv(A, k, ctx), NEW c \in Tasks \cup {Dummy},
           LOS_TaskCreateEnQueue(c)
    PROVE  StepKeeps(A)
<1> DEFINE t == ctx[c].obj
           th == Thread("user", Idle, k.scheduled)
<1>0. /\ Sane(k) /\ Creators(k, ctx) /\ ctx \in [TCB -> ThreadState(A)] /\ c \in TCB
      /\ Running(c) /\ ctx[c].at = "enqueue" /\ k' = OsSchedTaskEnQueue(k, t)
      /\ ctx' = [ctx EXCEPT ![c] = th] /\ k.scheduled \in BOOLEAN
  BY TasksAreTCBs DEF CoreInv, LOS_TaskCreateEnQueue, Sane, KInv, KernelState
<1>1. /\ t \in Tasks /\ k.status[t] = {"SUSPEND"} /\ ~ctx[c].win
      /\ \A d \in TCB \ {c} : ctx[d].at \in Holding => ctx[d].obj # t
  BY <1>0 DEF Creators, Holding, Creating
<1> HIDE DEF t
<1>2. KInv(k) /\ ~k.fault /\ k.run = c
  BY <1>0 DEF Sane, Running
<1>3. Becomes(k', k, t, (k.status[t] \ {"SUSPEND", "DELAY", "PEND_TIME"}) \cup {"READY"}, k.sort)
  BY <1>0, <1>1, <1>2, EnQueueStep
<1>4. SameBut(k', k, t) /\ k'.status[t] = {"READY"} /\ k'.sort = k.sort
  BY <1>1, <1>3 DEF Becomes
<1>5. PlaceOK(k, t) /\ k'.run = c
  BY <1>0, <1>1, <1>2, <1>4, SaneFacts DEF SameBut, SameCtl
<1>6. t # c /\ t \notin k.sort
  BY <1>1, <1>2, <1>5 DEF PlaceOK, Timed
<1>7. TaskSane(k', t)
  BY <1>4, <1>5, <1>6 DEF TaskSane, FlagsOK, PlaceOK, Blocked, Timed
<1>8. Sane(k')
  BY <1>0, <1>1, <1>4, <1>7, SameButSane
<1>9. /\ \A u \in TCB \ {t} : k'.status[u] = k.status[u] /\ k'.prio[u] = k.prio[u]
      /\ \A u \in Tasks \ {t} : Where(k', u) = Where(k, u)
      /\ SameCtl(k', k)
  BY <1>4 DEF SameBut, OthersStay
<1>10. /\ th \in ThreadState(A) /\ th.at = "user" /\ th.win = k.scheduled
  BY <1>0, TasksAreTCBs DEF Thread, ThreadState, At
<1> HIDE DEF th
<1>11. /\ ctx'[c] = th /\ \A d \in TCB \ {c} : ctx'[d] = ctx[d]
       /\ ctx' \in [TCB -> ThreadState(A)]
  BY <1>0, <1>10
<1>12. /\ ctx'[c].at = "user" /\ ctx'[c].at \notin Holding /\ ctx'[c].win = k.scheduled
       /\ {t} \subseteq Tasks /\ c \notin {t} /\ "UNUSED" \notin k'.status[t]
  BY <1>1, <1>4, <1>6, <1>10, <1>11 DEF Holding
<1>13. CreatorChanges(A, c, {t})
  BY <1>0, <1>1, <1>8, <1>9, <1>11, <1>12 DEF CreatorChanges
<1> QED BY <1>0, <1>1, <1>13, CreatorStep

LEMMA CreateCallKept ==
    ASSUME NEW A, At \subseteq A, CoreInv(A, k, ctx), Plain, NEW c \in Tasks \cup {Dummy},
           CreateCall(c)
    PROVE  StepKeeps(A)
<1>0. /\ Creators(k, ctx) /\ ctx \in [TCB -> ThreadState(A)] /\ c \in TCB /\ Idle \in TCB
      /\ {"user", "recycle", "take"} \subseteq A
  BY TasksAreTCBs DEF CoreInv, At
<1>1. CASE LOS_TaskCreate(c)
  <2>1. /\ Running(c) /\ ctx[c].at = "user" /\ ~ctx[c].win /\ k' = k
        /\ ctx' = [ctx EXCEPT ![c] = Thread("recycle", Idle, FALSE)]
    BY <1>1 DEF LOS_TaskCreate, InUser
  <2>2. ctx'[c].at = "recycle" /\ ~ctx'[c].win /\ ctx' \in [TCB -> ThreadState(A)]
    BY <1>0, <2>1 DEF Thread, ThreadState
  <2>3. /\ ctx[c].at # "init" /\ ctx'[c].at \notin Holding \cup {"join"}
        /\ \A d \in TCB \ {c} : ctx'[d] = ctx[d]
    BY <1>0, <2>1, <2>2 DEF Holding
  <2> QED BY <2>1, <2>2, <2>3, CreatorMoves
<1>2. CASE OsRecycleFinishedTask(c)
  <2>1. Running(c) /\ ctx[c].at = "recycle" /\ ~ctx[c].win
    BY <1>0, <1>2 DEF OsRecycleFinishedTask, Creators, Creating
  <2>2. CASE k.list[RecycleList] # << >>
    BY <1>2, <2>2, RecycleKept DEF OsRecycleFinishedTask
  <2>3. CASE k.list[RecycleList] = << >>
    <3>1. k' = k /\ ctx' = [ctx EXCEPT ![c].at = "take"]
      BY <1>2, <2>3 DEF OsRecycleFinishedTask
    <3>2. /\ ctx'[c].at = "take" /\ ctx'[c].win = ctx[c].win
          /\ ctx' \in [TCB -> ThreadState(A)]
      BY <1>0, <3>1 DEF ThreadState
    <3>3. /\ ctx[c].at # "init" /\ ctx'[c].at \notin Holding \cup {"join"}
          /\ \A d \in TCB \ {c} : ctx'[d] = ctx[d]
      BY <1>0, <2>1, <3>1, <3>2 DEF Holding
    <3> QED BY <2>1, <3>1, <3>2, <3>3, CreatorMoves
  <2> QED BY <2>2, <2>3
<1>3. CASE TakeFreeTask(c)
  <2>1. CASE k.list[FreeTask] = << >>
    <3>1. /\ Running(c) /\ ctx[c].at = "take" /\ ~ctx[c].win /\ k' = k
          /\ ctx' = [ctx EXCEPT ![c] = UserThread]
      BY <1>0, <1>3, <2>1 DEF TakeFreeTask, Creators, Creating
    <3>2. ctx'[c].at = "user" /\ ~ctx'[c].win /\ ctx' \in [TCB -> ThreadState(A)]
      BY <1>0, <3>1 DEF UserThread, Thread, ThreadState
    <3>3. /\ ctx[c].at # "init" /\ ctx'[c].at \notin Holding \cup {"join"}
          /\ \A d \in TCB \ {c} : ctx'[d] = ctx[d]
      BY <1>0, <3>1, <3>2 DEF Holding
    <3> QED BY <3>1, <3>2, <3>3, CreatorMoves
  <2>2. CASE k.list[FreeTask] # << >>
    BY <1>3, <2>2, TakeKept
  <2> QED BY <2>1, <2>2
<1>4. CASE LOS_TaskCreateOnly(c)
  BY <1>4, CreateOnlyKept
<1>5. CASE LOS_TaskCreateEnQueue(c)
  BY <1>5, EnQueueKept
<1> QED BY <1>1, <1>2, <1>3, <1>4, <1>5 DEF CreateCall

-----------------------------------------------------------------------------
(***************************************************************************)
(* Every step, and the theorems.                                           *)
(***************************************************************************)
LEMMA NextKept ==
    ASSUME NEW A, At \subseteq A, CoreInv(A, k, ctx), Plain, Next
    PROVE  StepKeeps(A)
<1>1. CASE LOS_Start \/ PendSV \/ Tick({}) \/ \E t \in k.sort : Tick({t})
  BY <1>1, KernelSafe DEF StepKeeps
<1>2. CASE OsIdleTask
  BY <1>2, RecycleKept DEF OsIdleTask
<1>3. ASSUME NEW c \in TCB, LOS_Schedule(c) PROVE StepKeeps(A)
  BY <1>3, ScheduleKept DEF StepKeeps
<1>4. ASSUME NEW c \in Tasks, TaskCall(c) PROVE StepKeeps(A)
  BY <1>4, TaskCallKept
<1>5. ASSUME NEW c \in Tasks \cup {Isr}, AnyCall(c) PROVE StepKeeps(A)
  BY <1>5, SuspendKept, ResumeKept, PriSetKept, DeleteKept DEF AnyCall
<1>6. ASSUME NEW c \in Tasks \cup {Dummy}, CreateCall(c) PROVE StepKeeps(A)
  BY <1>6, CreateCallKept
<1> QED BY <1>1, <1>2, <1>3, <1>4, <1>5, <1>6 DEF Next

\* The state OsTaskInit leaves.
LEMMA InitSafe ==
    ASSUME Init
    PROVE  /\ CoreInv(At, k, ctx) /\ Highest(k, ctx) /\ TcbKept(k, ctx)
<1>1. PICK free \in [1..Cardinality(Tasks) -> Tasks] :
         Range(free) = Tasks /\ NoDup(free) /\ k = InitialKernel(free)
  BY DEF Init
<1>2. KInv(k)
  BY InitOK DEF IInv, KernelOK
<1>3. /\ k.status[Idle] = {"READY"} /\ \A t \in Tasks : k.status[t] = {"UNUSED"}
      /\ k.run = Dummy /\ ~k.scheduled /\ ~k.pendsv /\ ~k.fault /\ k.sort = {}
      /\ k.list = [h \in Head_ |-> IF h = FreeTask THEN free ELSE << >>]
  BY <1>1, TasksAreTCBs, SchedAssumption DEF InitialKernel
<1>4. \A c \in TCB : ctx[c].at = "user" /\ ~ctx[c].win
  BY DEF Init, UserThread, Thread
<1>5. ctx \in [TCB -> ThreadState(At)]
  BY TasksAreTCBs DEF Init, UserThread, Thread, ThreadState, At
<1>6. \A t \in Tasks : TaskSane(k, t)
  BY <1>3, TasksAreTCBs DEF TaskSane, FlagsOK, PlaceOK, Blocked, Timed
<1>7. Sane(k)
  BY <1>2, <1>3, <1>6, SchedAssumption DEF Sane, IdleSane
<1>8. Creators(k, ctx)
  BY <1>4, TasksAreTCBs DEF Creators, Creating, Holding
<1>9. TcbKept(k, ctx)
  <2>1. ASSUME NEW t \in Tasks PROVE Where(k, t) = {FreeTask}
    <3>1. FreeTask \in Head_
      BY HeadsDiffer
    <3> QED BY <1>1, <1>3, <3>1 DEF Where, Range
  <2> QED BY <1>4, <2>1, TasksAreTCBs DEF TcbKept
<1>10. CoreInv(At, k, ctx)
  BY <1>3, <1>5, <1>7, <1>8, SchedAssumption DEF CoreInv, Booting, RunNotSuspended, SwitchDue
<1> QED BY <1>3, <1>9, <1>10 DEF Highest

TaskSafe == CoreInv(At, k, ctx) /\ Highest(k, ctx)

\* The invariant of the kernels considered here holds in every reachable state.
THEOREM TaskSafeAlways == Plain => (Spec => []TaskSafe)
<1> SUFFICES ASSUME Plain PROVE Spec => []TaskSafe
  OBVIOUS
<1>1. Init => TaskSafe
  BY InitSafe DEF TaskSafe
<1>2. TaskSafe /\ [Next]_vars => TaskSafe'
  <2> SUFFICES ASSUME TaskSafe, [Next]_vars PROVE TaskSafe'
    OBVIOUS
  <2>1. CASE Next
    BY <2>1, NextKept DEF TaskSafe, StepKeeps
  <2>2. CASE UNCHANGED vars
    <3>1. k' = k /\ ctx' = ctx
      BY <2>2 DEF vars
    <3> QED BY <3>1 DEF TaskSafe
  <2> QED BY <2>1, <2>2
<1> QED BY <1>1, <1>2, PTL DEF Spec

\* No LOS_ASSERT fails and no list operation meets a node in the wrong place,
\* whatever tasks and interrupt handlers call and however interrupts and switches
\* fall between their steps.
THEOREM KernelNeverFaults == Plain => (Spec => []NoFault)
<1> SUFFICES ASSUME Plain PROVE Spec => []NoFault
  OBVIOUS
<1>1. TaskSafe => NoFault
  BY DEF TaskSafe, CoreInv, Sane, NoFault
<1>2. Spec => []TaskSafe
  BY TaskSafeAlways
<1> QED BY <1>1, <1>2, PTL

\* Hence, with no condition on NoFault, every TCB's node is where its taskStatus says.
THEOREM NodesAlwaysInPlace == Plain => (Spec => []NodeWhereStatusSays)
<1> SUFFICES ASSUME Plain PROVE Spec => []NodeWhereStatusSays
  OBVIOUS
<1>1. Spec => []NoFault
  BY KernelNeverFaults
<1> QED BY <1>1, NodesInPlace, PTL

\* And g_queueBitmap has exactly the bits of the non-empty ready queues.
THEOREM BitmapAlwaysExact == Plain => (Spec => []BitmapExact)
<1> SUFFICES ASSUME Plain PROVE Spec => []BitmapExact
  OBVIOUS
<1>1. Spec => []NoFault
  BY KernelNeverFaults
<1> QED BY <1>1, BitmapIsExact, PTL

\* A task is on the sort link exactly while it sleeps with a timeout: no timeout is
\* lost and none is left behind by a wake-up, a resume or a deletion.
THEOREM TimeoutsAlwaysArmed == Plain => (Spec => []TimeoutArmed)
<1> SUFFICES ASSUME Plain PROVE Spec => []TimeoutArmed
  OBVIOUS
<1>1. TaskSafe => TimeoutArmed
  BY DEF TaskSafe, CoreInv, Sane, TaskSane, PlaceOK, Timed, TimeoutArmed, Has
<1>2. Spec => []TaskSafe
  BY TaskSafeAlways
<1> QED BY <1>1, <1>2, PTL

\* Preemption: application code runs only while no ready task has a higher priority,
\* unless the scheduler is locked.
THEOREM RunsHighest == Plain => (Spec => []RunHighest)
<1> SUFFICES ASSUME Plain PROVE Spec => []RunHighest
  OBVIOUS
<1>1. TaskSafe => RunHighest
  <2> SUFFICES ASSUME TaskSafe, NEW t \in Tasks, NEW r \in Tasks, InUser(t), k.lock = 0,
                      Has(k, r, {"READY"})
               PROVE  k.prio[t] <= k.prio[r]
    BY DEF RunHighest
  <2>1. k.run = t /\ ~k.pendsv /\ ~ctx[t].win /\ t # Dummy
    BY SaneFacts, TasksAreTCBs DEF InUser, Running
  <2>2. k.scheduled
    BY <2>1 DEF TaskSafe, CoreInv, Booting
  <2>3. Top(k)
    BY <2>1, <2>2 DEF TaskSafe, Highest
  <2> QED BY <2>1, <2>3 DEF Top, Has
<1>2. Spec => []TaskSafe
  BY TaskSafeAlways
<1> QED BY <1>1, <1>2, PTL

\* A thread that has suspended, delayed or deleted itself, or that an interrupt
\* handler has suspended or deleted, executes no application code before it is made
\* ready again.
THEOREM BlockedThreadsStop == Plain => (Spec => []BlockedThreadStops)
<1> SUFFICES ASSUME Plain PROVE Spec => []BlockedThreadStops
  OBVIOUS
<1>1. TaskSafe => BlockedThreadStops
  <2> SUFFICES ASSUME TaskSafe, NEW t \in Tasks, InUser(t)
               PROVE  ~Has(k, t, Blocked \cup {"DELAY", "READY"})
    BY DEF BlockedThreadStops
  <2>1. k.run = t /\ ~k.pendsv /\ ~ctx[t].win /\ t # Dummy /\ t # Idle
    BY TasksAreTCBs DEF InUser, Running
  <2>2. k.scheduled /\ Sane(k) /\ SwitchDue(k, ctx)
    BY <2>1 DEF TaskSafe, CoreInv, Booting
  <2>3. ~Stuck(k)
    BY <2>1, <2>2 DEF SwitchDue
  <2>4. FlagsOK(k.status[t]) /\ PlaceOK(k, t)
    BY <2>2, SaneFacts
  <2>5. "READY" \notin k.status[t]
    BY <2>1, <2>4 DEF FlagsOK, PlaceOK
  <2> QED BY <2>1, <2>3, <2>5 DEF Stuck, Has
<1>2. Spec => []TaskSafe
  BY TaskSafeAlways
<1> QED BY <1>1, <1>2, PTL

\* No TCB is lost, if tasks delete only themselves: a task deleted by somebody else
\* inside LOS_TaskCreate takes the TCB it holds with it.
THEOREM NoTcbEverLost == Plain /\ Victims = {} => (Spec => []NoTcbLost)
<1> SUFFICES ASSUME Plain, Victims = {} PROVE Spec => []NoTcbLost
  OBVIOUS
<1> DEFINE I == CoreInv(At, k, ctx) /\ TcbKept(k, ctx)
<1>1. Init => I
  BY InitSafe
<1>2. I /\ [Next]_vars => I'
  <2> SUFFICES ASSUME I, [Next]_vars PROVE I'
    OBVIOUS
  <2>1. CASE Next
    BY <2>1, NextKept DEF StepKeeps
  <2>2. CASE UNCHANGED vars
    <3>1. k' = k /\ ctx' = ctx
      BY <2>2 DEF vars
    <3> QED BY <3>1
  <2> QED BY <2>1, <2>2
<1>3. I => NoTcbLost
  BY DEF TcbKept, NoTcbLost, Has
<1> HIDE DEF I
<1> QED BY <1>1, <1>2, <1>3, PTL DEF Spec

-----------------------------------------------------------------------------
(***************************************************************************)
(* What the steps of Task do to the waits of another module: a thread      *)
(* inside a call of that module stands at a place that is not in At.       *)
(***************************************************************************)
WaitFlags == {"PEND", "TIMEOUT", "UNUSED"}

\* Thread u goes on with its wait, or has none; a TCB out of use may be used again.
SameWait(r, y, kk, x, u) ==
    \/ /\ r.status[u] \cap WaitFlags = kk.status[u] \cap WaitFlags
       /\ \/ y[u].at = x[u].at /\ y[u].obj = x[u].obj
          \/ y[u].at \in At /\ x[u].at \in At
    \/ /\ "UNUSED" \in kk.status[u]
       /\ "UNUSED" \in r.status[u] \/ (r.status[u] = {"SUSPEND"} /\ y[u].at = "user")

OthersWait(t) == Left(k', k, t) /\ \A u \in Tasks \ {t} : SameWait(k', ctx', k, ctx, u)

\* Nobody's wait begins or ends, ...
Calm == SameWaiters(k', k) /\ \A u \in Tasks : SameWait(k', ctx', k, ctx, u)

\* ... or one task's wait times out, ...
TimesOut(t) ==
    /\ OthersWait(t)
    /\ "PEND" \in k.status[t]
    /\ k'.status[t] \cap WaitFlags = {"TIMEOUT"}
    /\ ctx'[t] = ctx[t]

\* ... or one task is deleted.
Dies(t) ==
    /\ OthersWait(t)
    /\ "UNUSED" \notin k.status[t] /\ "UNUSED" \in k'.status[t]
    /\ ctx'[t].at = ctx[t].at

Waits == Calm \/ \E t \in Tasks : TimesOut(t) \/ Dies(t)

\* A call that ends in Finish and touches no flag of a wait.
LEMMA CalmCall ==
    ASSUME NEW A, CoreInv(A, k, ctx), NEW c \in Tasks \cup {Isr}, NEW kk, Sane(kk),
           NEW need \in BOOLEAN, Finish(c, kk, need), SameWaiters(kk, k),
           \A u \in Tasks : kk.status[u] \cap WaitFlags = k.status[u] \cap WaitFlags
    PROVE  Calm
<1>1. ctx \in [TCB -> ThreadState(A)] /\ c \in TCB \cup {Isr}
  BY TasksAreTCBs DEF CoreInv
<1>2. Finished(c, kk, need)
  BY <1>1, FinishStep
<1>3. SameWaiters(k', k)
  BY <1>2 DEF Finished, SameTasks, SameWaiters
<1>4. ASSUME NEW u \in Tasks PROVE SameWait(k', ctx', k, ctx, u)
  BY <1>2, TasksAreTCBs DEF Finished, SameTasks, SameWait
<1> QED BY <1>3, <1>4 DEF Calm

LEMMA CalmOnTask ==
    ASSUME NEW A, CoreInv(A, k, ctx), NEW c \in Tasks \cup {Isr}, NEW kk, Sane(kk),
           NEW need \in BOOLEAN, Finish(c, kk, need), SameWaiters(kk, k), NEW t \in Tasks,
           SameBut(kk, k, t), kk.status[t] \cap WaitFlags = k.status[t] \cap WaitFlags
    PROVE  Calm
<1>1. \A u \in Tasks : kk.status[u] \cap WaitFlags = k.status[u] \cap WaitFlags
  BY TasksAreTCBs DEF SameBut
<1> QED BY <1>1, CalmCall

LEMMA KernelWaits ==
    ASSUME NEW A, CoreInv(A, k, ctx),
           LOS_Start \/ PendSV \/ Tick({}) \/ \E t \in k.sort : Tick({t})
    PROVE  Waits
<1>0. Sane(k) /\ Booting(k)
  BY DEF CoreInv
<1>1. ASSUME Switched(k', k), ctx' = ctx PROVE Waits
  <2>1. ASSUME NEW u \in Tasks PROVE k'.status[u] \cap WaitFlags = k.status[u] \cap WaitFlags
    <3>1. k'.status[u] \ {"READY", "RUNNING"} = k.status[u] \ {"READY", "RUNNING"}
      BY <1>1 DEF Switched
    <3> QED BY <3>1 DEF WaitFlags
  <2> QED BY <1>1, <2>1 DEF Switched, Waits, Calm, SameWait
<1>2. CASE LOS_Start
  <2>1. k.run = Dummy /\ k' = OsSchedStart(k) /\ ctx' = ctx
    BY <1>2 DEF LOS_Start, InUser, Running
  <2> QED BY <1>0, <1>1, <2>1, StartSafe
<1>3. CASE PendSV
  <2>1. PICK left \in BOOLEAN : k' = OsSchedTaskSwitch(k, left)
    BY <1>3 DEF PendSV
  <2> QED BY <1>0, <1>1, <1>3, <2>1, SwitchSafe DEF PendSV
<1>4. ASSUME NEW due, due = {} \/ \E t \in k.sort : due = {t}, Tick(due) PROVE Waits
  <2>1. PICK left \in BOOLEAN : k' = LOS_SchedTickHandler(k, due, left)
    BY <1>4 DEF Tick
  <2>2. PICK a : Ticked(k', a, k, due)
    BY <1>0, <1>4, <2>1, TickSafe
  <2>3. ctx' = ctx /\ SameTasks(k', a)
    BY <1>4, <2>2 DEF Tick, Ticked
  <2>4. CASE a = k
    BY <2>3, <2>4 DEF SameTasks, Waits, Calm, SameWaiters, SameWait
  <2>5. ASSUME NEW t \in k.sort, a = OsSchedWakePendTimeTask(k, t) PROVE Waits
    <3>1. /\ Left(a, k, t) /\ t \in Tasks /\ SameBut(a, k, t)
          /\ k.status[t] \cap {"UNUSED", "EXIT", "READY"} = {}
          /\ a.status[t] = (k.status[t] \ {"PEND", "PEND_TIME", "DELAY"})
                               \cup (IF "PEND" \in k.status[t] THEN {"TIMEOUT"} ELSE {})
                               \cup (IF "SUSPEND" \in k.status[t] THEN {} ELSE {"READY"})
      BY <1>0, <2>5, WakePendTimeSafe
    <3>2. Left(k', k, t) /\ k'.status = a.status
      BY <2>3, <3>1 DEF SameTasks, Left
    <3>3. ASSUME NEW u \in Tasks \ {t} PROVE SameWait(k', ctx', k, ctx, u)
      BY <2>3, <3>1, <3>2, TasksAreTCBs DEF SameBut, SameWait
    <3>4. CASE "PEND" \in k.status[t]
      <4>1. k'.status[t] \cap WaitFlags = {"TIMEOUT"}
        BY <3>1, <3>2, <3>4 DEF WaitFlags
      <4> QED BY <2>3, <3>1, <3>2, <3>3, <3>4, <4>1 DEF Waits, TimesOut, OthersWait
    <3>5. CASE "PEND" \notin k.status[t]
      <4>1. k'.status[t] \cap WaitFlags = k.status[t] \cap WaitFlags
        BY <3>1, <3>2, <3>5 DEF WaitFlags
      <4>2. SameWaiters(k', k)
        BY <1>0, <3>1, <3>2, <3>5, LeftIsSame DEF Left, SameWaiters, Sane
      <4> QED BY <2>3, <3>3, <4>1, <4>2 DEF Waits, Calm, SameWait
    <3> QED BY <3>4, <3>5
  <2> QED BY <2>2, <2>4, <2>5 DEF Ticked
<1> QED BY <1>2, <1>3, <1>4

LEMMA TaskCallWaits ==
    ASSUME NEW A, CoreInv(A, k, ctx), NEW c \in Tasks, TaskCall(c)
    PROVE  Waits
<1>0. Sane(k) /\ KInv(k) /\ ~k.fault /\ k.lock \in Nat /\ c \in TCB /\ k.run \in TCB
  BY TasksAreTCBs DEF CoreInv, Sane, KInv, KernelState
<1>1. ASSUME NEW kk, SameTasks(kk, k), NEW need \in BOOLEAN, Finish(c, kk, need) PROVE Waits
  <2>1. Sane(kk) /\ SameWaiters(kk, k)
    BY <1>0, <1>1, SaneFrame DEF SameTasks, SameWaiters
  <2>2. Calm
    BY <1>1, <2>1, CalmCall DEF SameTasks
  <2> QED BY <2>2 DEF Waits
<1>2. CASE LOS_TaskDelay(c)
  <2>1. Caller(c, "delay") /\ Finish(c, OsSchedDelay(k), TRUE)
    BY <1>2 DEF LOS_TaskDelay
  <2>2. Calling(c)
    BY <2>1, CallerCalls
  <2>3. k.run = c /\ k.status[c] \cap (Blocked \cup {"DELAY"}) = {}
    BY <2>2, CallerNotStuck
  <2>4. k' = SetStatus(k, c, {}, {"DELAY"}) /\ ctx' = [ctx EXCEPT ![c].win = TRUE]
    BY <2>1, <2>3, TaskAssumption DEF Finish, OsSchedDelay, TCB
  <2>5. {"DELAY"} \in FlagSets /\ Harmless({}, {"DELAY"})
    BY DEF FlagSets, Flag, Harmless
  <2>6. /\ SameBut(k', k, c) /\ k'.list = k.list
        /\ k'.status[c] = (k.status[c] \ {}) \cup {"DELAY"}
    BY <1>0, <2>4, <2>5, SetStatusStep
  <2>7. \A u \in Tasks : k'.status[u] \cap WaitFlags = k.status[u] \cap WaitFlags
    BY <2>6, TasksAreTCBs DEF SameBut, WaitFlags
  <2>8. \A u \in TCB : ctx'[u].at = ctx[u].at /\ ctx'[u].obj = ctx[u].obj
    BY <2>4 DEF CoreInv, ThreadState
  <2> QED BY <2>6, <2>7, <2>8, TasksAreTCBs DEF Waits, Calm, SameWaiters, SameWait
<1>3. CASE LOS_TaskYield(c)
  <2>1. SameTasks(OsSchedYield(k), k)
    BY <1>0, SliceSafe DEF OsSchedYield
  <2> QED BY <1>1, <1>3, <2>1 DEF LOS_TaskYield
<1>4. CASE LOS_TaskLock(c)
  <2>1. SameTasks([k EXCEPT !.lock = k.lock + 1], k)
    BY <1>0, LockSafe
  <2> QED BY <1>1, <1>4, <2>1 DEF LOS_TaskLock
<1>5. CASE LOS_TaskUnlock(c)
  <2>1. SameTasks([k EXCEPT !.lock = k.lock - 1], k)
    <3>1. k.lock - 1 \in Nat
      BY <1>0, <1>5 DEF LOS_TaskUnlock
    <3> QED BY <1>0, <3>1, LockSafe
  <2> QED BY <1>1, <1>5, <2>1 DEF LOS_TaskUnlock
<1>6. CASE (\E t \in Tasks : LOS_TaskJoin(c, t) \/ LOS_TaskDetach(c, t)) \/ JoinRecycle(c)
  BY <1>0, <1>6, NobodyJoins
<1> QED BY <1>2, <1>3, <1>4, <1>5, <1>6 DEF TaskCall

LEMMA AnyCallWaits ==
    ASSUME NEW A, CoreInv(A, k, ctx), NEW c \in Tasks \cup {Isr}, AnyCall(c)
    PROVE  Waits
<1>0. Sane(k) /\ Creators(k, ctx) /\ RunNotSuspended(k)
  BY DEF CoreInv
<1>1. ASSUME NEW t \in Tasks, LOS_TaskSuspend(c, t) PROVE Waits
  <2> DEFINE kk == OsSchedSuspend(k, t)
             need == t = k.run
  <2>1. Exists(t) /\ Finish(c, kk, need) /\ need \in BOOLEAN
    BY <1>1 DEF LOS_TaskSuspend
  <2>2. "UNUSED" \notin k.status[t]
    BY <1>0, <2>1, ExistsNotHeld
  <2>3. /\ Sane(kk) /\ SameWaiters(kk, k)
        /\ Becomes(kk, k, t, (k.status[t] \ {"READY"}) \cup {"SUSPEND"}, k.sort)
    BY <1>0, <2>2, SuspendSafe
  <2>4. SameBut(kk, k, t) /\ kk.status[t] \cap WaitFlags = k.status[t] \cap WaitFlags
    BY <2>3 DEF Becomes, WaitFlags
  <2> HIDE DEF kk, need
  <2> QED BY <2>1, <2>3, <2>4, CalmOnTask DEF Waits
<1>2. ASSUME NEW t \in Tasks, LOS_TaskResume(c, t) PROVE Waits
  <2> DEFINE kk == OsSchedResume(k, t)
             need == OsSchedResumeResult(k, t)
  <2>1. /\ Exists(t) /\ Finish(c, kk, need) /\ need \in BOOLEAN
        /\ "SUSPEND" \in k.status[t] /\ Caller(c, "resume")
    BY <1>2 DEF LOS_TaskResume, OsSchedResumeResult, Has
  <2>2. "UNUSED" \notin k.status[t] /\ Calling(c)
    BY <1>0, <2>1, ExistsNotHeld, CallerCalls
  <2>3. t # k.run
    <3>1. CASE c \in Tasks
      BY <2>1, <2>2, <3>1, CallerNotStuck DEF Blocked
    <3>2. CASE c = Isr
      BY <1>0, <2>1, <3>2 DEF Caller, RunNotSuspended
    <3> QED BY <3>1, <3>2
  <2>4. /\ Sane(kk) /\ SameWaiters(kk, k) /\ SameBut(kk, k, t)
        /\ kk.status[t] = IF need THEN (k.status[t] \ {"SUSPEND"}) \cup {"READY"}
                                  ELSE k.status[t] \ {"SUSPEND"}
    BY <1>0, <2>1, <2>2, <2>3, ResumeSafe
  <2> HIDE DEF kk, need
  <2>5. kk.status[t] \cap WaitFlags = k.status[t] \cap WaitFlags
    BY <2>4 DEF WaitFlags
  <2> QED BY <2>1, <2>4, <2>5, CalmOnTask DEF Waits
<1>3. ASSUME NEW t \in Tasks, NEW p \in Prio, LOS_TaskPriSet(c, t, p) PROVE Waits
  <2> DEFINE kk == OsSchedModifyTaskSchedParam(k, t, p)
             need == OsSchedModifyResult(k, t)
  <2>1. Finish(c, kk, need) /\ need \in BOOLEAN
    BY <1>3 DEF LOS_TaskPriSet, OsSchedModifyResult, Has
  <2>2. Sane(kk) /\ SameWaiters(kk, k) /\ SameBut(kk, k, t) /\ kk.status[t] = k.status[t]
    BY <1>0, ModifySafe
  <2> HIDE DEF kk, need
  <2> QED BY <2>1, <2>2, CalmOnTask DEF Waits
<1>4. ASSUME NEW t \in Tasks, LOS_TaskDelete(c, t) PROVE Waits
  <2> DEFINE kk == TaskDeleteEffect(k, t)
             need == Has(k, t, {"RUNNING"})
  <2>1. /\ Exists(t) /\ need \in BOOLEAN
        /\ c = t => k' = kk /\ ctx' = [ctx EXCEPT ![kk.run].win = TRUE]
        /\ c # t => Finish(c, kk, need)
    BY <1>4 DEF LOS_TaskDelete, Has
  <2>2. Deleted(kk, k, t)
    BY <1>0, <2>1, ExistsNotHeld, DeleteSafe
  <2>3. /\ Sane(kk) /\ Left(kk, k, t) /\ "UNUSED" \in kk.status[t]
        /\ \A u \in Tasks \ {t} : kk.status[u] = k.status[u]
    BY <2>2 DEF Deleted
  <2> HIDE DEF kk, need
  <2>4. /\ k'.status = kk.status /\ k'.list = kk.list
        /\ \A u \in TCB : ctx'[u].at = ctx[u].at /\ ctx'[u].obj = ctx[u].obj
    <3>1. CASE c = t
      BY <2>1, <3>1 DEF CoreInv, ThreadState
    <3>2. CASE c # t
      <4>1. ctx \in [TCB -> ThreadState(A)] /\ c \in TCB \cup {Isr}
        BY TasksAreTCBs DEF CoreInv
      <4>2. Finished(c, kk, need)
        BY <2>1, <2>3, <3>2, <4>1, FinishStep
      <4> QED BY <4>2 DEF Finished, SameTasks
    <3> QED BY <3>1, <3>2
  <2>5. OthersWait(t)
    BY <2>3, <2>4, TasksAreTCBs DEF OthersWait, Left, SameWait
  <2>6. "UNUSED" \notin k.status[t]
    BY <1>0, <2>1, ExistsNotHeld
  <2> QED BY <2>3, <2>4, <2>5, <2>6, TasksAreTCBs DEF Waits, Dies
<1> QED BY <1>1, <1>2, <1>3, <1>4 DEF AnyCall

LEMMA RecycleWaits ==
    ASSUME NEW A, CoreInv(A, k, ctx), k.list[RecycleList] # << >>, k' = RecycleFirst(k),
           ctx' = ctx
    PROVE  Calm
<1>0. Sane(k)
  BY DEF CoreInv
<1>1. PICK t \in Tasks : Recycled(k', k, t)
  BY <1>0, RecycleFirstSafe
<1>2. ASSUME NEW u \in Tasks PROVE SameWait(k', ctx', k, ctx, u)
  <2>1. CASE u = t
    BY <1>1, <2>1 DEF Recycled, SameWait
  <2>2. CASE u # t
    BY <1>1, <2>2, TasksAreTCBs DEF Recycled, SameBut, SameWait
  <2> QED BY <2>1, <2>2
<1> QED BY <1>1, <1>2 DEF Calm, Recycled

LEMMA CreateOnlyWaits ==
    ASSUME NEW A, CoreInv(A, k, ctx), Plain, NEW c \in Tasks \cup {Dummy}, LOS_TaskCreateOnly(c)
    PROVE  Calm
<1> DEFINE t == ctx[c].obj
<1>0. /\ Sane(k) /\ Creators(k, ctx) /\ ctx \in [TCB -> ThreadState(A)] /\ c \in TCB
      /\ Running(c) /\ ctx[c].at = "init"
  BY TasksAreTCBs DEF CoreInv, LOS_TaskCreateOnly
<1>1. PICK p \in CreatePrios, joinable \in BOOLEAN :
         LET a == OsNewTaskInit(k, t, p, joinable)
         IN  /\ joinable => t \in Joinables
             /\ \/ /\ k' = OsInsertTCBToFreeList(a, t)
                   /\ ctx' = [ctx EXCEPT ![c] = UserThread]
                \/ /\ k' = a
                   /\ ctx' = [ctx EXCEPT ![c].at = "enqueue", ![t] = UserThread]
                \/ /\ "createonly" \in TaskCalls
                   /\ k' = a
                   /\ ctx' = [ctx EXCEPT ![c] = UserThread, ![t] = UserThread]
  BY DEF LOS_TaskCreateOnly
<1> DEFINE a == OsNewTaskInit(k, t, p, FALSE)
<1>2. joinable = FALSE
  BY <1>1 DEF Plain
<1>3. \/ k' = OsInsertTCBToFreeList(a, t) /\ ctx' = [ctx EXCEPT ![c] = UserThread]
      \/ k' = a /\ ctx' = [ctx EXCEPT ![c].at = "enqueue", ![t] = UserThread]
      \/ k' = a /\ ctx' = [ctx EXCEPT ![c] = UserThread, ![t] = UserThread]
  BY <1>1, <1>2
<1>4. t \in Tasks /\ t \in TCB /\ "UNUSED" \in k.status[t] /\ ~Linked(k, t)
  BY <1>0, TasksAreTCBs DEF Creators, Holding
<1>5. t # c
  BY <1>0, <1>4, SaneFacts DEF PlaceOK, Running
<1>6. /\ Sane(a) /\ SameBut(a, k, t) /\ SameWaiters(a, k)
      /\ a.status[t] = {"SUSPEND"} /\ a.sort = k.sort /\ ~Linked(a, t) /\ t \notin a.sort
  BY <1>0, <1>4, NewTaskSafe
<1>7. UserThread.at = "user" /\ "user" \in At /\ "init" \in At /\ "enqueue" \in At
  BY DEF UserThread, Thread, At
<1> HIDE DEF a, t
<1>8. /\ \A d \in TCB \ {c, t} : ctx'[d] = ctx[d]
      /\ ctx'[c].at \in At
      /\ k' = a => ctx'[t] = UserThread
  <2>1. CASE ctx' = [ctx EXCEPT ![c] = UserThread]
    <3>1. k' = OsInsertTCBToFreeList(a, t) \/ ctx'[t] = UserThread
      BY <1>0, <1>3, <1>4, <1>5
    <3>2. k' = OsInsertTCBToFreeList(a, t) => k' # a
      <4>1. KInv(a) /\ ~a.fault
        BY <1>6 DEF Sane
      <4>2. ASSUME k' = OsInsertTCBToFreeList(a, t) PROVE k'.status[t] = {"UNUSED"}
        BY <1>4, <1>6, <4>1, <4>2, InsertFreeStep
      <4> QED BY <1>6, <4>2
    <3> QED BY <1>0, <1>7, <2>1, <3>1, <3>2
  <2>2. CASE ctx' = [ctx EXCEPT ![c].at = "enqueue", ![t] = UserThread]
    <3>1. ctx'[c] = [ctx[c] EXCEPT !.at = "enqueue"]
      BY <1>0, <1>4, <1>5, <2>2
    <3>2. ctx'[c].at = "enqueue"
      BY <1>0, <3>1 DEF ThreadState
    <3> QED BY <1>0, <1>4, <1>5, <1>7, <2>2, <3>2
  <2>3. CASE ctx' = [ctx EXCEPT ![c] = UserThread, ![t] = UserThread]
    BY <1>0, <1>4, <1>5, <1>7, <2>3
  <2> QED BY <1>3, <2>1, <2>2, <2>3
<1>9. /\ SameWaiters(k', k)
      /\ \A u \in Tasks \ {t} : k'.status[u] = k.status[u]
      /\ k'.status[t] = {"UNUSED"} \/ (k' = a /\ k'.status[t] = {"SUSPEND"})
  <2>1. CASE k' = a
    BY <1>6, <2>1, TasksAreTCBs DEF SameBut
  <2>2. CASE k' = OsInsertTCBToFreeList(a, t)
    <3>1. KInv(a) /\ ~a.fault
      BY <1>6 DEF Sane
    <3>2. SameBut(k', a, t) /\ SameWaiters(k', a) /\ k'.status[t] = {"UNUSED"}
      BY <1>4, <1>6, <2>2, <3>1, InsertFreeStep
    <3> QED BY <1>6, <3>2, TasksAreTCBs DEF SameBut, SameWaiters
  <2> QED BY <1>3, <2>1, <2>2
<1>10. ASSUME NEW u \in Tasks PROVE SameWait(k', ctx', k, ctx, u)
  <2>1. CASE u = t
    BY <1>4, <1>7, <1>8, <1>9, <2>1 DEF SameWait
  <2>2. CASE u # t
    BY <1>0, <1>7, <1>8, <1>9, <2>2, TasksAreTCBs DEF SameWait
  <2> QED BY <2>1, <2>2
<1> QED BY <1>9, <1>10 DEF Calm

LEMMA CreateCallWaits ==
    ASSUME NEW A, CoreInv(A, k, ctx), Plain, NEW c \in Tasks \cup {Dummy}, CreateCall(c)
    PROVE  Calm
<1>0. /\ Sane(k) /\ Creators(k, ctx) /\ ctx \in [TCB -> ThreadState(A)] /\ c \in TCB
      /\ {"user", "recycle", "take", "init", "enqueue"} \subseteq At
  BY TasksAreTCBs DEF CoreInv, At
<1>1. ASSUME SameWaiters(k', k),
             \A u \in Tasks : k'.status[u] \cap WaitFlags = k.status[u] \cap WaitFlags,
             NEW th, th.at \in At, ctx[c].at \in At, ctx' = [ctx EXCEPT ![c] = th]
      PROVE  Calm
  <2>1. ctx'[c] = th /\ \A d \in TCB \ {c} : ctx'[d] = ctx[d]
    BY <1>0, <1>1
  <2>2. ASSUME NEW u \in Tasks PROVE SameWait(k', ctx', k, ctx, u)
    BY <1>1, <2>1, TasksAreTCBs DEF SameWait
  <2> QED BY <1>1, <2>2 DEF Calm
<1>2. CASE LOS_TaskCreate(c)
  <2> DEFINE th == Thread("recycle", Idle, FALSE)
  <2>1. ctx[c].at = "user" /\ k' = k /\ ctx' = [ctx EXCEPT ![c] = th] /\ th.at = "recycle"
    BY <1>2 DEF LOS_TaskCreate, InUser, Thread
  <2> HIDE DEF th
  <2> QED BY <1>0, <1>1, <2>1 DEF SameWaiters
<1>3. CASE OsRecycleFinishedTask(c)
  <2>1. CASE k.list[RecycleList] # << >>
    BY <1>3, <2>1, RecycleWaits DEF OsRecycleFinishedTask
  <2>2. CASE k.list[RecycleList] = << >>
    <3> DEFINE th == [ctx[c] EXCEPT !.at = "take"]
    <3>1. k' = k /\ ctx' = [ctx EXCEPT ![c] = th] /\ ctx[c].at = "recycle" /\ th.at = "take"
      BY <1>0, <1>3, <2>2 DEF OsRecycleFinishedTask, ThreadState
    <3> HIDE DEF th
    <3> QED BY <1>0, <1>1, <3>1 DEF SameWaiters
  <2> QED BY <2>1, <2>2
<1>4. CASE TakeFreeTask(c)
  <2>1. CASE k.list[FreeTask] = << >>
    <3>1. /\ k' = k /\ ctx' = [ctx EXCEPT ![c] = UserThread] /\ ctx[c].at = "take"
          /\ UserThread.at = "user"
      BY <1>4, <2>1 DEF TakeFreeTask, UserThread, Thread
    <3> QED BY <1>0, <1>1, <3>1 DEF SameWaiters
  <2>2. CASE k.list[FreeTask] # << >>
    <3>1. PICK t : t = k.list[FreeTask][1]
      OBVIOUS
    <3> DEFINE th == Thread("init", t, FALSE)
    <3>2. /\ k' = LOS_ListDelete(k, t) /\ ctx' = [ctx EXCEPT ![c] = th] /\ ctx[c].at = "take"
          /\ th.at = "init"
      BY <1>4, <2>2, <3>1 DEF TakeFreeTask, Thread
    <3> HIDE DEF th
    <3>3. TakenOff(k', k, FreeTask, t)
      BY <1>0, <2>2, <3>1, <3>2, UnlinkFirstStep
    <3> QED BY <1>0, <1>1, <3>2, <3>3 DEF TakenOff
  <2> QED BY <2>1, <2>2
<1>5. CASE LOS_TaskCreateOnly(c)
  BY <1>5, CreateOnlyWaits
<1>6. CASE LOS_TaskCreateEnQueue(c)
  <2>1. PICK t : t = ctx[c].obj
    OBVIOUS
  <2> DEFINE th == Thread("user", Idle, k.scheduled)
  <2>2. /\ k' = OsSchedTaskEnQueue(k, t) /\ ctx' = [ctx EXCEPT ![c] = th]
        /\ ctx[c].at = "enqueue" /\ th.at = "user"
    BY <1>6, <2>1 DEF LOS_TaskCreateEnQueue, Thread
  <2> HIDE DEF th
  <2>3. t \in Tasks /\ k.status[t] = {"SUSPEND"} /\ KInv(k) /\ ~k.fault
    BY <1>0, <2>1, <2>2 DEF Creators, Holding, Sane
  <2>4. /\ Becomes(k', k, t, (k.status[t] \ {"SUSPEND", "DELAY", "PEND_TIME"}) \cup {"READY"}, k.sort)
        /\ SameWaiters(k', k)
    BY <2>2, <2>3, EnQueueStep
  <2>5. \A u \in Tasks : k'.status[u] \cap WaitFlags = k.status[u] \cap WaitFlags
    BY <2>3, <2>4, TasksAreTCBs DEF Becomes, SameBut, WaitFlags
  <2> QED BY <1>0, <1>1, <2>2, <2>4, <2>5
<1> QED BY <1>2, <1>3, <1>4, <1>5, <1>6 DEF CreateCall

LEMMA NextWaits ==
    ASSUME NEW A, CoreInv(A, k, ctx), Plain, Next
    PROVE  Waits
<1>1. CASE LOS_Start \/ PendSV \/ Tick({}) \/ \E t \in k.sort : Tick({t})
  BY <1>1, KernelWaits
<1>2. CASE OsIdleTask
  BY <1>2, RecycleWaits DEF OsIdleTask, Waits
<1>3. ASSUME NEW c \in TCB, LOS_Schedule(c) PROVE Waits
  <2>1. k' = LOS_ScheduleEffect(k) /\ ctx' = [ctx EXCEPT ![c].win = FALSE] /\ Sane(k)
    BY <1>3 DEF LOS_Schedule, CoreInv
  <2>2. SameTasks(k', k)
    BY <2>1, ScheduleSafe
  <2>3. \A u \in TCB : ctx'[u].at = ctx[u].at /\ ctx'[u].obj = ctx[u].obj
    BY <2>1 DEF CoreInv, ThreadState
  <2> QED BY <2>2, <2>3, TasksAreTCBs DEF SameTasks, Waits, Calm, SameWaiters, SameWait
<1>4. ASSUME NEW c \in Tasks, TaskCall(c) PROVE Waits
  BY <1>4, TaskCallWaits
<1>5. ASSUME NEW c \in Tasks \cup {Isr}, AnyCall(c) PROVE Waits
  BY <1>5, AnyCallWaits
<1>6. ASSUME NEW c \in Tasks \cup {Dummy}, CreateCall(c) PROVE Waits
  BY <1>6, CreateCallWaits DEF Waits
<1> QED BY <1>1, <1>2, <1>3, <1>4, <1>5, <1>6 DEF Next

-----------------------------------------------------------------------------
(***************************************************************************)
(* What calls that wait, wake or return from a wait do to the invariants.  *)
(***************************************************************************)
\* A running thread outside LOS_TaskCreate goes on to another place.  It may wait, end
\* the wait of others, or see priorities change, only if LOS_Schedule comes next.
Moves(A, c, x) ==
    /\ Running(c) /\ ~ctx[c].win /\ ctx[c].at \notin Creating
    /\ Sane(k') /\ SameCtl(k', k)
    /\ ctx' = [ctx EXCEPT ![c] = x] /\ x \in ThreadState(A) /\ x.at \notin Creating \cup {"join"}
    /\ \A u \in Tasks \ {c} :
          \/ /\ k'.status[u] = k.status[u]
             /\ "READY" \notin k.status[u] => Where(k', u) = Where(k, u)
          \/ x.win /\ "PEND" \in k.status[u] /\ "UNUSED" \notin k'.status[u]
    /\ k'.status[c] \cap {"UNUSED", "SUSPEND"} = {}
    /\ Stuck(k') => x.win /\ k.lock = 0
    /\ ~x.win => k'.prio = k.prio

LEMMA MoveKept ==
    ASSUME NEW A, CoreInv(A, k, ctx), NEW c \in Tasks, NEW x, Moves(A, c, x)
    PROVE  StepKeeps(A)
<1> USE DEF Moves
<1>0. /\ Sane(k) /\ Creators(k, ctx) /\ Booting(k) /\ c \in TCB /\ Dummy \notin Tasks
      /\ ctx \in [TCB -> ThreadState(A)] /\ Dummy # c /\ k.run = c /\ ~k.pendsv
  BY TasksAreTCBs, SchedAssumption DEF CoreInv, Running
<1>1. k.scheduled
  BY <1>0 DEF Booting
<1>2. /\ ctx'[c] = x /\ \A d \in TCB \ {c} : ctx'[d] = ctx[d]
      /\ ctx' \in [TCB -> ThreadState(A)]
  BY <1>0
<1>3. /\ k'.run = c /\ k'.lock = k.lock /\ k'.scheduled /\ ~k'.pendsv
  BY <1>0, <1>1 DEF SameCtl
<1>4. FlagsOK(k'.status[c]) /\ PlaceOK(k', c)
  BY SaneFacts
<1>5. "READY" \notin k'.status[c]
  BY <1>3, <1>4 DEF FlagsOK, PlaceOK
<1>6. ASSUME NEW u \in Tasks, Held(ctx, u) PROVE u # c /\ Untouched(k', k, u)
  BY <1>0, <1>6, HeldFacts DEF Untouched
<1>7. Creators(k', ctx')
  <2>1. ASSUME NEW d \in TCB
        PROVE  /\ ctx'[d].at # "join"
               /\ ctx'[d].at \in Creating => ~ctx'[d].win
               /\ ctx'[d].at \in Holding => d # c /\ ctx'[d].obj \in Tasks
               /\ ctx'[d].at = "init" => "UNUSED" \in k'.status[ctx'[d].obj] /\ ~Linked(k', ctx'[d].obj)
               /\ ctx'[d].at = "enqueue" => k'.status[ctx'[d].obj] = {"SUSPEND"}
    <3>1. CASE d = c
      BY <1>2, <3>1 DEF Creating, Holding
    <3>2. CASE d # c
      <4>1. ctx[d].at \in Holding => ctx[d].obj \in Tasks /\ Held(ctx, ctx[d].obj)
        BY <1>0 DEF Creators, Held
      <4>2. ctx[d].at \in Holding => Untouched(k', k, ctx[d].obj)
        BY <1>6, <4>1
      <4> QED BY <1>0, <1>2, <3>2, <4>1, <4>2 DEF Creators, Holding, Untouched, Linked
    <3> QED BY <3>1, <3>2
  <2>2. ASSUME NEW d \in TCB, NEW e \in TCB, ctx'[d].at \in Holding, ctx'[e].at \in Holding,
               ctx'[d].obj = ctx'[e].obj
        PROVE  d = e
    <3>1. d # c /\ e # c
      BY <2>1, <2>2
    <3> QED BY <1>0, <1>2, <2>2, <3>1 DEF Creators
  <2>3. ctx'[Dummy].at = "user"
    BY <1>0, <1>1, <1>2, TasksAreTCBs DEF Creators
  <2> QED BY <2>1, <2>2, <2>3 DEF Creators
<1>8. SwitchDue(k', ctx') /\ Booting(k') /\ RunNotSuspended(k')
  BY <1>2, <1>3 DEF SwitchDue, Booting, RunNotSuspended
<1>9. ASSUME Highest(k, ctx) PROVE Highest(k', ctx')
  BY <1>0, <1>1, <1>2, <1>3, <1>5, <1>9 DEF Highest, Top
<1>10. ASSUME TcbKept(k, ctx) PROVE TcbKept(k', ctx')
  <2> SUFFICES ASSUME NEW t \in Tasks, "UNUSED" \in k'.status[t]
               PROVE  /\ ctx'[t].at = "user"
                      /\ \/ Where(k', t) \in {{FreeTask}, {RecycleList}}
                         \/ \E d \in TCB : ctx'[d].at = "init" /\ ctx'[d].obj = t
    BY DEF TcbKept
  <2>1. t # c /\ t \in TCB /\ "UNUSED" \in k.status[t]
    BY TasksAreTCBs
  <2>2. FlagsOK(k.status[t])
    BY <1>0, SaneFacts
  <2>3. Where(k', t) = Where(k, t) /\ ctx'[t] = ctx[t]
    BY <1>2, <2>1, <2>2 DEF FlagsOK, Blocked
  <2>4. /\ ctx[t].at = "user"
        /\ \/ Where(k, t) \in {{FreeTask}, {RecycleList}}
           \/ \E d \in TCB : ctx[d].at = "init" /\ ctx[d].obj = t
    BY <1>10, <2>1 DEF TcbKept
  <2>5. ASSUME NEW d \in TCB, ctx[d].at = "init" PROVE ctx'[d] = ctx[d]
    BY <1>2, <2>5 DEF Creating
  <2> QED BY <2>3, <2>4, <2>5
<1> QED BY <1>2, <1>7, <1>8, <1>9, <1>10 DEF CoreInv, StepKeeps

\* kk is k with other priorities, ready tasks being moved to other queues.
Reprioritised(kk) ==
    /\ Sane(kk) /\ SameCtl(kk, k) /\ SameWaiters(kk, k)
    /\ \A u \in Tasks : /\ kk.status[u] = k.status[u]
                        /\ "READY" \notin k.status[u] => Where(kk, u) = Where(k, u)

\* What a call that begins a wait does to the waits.
Begins(c, h) ==
    /\ k'.list[h] = Append(k.list[h], c) /\ k.run = c
    /\ \A g \in Blockers : g # h => k'.list[g] = k.list[g]
    /\ \A u \in Tasks \ {c} : k'.status[u] = k.status[u] /\ ctx'[u] = ctx[u]
    /\ k.status[c] \cap {"PEND", "UNUSED", "EXIT"} = {}
    /\ k'.status[c] \cap WaitFlags = (k.status[c] \cap WaitFlags) \cup {"PEND"}
    /\ "EXIT" \notin k'.status[c]
    /\ Where(k', c) = {h}

\* A running thread is on its way.
OnItsWay(c) == Running(c) /\ ~ctx[c].win /\ ctx[c].at \notin Creating

\* A running thread waits on list h, at place x.
LEMMA RunnerWaits ==
    ASSUME NEW A, CoreInv(A, k, ctx), NEW c \in Tasks, OnItsWay(c), k.lock = 0,
           NEW kk, Reprioritised(kk), NEW h \in Blockers, NEW timed \in BOOLEAN,
           k' = OsSchedTaskWait(kk, h, timed), NEW x \in ThreadState(A),
           x.at \notin Creating \cup {"join"}, x.win, ctx' = [ctx EXCEPT ![c] = x]
    PROVE  StepKeeps(A) /\ Begins(c, h) /\ ctx'[c] = x /\ k'.prio = kk.prio
<1>a. /\ c \in TCB /\ c # Idle /\ c # Dummy /\ ctx \in [TCB -> ThreadState(A)]
      /\ k.run = c /\ ~k.pendsv /\ ~k.fault /\ k.scheduled /\ Running(c) /\ ~ctx[c].win
      /\ ctx[c].at \notin Creating
  BY TasksAreTCBs DEF CoreInv, Running, Booting, OnItsWay
<1>0. /\ k.run = c /\ ~k.pendsv /\ ~k.fault
      /\ k.status[c] \cap (Blocked \cup {"DELAY"}) = {}
      /\ c \in TCB /\ ctx \in [TCB -> ThreadState(A)]
  BY <1>a, DummyNeverRuns DEF Stuck
<1>1. Sane(kk) /\ MayWait(kk, c) /\ SameCtl(kk, k) /\ kk.status[c] = k.status[c]
  BY <1>0 DEF Reprioritised, SameCtl, MayWait
<1>1w. NowWaits(k', kk, c, h, timed)
  BY <1>1, WaitSafe
<1>2. /\ Sane(k')
      /\ SameBut(k', kk, c) /\ k'.prio = kk.prio
      /\ k'.status[c] = kk.status[c] \cup (IF timed THEN {"PEND", "PEND_TIME"} ELSE {"PEND"})
      /\ k'.list[h] = Append(kk.list[h], c)
      /\ \A g \in Blockers : g # h => k'.list[g] = kk.list[g]
  BY <1>1w DEF NowWaits
<1>3. SameCtl(k', k)
  BY <1>1, <1>2 DEF SameBut, SameCtl
<1>4. \A u \in Tasks \ {c} : /\ k'.status[u] = k.status[u]
                             /\ "READY" \notin k.status[u] => Where(k', u) = Where(k, u)
  BY <1>2, TasksAreTCBs DEF SameBut, OthersStay, Reprioritised
<1>5. k'.status[c] \cap {"UNUSED", "SUSPEND"} = {}
  BY <1>0, <1>1, <1>2 DEF Blocked
<1>6. ctx'[c] = x /\ \A u \in Tasks \ {c} : ctx'[u] = ctx[u]
  BY <1>0, TasksAreTCBs
<1>7. Moves(A, c, x)
  BY <1>0, <1>2, <1>3, <1>4, <1>5, <1>a DEF Moves
<1>8. Where(k', c) = {h}
  <2>1. "PEND" \in k'.status[c] /\ NodeOK(k', c) /\ h \in Head_
    BY <1>2, HeadsDiffer DEF Sane, KInv, Coherent, Head_
  <2>2. PICK g \in Blockers : Where(k', c) = {g}
    BY <2>1 DEF NodeOK, Has
  <2>3. kk.list[h] \in Seq(Tasks)
    BY <1>1, <2>1 DEF Sane, KInv, KernelState
  <2>4. c \in Range(Append(kk.list[h], c))
    BY <2>3, AppendRange
  <2> QED BY <1>2, <2>1, <2>2, <2>4 DEF Where
<1>9. Begins(c, h)
  <2>1. /\ k'.list[h] = Append(k.list[h], c)
        /\ \A g \in Blockers : g # h => k'.list[g] = k.list[g]
    BY <1>2 DEF Reprioritised, SameWaiters
  <2>2. /\ k'.status[c] \cap WaitFlags = (k.status[c] \cap WaitFlags) \cup {"PEND"}
        /\ "EXIT" \notin k'.status[c] /\ k.status[c] \cap {"PEND", "UNUSED", "EXIT"} = {}
    BY <1>0, <1>1, <1>2 DEF WaitFlags, Blocked
  <2> QED BY <1>0, <1>4, <1>6, <1>8, <2>1, <2>2 DEF Begins
<1> QED BY <1>2, <1>6, <1>7, <1>9, MoveKept

\* The calling task does.
LEMMA WaitKept ==
    ASSUME NEW A, CoreInv(A, k, ctx), NEW c \in Tasks, Calling(c), k.lock = 0,
           NEW kk, Reprioritised(kk), NEW h \in Blockers, NEW timed \in BOOLEAN,
           k' = OsSchedTaskWait(kk, h, timed), NEW x \in ThreadState(A),
           x.at \notin Creating \cup {"join"}, x.win, ctx' = [ctx EXCEPT ![c] = x]
    PROVE  /\ StepKeeps(A) /\ Begins(c, h) /\ ctx'[c] = x /\ k'.prio = kk.prio
           /\ ctx[c].at = "user"
<1>1. k.run = c /\ ~k.pendsv /\ ~k.fault /\ ctx[c].at = "user" /\ ~ctx[c].win
  BY CallerNotStuck
<1>2. OnItsWay(c)
  BY <1>1 DEF Running, Creating, OnItsWay
<1>3. StepKeeps(A) /\ Begins(c, h) /\ ctx'[c] = x /\ k'.prio = kk.prio
  BY <1>2, RunnerWaits
<1> QED BY <1>1, <1>3

\* What a call that ends the wait of t does to the waits.
Ends(t) ==
    /\ Left(k', k, t)
    /\ \A u \in Tasks \ {t} : k'.status[u] = k.status[u]
    /\ \A u \in TCB : ctx'[u].at = ctx[u].at /\ ctx'[u].obj = ctx[u].obj
    /\ k'.status[t] \cap {"PEND", "TIMEOUT", "UNUSED", "EXIT"} = k.status[t] \cap {"TIMEOUT"}

\* A call wakes t, which may be suspended or not switched out yet.
LEMMA WakeKept ==
    ASSUME NEW A, CoreInv(A, k, ctx), NEW c \in Tasks \cup {Isr}, Calling(c),
           NEW kk, Reprioritised(kk), NEW t \in Tasks, "PEND" \in k.status[t],
           Finish(c, OsSchedTaskWake(kk, t), TRUE)
    PROVE  StepKeeps(A) /\ Ends(t) /\ k'.prio = kk.prio
<1> DEFINE w == OsSchedTaskWake(kk, t)
<1>0. /\ Sane(k) /\ Creators(k, ctx) /\ RunNotSuspended(k)
      /\ k.run \in TCB /\ t \in TCB /\ t # Idle
  BY TasksAreTCBs DEF CoreInv, Sane, KInv, KernelState
<1>1. Sane(kk) /\ SameCtl(kk, k) /\ kk.status[t] = k.status[t]
  BY DEF Reprioritised
<1>2. /\ Sane(w) /\ Left(w, kk, t)
      /\ SameBut(w, kk, t) /\ w.prio = kk.prio
      /\ w.status[t] = (kk.status[t] \ {"PEND", "PEND_TIME"})
                          \cup (IF Has(kk, t, {"SUSPEND", "RUNNING"}) THEN {} ELSE {"READY"})
  BY <1>1, WakeSafe
<1>3. Finish(c, w, TRUE)
  OBVIOUS
<1> HIDE DEF w
<1>4. /\ w.run = k.run /\ w.scheduled = k.scheduled /\ w.pendsv = k.pendsv /\ w.lock = k.lock
  BY <1>1, <1>2 DEF SameBut, SameCtl
<1>5. \A u \in Tasks \ {t} : /\ w.status[u] = k.status[u]
                             /\ "READY" \notin k.status[u] => Where(w, u) = Where(k, u)
  BY <1>2, TasksAreTCBs DEF SameBut, OthersStay, Reprioritised
<1>6. FlagsOK(k.status[t]) /\ PlaceOK(k, t)
  BY <1>0, SaneFacts
<1>7. /\ w.status[t] \cap {"PEND", "TIMEOUT", "UNUSED", "EXIT"} = k.status[t] \cap {"TIMEOUT"}
      /\ "UNUSED" \notin k.status[t]
      /\ "SUSPEND" \in w.status[t] => "SUSPEND" \in k.status[t]
      /\ "DELAY" \in w.status[t] => "DELAY" \in k.status[t]
  BY <1>1, <1>2, <1>6 DEF FlagsOK
<1>8. \A u \in Tasks : Held(ctx, u) => Untouched(w, k, u)
  <2>1. ~Held(ctx, t)
    BY <1>0, HeldFacts
  <2> QED BY <1>0, <1>5, <2>1, HeldFacts DEF Untouched
<1>9. RunNotSuspended(w)
  BY <1>0, <1>4, <1>5, <1>7 DEF RunNotSuspended
<1>10. Stuck(w) => Stuck(k) \/ (TRUE /\ w.lock = 0)
  <2>1. CASE k.run \in Tasks
    BY <1>4, <1>5, <1>7, <2>1 DEF Stuck, Blocked
  <2>2. CASE k.run \notin Tasks
    BY <1>0, <1>4, <2>2, TasksAreTCBs, DummyStuck DEF Stuck
  <2> QED BY <2>1, <2>2
<1>11. \A u \in Tasks : "UNUSED" \in w.status[u] =>
          \/ "UNUSED" \in k.status[u] /\ Where(w, u) = Where(k, u)
          \/ ctx[u].at = "user" /\ Where(w, u) \in {{FreeTask}, {RecycleList}}
  <2> SUFFICES ASSUME NEW u \in Tasks, "UNUSED" \in w.status[u]
               PROVE  "UNUSED" \in k.status[u] /\ Where(w, u) = Where(k, u)
    OBVIOUS
  <2>1. u # t
    BY <1>7
  <2>2. FlagsOK(k.status[u])
    BY <1>0, SaneFacts
  <2> QED BY <1>5, <2>1, <2>2 DEF FlagsOK, Blocked
<1>12. /\ CoreInv(A, k', ctx') /\ Finished(c, w, TRUE)
       /\ (k.run \in Tasks /\ ~TRUE /\ w.lock = 0 => k.lock = 0 /\ (Top(k) => Top(w)))
             => (Highest(k, ctx) => Highest(k', ctx'))
       /\ (\A u \in Tasks : "UNUSED" \in w.status[u] =>
             \/ "UNUSED" \in k.status[u] /\ Where(w, u) = Where(k, u)
             \/ ctx[u].at = "user" /\ Where(w, u) \in {{FreeTask}, {RecycleList}})
             => (TcbKept(k, ctx) => TcbKept(k', ctx'))
  BY <1>2, <1>3, <1>4, <1>8, <1>9, <1>10, CallSafe
<1>13. StepKeeps(A)
  BY <1>11, <1>12 DEF StepKeeps
<1>14. Left(w, k, t)
  BY <1>2 DEF Left, Reprioritised, SameWaiters
<1>15. Ends(t)
  BY <1>5, <1>7, <1>12, <1>14 DEF Ends, Finished, SameTasks, Left
<1>16. k'.prio = kk.prio
  BY <1>2, <1>12 DEF Finished, SameTasks
<1> QED BY <1>13, <1>15, <1>16

\* A thread whose wait is over takes back TIMEOUT and returns to its caller.
LEMMA ReturnKept ==
    ASSUME NEW A, At \subseteq A, CoreInv(A, k, ctx), NEW c \in Tasks, Running(c), ~ctx[c].win,
           ctx[c].at \notin Creating, k' = SetStatus(k, c, {"TIMEOUT"}, {}),
           ctx' = [ctx EXCEPT ![c] = UserThread]
    PROVE  /\ StepKeeps(A) /\ k'.list = k.list /\ k'.status[c] = k.status[c] \ {"TIMEOUT"}
           /\ \A u \in Tasks \ {c} : k'.status[u] = k.status[u] /\ ctx'[u] = ctx[u]
           /\ ctx'[c] = UserThread /\ k.status[c] \cap (Blocked \cup {"DELAY"}) = {}
           /\ k'.prio = k.prio
<1>0. /\ Sane(k) /\ KInv(k) /\ ~k.fault /\ c \in TCB /\ c # Idle /\ c # Dummy
      /\ ctx \in [TCB -> ThreadState(A)]
  BY TasksAreTCBs DEF CoreInv, Sane
<1>1. k.scheduled /\ k.run = c
  BY <1>0 DEF CoreInv, Booting, Running
<1>2. k.status[c] \cap (Blocked \cup {"DELAY"}) = {}
  BY <1>0, <1>1, DummyNeverRuns DEF Stuck
<1>3. {} \in FlagSets /\ Harmless({"TIMEOUT"}, {})
  BY DEF FlagSets, Harmless
<1>4. /\ SameBut(k', k, c)
      /\ k'.status[c] = (k.status[c] \ {"TIMEOUT"}) \cup {}
      /\ k'.sort = k.sort /\ k'.prio = k.prio /\ k'.list = k.list
  BY <1>0, <1>3, SetStatusStep
<1>5. FlagsOK(k.status[c]) /\ PlaceOK(k, c) /\ k'.run = k.run
  BY <1>0, <1>4, SaneFacts DEF SameBut, SameCtl
<1>6. TaskSane(k', c)
  BY <1>4, <1>5 DEF TaskSane, FlagsOK, PlaceOK, Timed, Blocked
<1>7. Sane(k')
  BY <1>0, <1>4, <1>6, SameButSane
<1>8. UserThread \in ThreadState(A) /\ UserThread.at = "user" /\ ~UserThread.win
  BY TasksAreTCBs DEF UserThread, Thread, ThreadState, At
<1>9. ~Stuck(k') /\ k'.status[c] \cap {"UNUSED", "SUSPEND"} = {}
  BY <1>1, <1>2, <1>4, <1>5 DEF Stuck, Blocked
<1>10. \A u \in Tasks \ {c} : /\ k'.status[u] = k.status[u]
                              /\ Where(k', u) = Where(k, u)
  BY <1>4, TasksAreTCBs DEF SameBut, OthersStay
<1>11. Moves(A, c, UserThread)
  BY <1>4, <1>7, <1>8, <1>9, <1>10 DEF Moves, SameBut, Creating
<1>12. StepKeeps(A)
  BY <1>11, MoveKept
<1>13. ctx'[c] = UserThread /\ \A u \in Tasks \ {c} : ctx'[u] = ctx[u]
  BY <1>0, TasksAreTCBs
<1> QED BY <1>2, <1>4, <1>10, <1>12, <1>13

\* A running thread returns to its caller.
LEMMA PassKept ==
    ASSUME NEW A, At \subseteq A, CoreInv(A, k, ctx), NEW c \in Tasks, Running(c), ~ctx[c].win,
           ctx[c].at \notin Creating, k' = k, ctx' = [ctx EXCEPT ![c] = UserThread]
    PROVE  /\ StepKeeps(A) /\ ctx'[c] = UserThread /\ \A u \in Tasks \ {c} : ctx'[u] = ctx[u]
           /\ k.status[c] \cap (Blocked \cup {"DELAY"}) = {}
<1>0. /\ Sane(k) /\ c \in TCB /\ c # Idle /\ c # Dummy /\ ctx \in [TCB -> ThreadState(A)]
      /\ k.run = c /\ k.scheduled
  BY TasksAreTCBs DEF CoreInv, Running, Booting
<1>1. ~Stuck(k) /\ k.status[c] \cap (Blocked \cup {"DELAY"}) = {}
  BY <1>0, DummyNeverRuns DEF Stuck
<1>2. UserThread \in ThreadState(A) /\ UserThread.at = "user" /\ ~UserThread.win
  BY TasksAreTCBs DEF UserThread, Thread, ThreadState, At
<1>3. Sane(k') /\ ~Stuck(k') /\ SameCtl(k', k) /\ k'.status[c] \cap {"UNUSED", "SUSPEND"} = {}
  BY <1>0, <1>1 DEF SameCtl, Blocked
<1>4. \A u \in Tasks : k'.status[u] = k.status[u] /\ Where(k', u) = Where(k, u)
  OBVIOUS
<1>5. Moves(A, c, UserThread)
  BY <1>2, <1>3, <1>4 DEF Moves, Creating
<1>6. ctx'[c] = UserThread /\ \A u \in Tasks \ {c} : ctx'[u] = ctx[u]
  BY <1>0, TasksAreTCBs
<1> QED BY <1>1, <1>5, <1>6, MoveKept

\* What waking t does to the waits.
WakesUp(t) ==
    /\ Left(k', k, t)
    /\ \A u \in Tasks \ {t} : k'.status[u] = k.status[u]
    /\ k'.status[t] \cap {"PEND", "TIMEOUT", "UNUSED", "EXIT"} = k.status[t] \cap {"TIMEOUT"}

\* A running thread wakes t and goes on to the LOS_Schedule at the end of its call.
LEMMA HandKept ==
    ASSUME NEW A, At \subseteq A, CoreInv(A, k, ctx), NEW c \in Tasks, Running(c), ~ctx[c].win,
           ctx[c].at \notin Creating, NEW t \in Tasks, "PEND" \in k.status[t],
           k' = OsSchedTaskWake(k, t), ctx' = [ctx EXCEPT ![c] = Thread("user", Idle, TRUE)]
    PROVE  /\ StepKeeps(A) /\ WakesUp(t) /\ t # c /\ k'.lock = k.lock
           /\ ctx'[c] = Thread("user", Idle, TRUE) /\ \A u \in Tasks \ {c} : ctx'[u] = ctx[u]
           /\ k.status[c] \cap (Blocked \cup {"DELAY"}) = {}
<1> DEFINE x == Thread("user", Idle, TRUE)
<1>0. /\ Sane(k) /\ c \in TCB /\ c # Idle /\ c # Dummy /\ ctx \in [TCB -> ThreadState(A)]
      /\ k.run = c /\ k.scheduled
  BY TasksAreTCBs DEF CoreInv, Running, Booting
<1>1. ~Stuck(k) /\ k.status[c] \cap (Blocked \cup {"DELAY"}) = {}
  BY <1>0, DummyNeverRuns DEF Stuck
<1>2. /\ Sane(k') /\ Left(k', k, t) /\ SameBut(k', k, t) /\ k'.prio = k.prio
      /\ k'.status[t] = (k.status[t] \ {"PEND", "PEND_TIME"})
                            \cup (IF Has(k, t, {"SUSPEND", "RUNNING"}) THEN {} ELSE {"READY"})
  BY <1>0, WakeSafe
<1>3. FlagsOK(k.status[t])
  BY <1>0, SaneFacts
<1>4. t # c
  BY <1>1 DEF Blocked
<1>5. /\ k'.status[t] \cap {"PEND", "TIMEOUT", "UNUSED", "EXIT"} = k.status[t] \cap {"TIMEOUT"}
      /\ "UNUSED" \notin k'.status[t]
  BY <1>2, <1>3 DEF FlagsOK
<1>6. \A u \in Tasks \ {t} : /\ k'.status[u] = k.status[u]
                             /\ Where(k', u) = Where(k, u)
  BY <1>2, TasksAreTCBs DEF SameBut, OthersStay
<1>7. /\ SameCtl(k', k) /\ k'.run = c /\ k'.lock = k.lock
      /\ k'.status[c] \cap {"UNUSED", "SUSPEND"} = {} /\ ~Stuck(k')
  BY <1>0, <1>1, <1>2, <1>4, <1>6 DEF SameBut, SameCtl, Stuck, Blocked
<1>8. x \in ThreadState(A) /\ x.at = "user" /\ x.win
  BY TasksAreTCBs DEF Thread, ThreadState, At
<1> HIDE DEF x
<1>9. Moves(A, c, x)
  BY <1>2, <1>5, <1>6, <1>7, <1>8 DEF Moves, Creating, x
<1>10. StepKeeps(A)
  BY <1>9, MoveKept
<1>11. ctx'[c] = x /\ \A u \in Tasks \ {c} : ctx'[u] = ctx[u]
  BY <1>0, TasksAreTCBs DEF x
<1> QED BY <1>1, <1>2, <1>4, <1>5, <1>6, <1>7, <1>10, <1>11 DEF WakesUp, x

-----------------------------------------------------------------------------
(***************************************************************************)
(* The waits of a module whose calls wait at the places P.                 *)
(***************************************************************************)
\* A task pends at P only, on the list of the object it waits for; TIMEOUT is set
\* only from the end of a wait to the return from it.
WaitsAt(P, kk, x) ==
    \A t \in Tasks :
        /\ "UNUSED" \notin kk.status[t] /\ x[t].at \in P => x[t].obj \in WaitObjs
        /\ "PEND" \in kk.status[t] =>
              /\ x[t].at \in P
              /\ "TIMEOUT" \notin kk.status[t]
              /\ t \in Range(kk.list[WaitList(x[t].obj)])
        /\ "UNUSED" \notin kk.status[t] /\ x[t].at \notin P => "TIMEOUT" \notin kk.status[t]

LEMMA BlockerLists ==
    ASSUME NEW kk, Sane(kk), NEW h \in Blockers
    PROVE  kk.list[h] \in Seq(Tasks) /\ NoDup(kk.list[h])
  BY HeadsDiffer DEF Sane, KInv, KernelState, Coherent

\* A waiting task pends, and is on one list of waiting tasks.
LEMMA OnOneList ==
    ASSUME NEW kk, Sane(kk), NEW t \in Tasks, NEW h \in Blockers, t \in Range(kk.list[h])
    PROVE  /\ "PEND" \in kk.status[t] /\ "UNUSED" \notin kk.status[t]
           /\ \A g \in Blockers : g # h => t \notin Range(kk.list[g])
<1>0. KInv(kk) /\ ~kk.fault /\ NodeOK(kk, t) /\ FlagsOK(kk.status[t])
  BY SaneFacts DEF Coherent
<1>1. "PEND" \in kk.status[t]
  BY <1>0, LeftIsSame
<1>2. PICK g \in Blockers : Where(kk, t) = {g}
  BY <1>0, <1>1 DEF NodeOK, Has
<1>3. \A f \in Blockers : t \in Range(kk.list[f]) => f = g
  BY <1>2, HeadsDiffer DEF Where
<1> QED BY <1>0, <1>1, <1>3 DEF FlagsOK

\* The head of a list of waiting tasks.
LEMMA FirstWaiter ==
    ASSUME NEW kk, Sane(kk), NEW h \in Blockers, kk.list[h] # << >>
    PROVE  /\ kk.list[h][1] \in Tasks /\ kk.list[h][1] \in Range(kk.list[h])
           /\ "PEND" \in kk.status[kk.list[h][1]]
<1>1. kk.list[h][1] \in Tasks /\ kk.list[h][1] \in Range(kk.list[h])
  BY BlockerLists, FirstOfList
<1> QED BY <1>1, OnOneList

LEMMA TailIsWithout ==
    ASSUME NEW S, NEW s \in Seq(S), NoDup(s), s # << >>
    PROVE  Without(s, s[1]) = Tail(s)
<1>1. Len(s) \in Nat /\ Len(s) > 0 /\ DOMAIN s = 1..Len(s) /\ 1 \in 1..Len(s)
  BY LenProperties, EmptySeq
<1>2. s[1] \in Range(s)
  BY FirstOfList
<1>3. IndexIn(s, s[1]) = 1
  BY <1>1 DEF IndexIn, NoDup
<1>4. Without(s, s[1]) = [j \in 1..(Len(s) - 1) |-> s[j + 1]]
  BY <1>1, <1>2, <1>3 DEF Without
<1>5. /\ Tail(s) \in Seq(S) /\ Len(Tail(s)) = Len(s) - 1
      /\ \A j \in 1..(Len(s) - 1) : Tail(s)[j] = s[j + 1]
  BY <1>1, HeadTailProperties
<1>6. Without(s, s[1]) \in Seq(S)
  BY WithoutType
<1>7. Len(Without(s, s[1])) = Len(s) - 1
  BY <1>1, <1>4, <1>6, LenProperties
<1> QED BY <1>1, <1>4, <1>5, <1>6, <1>7, SeqEqual

\* The waits of another module go on through every step of Task.
LEMMA WaitsGoOn ==
    ASSUME NEW P, P \cap At = {}, NEW A, CoreInv(A, k, ctx), CoreInv(A, k', ctx'),
           WaitsAt(P, k, ctx), Waits
    PROVE  WaitsAt(P, k', ctx')
<1>0. /\ Sane(k) /\ Sane(k') /\ "user" \notin P
  BY DEF CoreInv, At
<1>1. ASSUME NEW u \in Tasks, SameWait(k', ctx', k, ctx, u),
             \A h \in Blockers : u \in Range(k.list[h]) => u \in Range(k'.list[h])
      PROVE  /\ "UNUSED" \notin k'.status[u] /\ ctx'[u].at \in P => ctx'[u].obj \in WaitObjs
             /\ "PEND" \in k'.status[u] =>
                   /\ ctx'[u].at \in P
                   /\ "TIMEOUT" \notin k'.status[u]
                   /\ u \in Range(k'.list[WaitList(ctx'[u].obj)])
             /\ "UNUSED" \notin k'.status[u] /\ ctx'[u].at \notin P => "TIMEOUT" \notin k'.status[u]
  <2>1. CASE k'.status[u] \cap WaitFlags = k.status[u] \cap WaitFlags
    <3>1. /\ "PEND" \in k'.status[u] <=> "PEND" \in k.status[u]
          /\ "TIMEOUT" \in k'.status[u] <=> "TIMEOUT" \in k.status[u]
          /\ "UNUSED" \in k'.status[u] <=> "UNUSED" \in k.status[u]
      BY <2>1 DEF WaitFlags
    <3>2. CASE ctx'[u].at = ctx[u].at /\ ctx'[u].obj = ctx[u].obj
      <4>1. FlagsOK(k.status[u])
        BY <1>0, SaneFacts
      <4>2. "PEND" \in k.status[u] => WaitList(ctx[u].obj) \in Blockers
        BY <4>1, HeadsDiffer DEF WaitsAt, FlagsOK
      <4> QED BY <1>1, <3>1, <3>2, <4>2 DEF WaitsAt
    <3>3. CASE ctx'[u].at \in At /\ ctx[u].at \in At
      BY <3>1, <3>3 DEF WaitsAt
    <3>4. CASE "UNUSED" \in k.status[u] /\ "UNUSED" \in k'.status[u]
      <4>1. FlagsOK(k'.status[u])
        BY <1>0, SaneFacts
      <4> QED BY <3>4, <4>1 DEF FlagsOK
    <3> QED BY <1>1, <3>1, <3>2, <3>3, <3>4 DEF SameWait
  <2>2. CASE "UNUSED" \in k'.status[u]
    <3>1. FlagsOK(k'.status[u])
      BY <1>0, SaneFacts
    <3> QED BY <2>2, <3>1 DEF FlagsOK
  <2>3. CASE k'.status[u] = {"SUSPEND"} /\ ctx'[u].at = "user"
    BY <1>0, <2>3
  <2> QED BY <1>1, <2>1, <2>2, <2>3 DEF SameWait
<1>2. CASE Calm
  BY <1>1, <1>2 DEF Calm, SameWaiters, WaitsAt
<1>3. ASSUME NEW t \in Tasks, OthersWait(t), NEW u \in Tasks, u # t
      PROVE  \A h \in Blockers : u \in Range(k.list[h]) => u \in Range(k'.list[h])
  BY <1>0, <1>3, BlockerLists, WithoutRange DEF OthersWait, Left
<1>4. ASSUME NEW t \in Tasks, TimesOut(t) PROVE WaitsAt(P, k', ctx')
  <2>1. "TIMEOUT" \in k'.status[t] /\ k'.status[t] \cap {"PEND", "UNUSED"} = {}
    BY <1>4 DEF TimesOut, WaitFlags
  <2>2. ctx'[t] = ctx[t] /\ ctx[t].at \in P /\ "UNUSED" \notin k.status[t] /\ OthersWait(t)
    BY <1>0, <1>4, SaneFacts DEF TimesOut, WaitsAt, FlagsOK
  <2>3. ctx'[t].at \in P /\ ctx'[t].obj \in WaitObjs
    BY <2>2 DEF WaitsAt
  <2> QED BY <1>1, <1>3, <2>1, <2>2, <2>3 DEF WaitsAt, OthersWait
<1>5. ASSUME NEW t \in Tasks, Dies(t) PROVE WaitsAt(P, k', ctx')
  <2>1. OthersWait(t) /\ "UNUSED" \in k'.status[t] /\ FlagsOK(k'.status[t])
    BY <1>0, <1>5, SaneFacts DEF Dies
  <2> QED BY <1>1, <1>3, <2>1 DEF WaitsAt, OthersWait, FlagsOK
<1> QED BY <1>2, <1>4, <1>5 DEF Waits

LEMMA WaitBegins ==
    ASSUME NEW P, P \cap At = {}, NEW A, CoreInv(A, k, ctx), CoreInv(A, k', ctx'),
           WaitsAt(P, k, ctx), NEW c \in Tasks, NEW o \in WaitObjs, Begins(c, WaitList(o)),
           ctx[c].at = "user" \/ ctx[c].at \notin P, ctx'[c].at \in P, ctx'[c].obj = o
    PROVE  WaitsAt(P, k', ctx')
<1>0. Sane(k) /\ Sane(k') /\ "user" \notin P /\ WaitList(o) \in Blockers
  BY HeadsDiffer DEF CoreInv, At
<1>1. "TIMEOUT" \notin k'.status[c] /\ c \in Range(k'.list[WaitList(o)])
  <2>1. "TIMEOUT" \notin k.status[c]
    BY <1>0 DEF WaitsAt, Begins
  <2>2. c \in Range(k'.list[WaitList(o)])
    BY <1>0, BlockerLists, AppendRange DEF Begins
  <2> QED BY <2>1, <2>2 DEF Begins, WaitFlags
<1>2. ASSUME NEW u \in Tasks, u # c
      PROVE  /\ k'.status[u] = k.status[u] /\ ctx'[u] = ctx[u]
             /\ \A h \in Blockers : u \in Range(k.list[h]) => u \in Range(k'.list[h])
  <2>1. ASSUME NEW h \in Blockers, u \in Range(k.list[h]) PROVE u \in Range(k'.list[h])
    <3>1. CASE h = WaitList(o)
      <4>1. k'.list[h] = Append(k.list[h], c) /\ k.list[h] \in Seq(Tasks)
        BY <1>0, <3>1, BlockerLists DEF Begins
      <4> QED BY <2>1, <4>1, AppendRange
    <3>2. CASE h # WaitList(o)
      BY <2>1, <3>2 DEF Begins
    <3> QED BY <3>1, <3>2
  <2> QED BY <1>2, <2>1 DEF Begins
<1>3. ASSUME NEW u \in Tasks, u # c, "PEND" \in k.status[u]
      PROVE  WaitList(ctx[u].obj) \in Blockers
  <2>1. FlagsOK(k.status[u])
    BY <1>0, SaneFacts
  <2> QED BY <1>3, <2>1, HeadsDiffer DEF WaitsAt, FlagsOK
<1> QED BY <1>1, <1>2, <1>3 DEF WaitsAt

LEMMA WaitEnds ==
    ASSUME NEW P, NEW A, CoreInv(A, k, ctx), CoreInv(A, k', ctx'),
           WaitsAt(P, k, ctx), NEW t \in Tasks, "PEND" \in k.status[t], Ends(t)
    PROVE  WaitsAt(P, k', ctx')
<1>0. Sane(k) /\ Sane(k')
  BY DEF CoreInv
<1>1. FlagsOK(k.status[t])
  BY <1>0, SaneFacts
<1>2. k'.status[t] \cap {"PEND", "TIMEOUT", "UNUSED"} = {} /\ "UNUSED" \notin k.status[t]
  BY <1>1 DEF WaitsAt, Ends, FlagsOK
<1>3. ASSUME NEW u \in Tasks, u # t
      PROVE  /\ k'.status[u] = k.status[u]
             /\ \A h \in Blockers : u \in Range(k.list[h]) => u \in Range(k'.list[h])
  BY <1>0, <1>3, BlockerLists, WithoutRange DEF Ends, Left
<1>4. ASSUME NEW u \in Tasks, u # t, "PEND" \in k.status[u]
      PROVE  WaitList(ctx[u].obj) \in Blockers
  <2>1. FlagsOK(k.status[u])
    BY <1>0, SaneFacts
  <2> QED BY <1>4, <2>1, HeadsDiffer DEF WaitsAt, FlagsOK
<1>5. \A u \in Tasks : ctx'[u].at = ctx[u].at /\ ctx'[u].obj = ctx[u].obj
  BY TasksAreTCBs DEF Ends
<1> QED BY <1>2, <1>3, <1>4, <1>5 DEF WaitsAt

LEMMA WaitReturns ==
    ASSUME NEW P, P \cap At = {}, WaitsAt(P, k, ctx), NEW c \in Tasks, k'.list = k.list,
           k'.status[c] = k.status[c] \ {"TIMEOUT"}, "PEND" \notin k.status[c],
           \A u \in Tasks \ {c} : k'.status[u] = k.status[u] /\ ctx'[u] = ctx[u],
           ctx'[c] = UserThread
    PROVE  WaitsAt(P, k', ctx')
<1>1. ctx'[c].at \notin P
  BY DEF UserThread, Thread, At
<1> QED BY <1>1 DEF WaitsAt

\* Where a task that pends waits.
LEMMA WhereItWaits ==
    ASSUME NEW P, Sane(k), WaitsAt(P, k, ctx), NEW t \in Tasks, "PEND" \in k.status[t]
    PROVE  /\ ctx[t].at \in P /\ ctx[t].obj \in WaitObjs /\ "TIMEOUT" \notin k.status[t]
           /\ t \in Range(k.list[WaitList(ctx[t].obj)])
           /\ \A o \in WaitObjs : t \in Range(k.list[WaitList(o)]) => o = ctx[t].obj
<1>1. "UNUSED" \notin k.status[t]
  BY SaneFacts DEF FlagsOK
<1>2. /\ ctx[t].at \in P /\ ctx[t].obj \in WaitObjs /\ "TIMEOUT" \notin k.status[t]
      /\ t \in Range(k.list[WaitList(ctx[t].obj)])
  BY <1>1 DEF WaitsAt
<1>3. \A o \in WaitObjs : WaitList(o) \in Blockers
  BY HeadsDiffer
<1>4. \A o \in WaitObjs : o # ctx[t].obj => WaitList(o) # WaitList(ctx[t].obj)
  BY DEF WaitList
<1>5. ASSUME NEW o \in WaitObjs, t \in Range(k.list[WaitList(o)]) PROVE o = ctx[t].obj
  <2>1. \A g \in Blockers : g # WaitList(o) => t \notin Range(k.list[g])
    BY <1>3, <1>5, OnOneList
  <2> QED BY <1>2, <1>3, <1>4, <2>1
<1> QED BY <1>2, <1>5

LEMMA NothingLeft ==
    ASSUME NEW t, Left(k', k, t)
    PROVE  \A h \in Blockers : k.list[h] = << >> => k'.list[h] = << >>
<1>1. Without(<< >>, t) = << >>
  BY DEF Without, Range
<1> QED BY <1>1 DEF Left

\* The steps of Task put nobody on a list of waiting tasks.
LEMMA ListsShrink ==
    ASSUME Sane(k), Waits
    PROVE  \A h \in Blockers : /\ k.list[h] = << >> => k'.list[h] = << >>
                               /\ Range(k'.list[h]) \subseteq Range(k.list[h])
<1>1. CASE Calm
  BY <1>1 DEF Calm, SameWaiters
<1>2. ASSUME NEW t \in Tasks, Left(k', k, t)
      PROVE  \A h \in Blockers : /\ k.list[h] = << >> => k'.list[h] = << >>
                                 /\ Range(k'.list[h]) \subseteq Range(k.list[h])
  <2>1. \A h \in Blockers : Range(Without(k.list[h], t)) \subseteq Range(k.list[h])
    BY BlockerLists, WithoutRange
  <2> QED BY <1>2, <2>1, NothingLeft DEF Left
<1> QED BY <1>1, <1>2 DEF Waits, TimesOut, Dies, OthersWait
=============================================================================
