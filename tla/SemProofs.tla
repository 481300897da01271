----------------------------- MODULE SemProofs -----------------------------
(***************************************************************************)
(* Semaphores of any number, used by any number of tasks: the kernel with  *)
(* them still does not fault and still runs the highest ready task, counts *)
(* and waiters agree, and los_sem.c implements the semaphore of module     *)
(* Semaphore.                                                              *)
(*                                                                         *)
(* The inductive invariant is that of TaskProofs, with the wait of         *)
(* LOS_SemPend as one more place a thread may be at; WaitsAt, which ties   *)
(* PEND and TIMEOUT to that place and to the list the task is on; and      *)
(* SemData, which adds to SemInv that nobody waits for an unused block.    *)
(***************************************************************************)
EXTENDS Sem, TaskProofs

SemAt == At \cup {"sem"}

SemData(kk, sm, un) ==
    /\ sm \in [Sems -> [used : BOOLEAN, count : 0..MaxCount, max : 0..MaxCount]]
    /\ un \in Seq(Sems) /\ NoDup(un)
    /\ \A s \in Sems : /\ sm[s].count <= sm[s].max
                       /\ s \in Range(un) <=> ~sm[s].used
                       /\ sm[s].count > 0 \/ ~sm[s].used => kk.list[WaitList(s)] = << >>

SemSafe ==
    /\ CoreInv(SemAt, k, ctx)
    /\ Highest(k, ctx)
    /\ WaitsAt({"sem"}, k, ctx)
    /\ SemData(k, sem, unusedSem)

LEMMA SemPlaces == {"sem"} \cap At = {} /\ At \subseteq SemAt /\ "sem" \in SemAt
  BY DEF At, SemAt

\* Lists of waiting tasks that only get shorter keep the data sound.
LEMMA SemDataKept ==
    ASSUME SemData(k, sem, unusedSem), sem' = sem, unusedSem' = unusedSem,
           \A h \in Blockers : k.list[h] = << >> => k'.list[h] = << >>
    PROVE  SemData(k', sem', unusedSem')
<1>1. \A s \in Sems : WaitList(s) \in Blockers
  BY HeadsDiffer DEF Sems
<1> QED BY <1>1 DEF SemData

LEMMA TaskStepKept ==
    ASSUME SemSafe, Plain, Next, UNCHANGED <<sem, unusedSem>>
    PROVE  SemSafe' /\ Waits
<1>1. CoreInv(SemAt, k, ctx) /\ Highest(k, ctx) /\ WaitsAt({"sem"}, k, ctx)
  BY DEF SemSafe
<1>2. StepKeeps(SemAt) /\ Waits
  BY <1>1, SemPlaces, NextKept, NextWaits
<1>3. CoreInv(SemAt, k', ctx') /\ Highest(k', ctx')
  BY <1>1, <1>2 DEF StepKeeps
<1>4. WaitsAt({"sem"}, k', ctx')
  BY <1>1, <1>2, <1>3, SemPlaces, WaitsGoOn
<1>5. \A h \in Blockers : k.list[h] = << >> => k'.list[h] = << >>
  BY <1>1, <1>2, ListsShrink DEF CoreInv
<1>6. SemData(k', sem', unusedSem')
  BY <1>5, SemDataKept DEF SemSafe
<1> QED BY <1>2, <1>3, <1>4, <1>6 DEF SemSafe

LEMMA SemCreateKept ==
    ASSUME SemSafe, NEW c \in Tasks \cup {Isr}, NEW max \in {OS_SEM_BINARY_MAX_COUNT, MaxCount},
           NEW n \in 0..MaxCount, OsSemCreate(c, n, max)
    PROVE  SemSafe'
<1> DEFINE s == unusedSem[1]
<1>0. /\ SemData(k, sem, unusedSem) /\ k' = k /\ ctx' = ctx /\ n <= max /\ unusedSem # << >>
      /\ sem' = [sem EXCEPT ![s] = [used |-> TRUE, count |-> n, max |-> max]]
      /\ unusedSem' = Tail(unusedSem) /\ unusedSem \in Seq(Sems) /\ NoDup(unusedSem)
  BY DEF SemSafe, OsSemCreate, SemData
<1>1. max \in 0..MaxCount
  BY SemAssumption DEF OS_SEM_BINARY_MAX_COUNT
<1>2. s \in Sems /\ s \in Range(unusedSem)
  BY <1>0, FirstOfList
<1>3. unusedSem' = Without(unusedSem, s)
  BY <1>0, TailIsWithout
<1>4. unusedSem' \in Seq(Sems) /\ NoDup(unusedSem') /\ Range(unusedSem') = Range(unusedSem) \ {s}
  <2>1. Without(unusedSem, s) \in Seq(Sems)
    BY <1>0, WithoutType
  <2>2. /\ Range(Without(unusedSem, s)) = Range(unusedSem) \ {s}
        /\ NoDup(Without(unusedSem, s))
    BY <1>0, WithoutRange
  <2> QED BY <1>3, <2>1, <2>2
<1> HIDE DEF s
<1>5. SemData(k', sem', unusedSem')
  BY <1>0, <1>1, <1>2, <1>4 DEF SemData
<1> QED BY <1>0, <1>5 DEF SemSafe

LEMMA SemDeleteKept ==
    ASSUME SemSafe, NEW c \in Tasks \cup {Isr}, NEW s \in Sems, LOS_SemDelete(c, s)
    PROVE  SemSafe'
<1>0. /\ SemData(k, sem, unusedSem) /\ k' = k /\ ctx' = ctx /\ sem[s].used
      /\ k.list[WaitList(s)] = << >> /\ sem' = [sem EXCEPT ![s].used = FALSE]
      /\ unusedSem' = <<s>> \o unusedSem /\ unusedSem \in Seq(Sems) /\ NoDup(unusedSem)
  BY DEF SemSafe, LOS_SemDelete, SemData
<1>1. s \notin Range(unusedSem)
  BY <1>0 DEF SemData
<1>2. /\ unusedSem' \in Seq(Sems) /\ NoDup(unusedSem')
      /\ Range(unusedSem') = Range(unusedSem) \cup {s}
  BY <1>0, <1>1, PrependRange
<1>3. SemData(k', sem', unusedSem')
  BY <1>0, <1>2 DEF SemData
<1> QED BY <1>0, <1>3 DEF SemSafe

LEMMA SetCountKept ==
    ASSUME SemSafe, NEW s \in Sems, NEW n \in 0..MaxCount, n <= sem[s].max, SetCount(s, n),
           n > 0 => k.list[WaitList(s)] = << >>, UNCHANGED <<k, ctx, unusedSem>>
    PROVE  SemSafe'
<1>0. /\ SemData(k, sem, unusedSem) /\ k' = k /\ ctx' = ctx /\ unusedSem' = unusedSem
      /\ sem' = [sem EXCEPT ![s].count = n]
  BY DEF SemSafe, SetCount
<1>1. SemData(k', sem', unusedSem')
  BY <1>0 DEF SemData
<1> QED BY <1>0, <1>1 DEF SemSafe

LEMMA SemPendKept ==
    ASSUME SemSafe, NEW c \in Tasks, NEW s \in Sems, LOS_SemPend(c, s)
    PROVE  /\ SemSafe'
           /\ sem[s].count = 0 => Begins(c, WaitList(s)) /\ ctx'[c] = Thread("sem", s, TRUE)
<1>0. /\ CoreInv(SemAt, k, ctx) /\ Highest(k, ctx) /\ WaitsAt({"sem"}, k, ctx) /\ Sane(k)
      /\ SemData(k, sem, unusedSem) /\ Caller(c, "sempend") /\ k.lock = 0 /\ sem[s].used
      /\ unusedSem' = unusedSem
      /\ sem[s].count \in 0..MaxCount /\ sem[s].max \in 0..MaxCount /\ sem[s].count <= sem[s].max
  BY DEF SemSafe, LOS_SemPend, CoreInv, SemData
<1>1. (sem[s].count > 0 \/ sem[s].count = 0) /\ ~(sem[s].count > 0 /\ sem[s].count = 0)
  BY <1>0, SemAssumption
<1>2. CASE sem[s].count > 0
  <2>1. SetCount(s, sem[s].count - 1) /\ UNCHANGED <<k, ctx>>
    BY <1>1, <1>2 DEF LOS_SemPend
  <2>3. k.list[WaitList(s)] = << >>
    BY <1>0, <1>2 DEF SemData
  <2>2. sem[s].count - 1 \in 0..MaxCount /\ sem[s].count - 1 <= sem[s].max
    BY <1>0, <1>2, SemAssumption
  <2> QED BY <1>0, <1>1, <1>2, <2>1, <2>2, <2>3, SetCountKept
<1>3. CASE sem[s].count = 0
  <2>1. PICK timed \in BOOLEAN : k' = OsSchedTaskWait(k, WaitList(s), timed)
    BY <1>1, <1>3 DEF LOS_SemPend
  <2>2. ctx' = [ctx EXCEPT ![c] = Thread("sem", s, TRUE)] /\ sem' = sem
    BY <1>1, <1>3 DEF LOS_SemPend
  <2>3. Reprioritised(k)
    BY <1>0 DEF Reprioritised, SameCtl, SameWaiters
  <2>4. /\ Thread("sem", s, TRUE) \in ThreadState(SemAt) /\ Thread("sem", s, TRUE).win
        /\ Thread("sem", s, TRUE).at = "sem" /\ Thread("sem", s, TRUE).obj = s
    BY SemPlaces DEF Thread, ThreadState, Sems
  <2>5. "sem" \notin Creating \cup {"join"} /\ WaitList(s) \in Blockers /\ c \in Tasks \cup {Isr}
    BY HeadsDiffer DEF Creating, Sems
  <2>6. Calling(c)
    BY <1>0, <2>5, CallerCalls
  <2>7. /\ StepKeeps(SemAt) /\ Begins(c, WaitList(s)) /\ ctx'[c] = Thread("sem", s, TRUE)
        /\ ctx[c].at = "user"
    <3>1. PICK x \in ThreadState(SemAt) : x = Thread("sem", s, TRUE)
      BY <2>4
    <3>2. PICK h \in Blockers : h = WaitList(s)
      BY <2>5
    <3>3. /\ k' = OsSchedTaskWait(k, h, timed) /\ x.win
          /\ x.at \notin Creating \cup {"join"} /\ ctx' = [ctx EXCEPT ![c] = x]
      BY <2>1, <2>2, <2>4, <2>5, <3>1, <3>2
    <3>4. StepKeeps(SemAt) /\ Begins(c, h) /\ ctx'[c] = x /\ ctx[c].at = "user"
      BY <1>0, <2>3, <2>6, <3>3, WaitKept
    <3> QED BY <3>1, <3>2, <3>4
  <2>8. CoreInv(SemAt, k', ctx') /\ Highest(k', ctx')
    BY <1>0, <2>7 DEF StepKeeps
  <2>9. WaitsAt({"sem"}, k', ctx')
    BY <1>0, <2>4, <2>7, <2>8, SemPlaces, WaitBegins DEF Sems
  <2>10. SemData(k', sem', unusedSem')
    <3>1. \A u \in Sems : u # s => WaitList(u) # WaitList(s) /\ WaitList(u) \in Blockers
      BY HeadsDiffer DEF WaitList, Sems
    <3>2. \A u \in Sems : u # s => k'.list[WaitList(u)] = k.list[WaitList(u)]
      BY <2>7, <3>1 DEF Begins
    <3>3. ASSUME NEW u \in Sems
          PROVE  sem[u].count > 0 \/ ~sem[u].used => k'.list[WaitList(u)] = << >>
      BY <1>0, <1>1, <1>3, <3>2 DEF SemData
    <3> QED BY <1>0, <2>2, <3>3 DEF SemData
  <2> QED BY <1>3, <2>7, <2>8, <2>9, <2>10 DEF SemSafe
<1> QED BY <1>1, <1>2, <1>3

LEMMA SemReturnKept ==
    ASSUME SemSafe, NEW c \in Tasks, SemPendReturn(c)
    PROVE  /\ SemSafe' /\ k'.list = k.list /\ k'.status[c] = k.status[c] \ {"TIMEOUT"}
           /\ \A u \in Tasks \ {c} : k'.status[u] = k.status[u] /\ ctx'[u] = ctx[u]
           /\ ctx'[c] = UserThread /\ k.status[c] \cap (Blocked \cup {"DELAY"}) = {}
<1>0. /\ CoreInv(SemAt, k, ctx) /\ Highest(k, ctx) /\ WaitsAt({"sem"}, k, ctx)
      /\ SemData(k, sem, unusedSem) /\ Running(c) /\ ~ctx[c].win /\ ctx[c].at \notin Creating
      /\ k' = SetStatus(k, c, {"TIMEOUT"}, {}) /\ ctx' = [ctx EXCEPT ![c] = UserThread]
      /\ sem' = sem /\ unusedSem' = unusedSem
  BY DEF SemSafe, SemPendReturn, Creating
<1>1. /\ StepKeeps(SemAt) /\ k'.list = k.list /\ k'.status[c] = k.status[c] \ {"TIMEOUT"}
      /\ \A u \in Tasks \ {c} : k'.status[u] = k.status[u] /\ ctx'[u] = ctx[u]
      /\ ctx'[c] = UserThread /\ k.status[c] \cap (Blocked \cup {"DELAY"}) = {}
  BY <1>0, SemPlaces, ReturnKept
<1>2. WaitsAt({"sem"}, k', ctx')
  <2>1. "PEND" \notin k.status[c]
    BY <1>1 DEF Blocked
  <2> QED BY <1>0, <1>1, <2>1, SemPlaces, WaitReturns
<1>3. SemData(k', sem', unusedSem')
  BY <1>0, <1>1 DEF SemData
<1> QED BY <1>0, <1>1, <1>2, <1>3 DEF SemSafe, StepKeeps

LEMMA SemPostKept ==
    ASSUME SemSafe, NEW c \in Tasks \cup {Isr}, NEW s \in Sems, LOS_SemPost(c, s)
    PROVE  /\ SemSafe'
           /\ k.list[WaitList(s)] # << >> => Ends(k.list[WaitList(s)][1])
<1> DEFINE q == k.list[WaitList(s)]
<1>0. /\ CoreInv(SemAt, k, ctx) /\ Highest(k, ctx) /\ WaitsAt({"sem"}, k, ctx) /\ Sane(k)
      /\ SemData(k, sem, unusedSem) /\ Caller(c, "sempost") /\ sem[s].used
      /\ sem[s].count # sem[s].max /\ unusedSem' = unusedSem
      /\ sem[s].count \in 0..MaxCount /\ sem[s].max \in 0..MaxCount /\ sem[s].count <= sem[s].max
      /\ WaitList(s) \in Blockers
  BY HeadsDiffer DEF SemSafe, LOS_SemPost, CoreInv, SemData, Sems
<1>1. CASE q # << >>
  <2> DEFINE t == q[1]
  <2>1. Finish(c, OsSchedTaskWake(k, t), TRUE) /\ sem' = sem
    BY <1>1 DEF LOS_SemPost
  <2>2. t \in Tasks /\ "PEND" \in k.status[t]
    BY <1>0, <1>1, FirstWaiter
  <2>3. Reprioritised(k) /\ Calling(c)
    BY <1>0, CallerCalls DEF Reprioritised, SameCtl, SameWaiters
  <2>4. StepKeeps(SemAt) /\ Ends(t)
    BY <1>0, <2>1, <2>2, <2>3, WakeKept
  <2>5. CoreInv(SemAt, k', ctx') /\ Highest(k', ctx')
    BY <1>0, <2>4 DEF StepKeeps
  <2>6. WaitsAt({"sem"}, k', ctx')
    BY <1>0, <2>2, <2>4, <2>5, WaitEnds
  <2>7. SemData(k', sem', unusedSem')
    BY <1>0, <2>1, <2>4, NothingLeft, SemDataKept DEF Ends
  <2> QED BY <2>4, <2>5, <2>6, <2>7 DEF SemSafe
<1>2. CASE q = << >>
  <2>1. SetCount(s, sem[s].count + 1) /\ UNCHANGED <<k, ctx>>
    BY <1>2 DEF LOS_SemPost
  <2>2. sem[s].count + 1 \in 0..MaxCount /\ sem[s].count + 1 <= sem[s].max
    BY <1>0, SemAssumption
  <2>3. SemSafe'
    BY <1>0, <1>2, <2>1, <2>2, SetCountKept
  <2> QED BY <1>2, <2>3
<1> QED BY <1>1, <1>2

LEMMA SemInitSafe ==
    ASSUME SemInit
    PROVE  SemSafe
<1>1. CoreInv(At, k, ctx) /\ Highest(k, ctx)
  BY InitSafe DEF SemInit
<1>2. CoreInv(SemAt, k, ctx)
  <2>1. ctx \in [TCB -> ThreadState(SemAt)]
    BY <1>1, SemPlaces DEF CoreInv, ThreadState
  <2> QED BY <1>1, <2>1 DEF CoreInv
<1>3. WaitsAt({"sem"}, k, ctx) /\ \A h \in Blockers : k.list[h] = << >>
  <2>1. PICK free \in [1..Cardinality(Tasks) -> Tasks] : k = InitialKernel(free)
    BY DEF SemInit, Init
  <2>2. /\ \A t \in Tasks : k.status[t] = {"UNUSED"}
        /\ k.list = [h \in Head_ |-> IF h = FreeTask THEN free ELSE << >>]
    BY <2>1, TasksAreTCBs, SchedAssumption DEF InitialKernel
  <2>3. \A h \in Blockers : k.list[h] = << >>
    BY <2>2, HeadsDiffer
  <2> QED BY <2>2, <2>3 DEF WaitsAt
<1>4. SemData(k, sem, unusedSem)
  <2>1. PICK q \in [1..Cardinality(Sems) -> Sems] : Range(q) = Sems /\ NoDup(q) /\ unusedSem = q
    BY DEF SemInit, OsSemInit
  <2>2. sem = [s \in Sems |-> [used |-> FALSE, count |-> 0, max |-> 0]]
    BY DEF SemInit, OsSemInit
  <2>3. unusedSem \in Seq(Sems)
    <3>1. Cardinality(Sems) \in Nat
      BY SemAssumption, FS_CardinalityType DEF Sems
    <3> QED BY <2>1, <3>1
  <2>4. \A s \in Sems : WaitList(s) \in Blockers
    BY HeadsDiffer DEF Sems
  <2> QED BY <1>3, <2>1, <2>2, <2>3, <2>4, SemAssumption DEF SemData
<1> QED BY <1>1, <1>2, <1>3, <1>4 DEF SemSafe

\* The invariant holds in every reachable state.
THEOREM SemSafeAlways == Plain => (SemSpec => []SemSafe)
<1> SUFFICES ASSUME Plain PROVE SemSpec => []SemSafe
  OBVIOUS
<1>1. SemInit => SemSafe
  BY SemInitSafe
<1>2. SemSafe /\ [SemNext]_<<k, ctx, sem, unusedSem>> => SemSafe'
  <2> SUFFICES ASSUME SemSafe, [SemNext]_<<k, ctx, sem, unusedSem>> PROVE SemSafe'
    OBVIOUS
  <2>1. CASE Next /\ UNCHANGED <<sem, unusedSem>>
    BY <2>1, TaskStepKept
  <2>2. ASSUME NEW c \in Tasks, SemPendReturn(c) PROVE SemSafe'
    BY <2>2, SemReturnKept
  <2>3. ASSUME NEW c \in Tasks, NEW s \in Sems, LOS_SemPend(c, s) PROVE SemSafe'
    BY <2>3, SemPendKept
  <2>4. ASSUME NEW c \in Tasks \cup {Isr}, NEW max \in {OS_SEM_BINARY_MAX_COUNT, MaxCount},
               NEW n \in 0..MaxCount, OsSemCreate(c, n, max)
        PROVE  SemSafe'
    BY <2>4, SemCreateKept
  <2>5. ASSUME NEW c \in Tasks \cup {Isr}, NEW s \in Sems, LOS_SemDelete(c, s) PROVE SemSafe'
    BY <2>5, SemDeleteKept
  <2>6. ASSUME NEW c \in Tasks \cup {Isr}, NEW s \in Sems, LOS_SemPost(c, s) PROVE SemSafe'
    BY <2>6, SemPostKept
  <2>7. CASE UNCHANGED <<k, ctx, sem, unusedSem>>
    BY <2>7 DEF SemSafe
  <2> QED BY <2>1, <2>2, <2>3, <2>4, <2>5, <2>6, <2>7 DEF SemNext
<1> QED BY <1>1, <1>2, PTL DEF SemSpec

\* Semaphores do not break the kernel: no assertion of the scheduler fails and every
\* list node is met where it is expected, whatever posts, waits, timeouts and
\* deletions coincide.
THEOREM SemNeverFaults == Plain => (SemSpec => []NoFault)
<1> SUFFICES ASSUME Plain PROVE SemSpec => []NoFault
  OBVIOUS
<1>1. SemSafe => NoFault
  BY DEF SemSafe, CoreInv, Sane, NoFault
<1>2. SemSpec => []SemSafe
  BY SemSafeAlways
<1> QED BY <1>1, <1>2, PTL

\* Every post that wakes a task ends in LOS_Schedule: application code still runs only
\* while no ready task has a higher priority.
THEOREM SemRunsHighest == Plain => (SemSpec => []RunHighest)
<1> SUFFICES ASSUME Plain PROVE SemSpec => []RunHighest
  OBVIOUS
<1>1. SemSafe => RunHighest
  <2> SUFFICES ASSUME SemSafe, NEW t \in Tasks, NEW r \in Tasks, InUser(t), k.lock = 0,
                      Has(k, r, {"READY"})
               PROVE  k.prio[t] <= k.prio[r]
    BY DEF RunHighest
  <2>1. k.run = t /\ ~k.pendsv /\ ~ctx[t].win /\ t # Dummy
    BY TasksAreTCBs DEF InUser, Running
  <2>2. k.scheduled
    BY <2>1 DEF SemSafe, CoreInv, Booting
  <2>3. Top(k)
    BY <2>1, <2>2 DEF SemSafe, Highest
  <2> QED BY <2>1, <2>3 DEF Top, Has
<1>2. SemSpec => []SemSafe
  BY SemSafeAlways
<1> QED BY <1>1, <1>2, PTL

\* Counts stay within their limits, no token is kept while a task waits for it, and the
\* list of unused control blocks has each unused block once.
THEOREM SemaphoresSound == Plain => (SemSpec => []SemInv)
<1> SUFFICES ASSUME Plain PROVE SemSpec => []SemInv
  OBVIOUS
<1>1. SemSafe => SemInv
  BY DEF SemSafe, CoreInv, Sane, KInv, SemAt, SemData, SemInv, SemTypeOK, NoTokenWhileWaiting
<1>2. SemSpec => []SemSafe
  BY SemSafeAlways
<1> QED BY <1>1, <1>2, PTL

-----------------------------------------------------------------------------
(***************************************************************************)
(* The refinement.  SemVal, SemQueue, SemGot and SemLate are what module   *)
(* Sem substitutes for the variables of Semaphore.                         *)
(***************************************************************************)
SemVal == [s \in Sems |-> sem[s].count]

SemQueue == [s \in Sems |-> k.list[WaitList(s)]]

SemGot == [s \in Sems |-> {t \in Decided(s) : ~Has(k, t, {"TIMEOUT"})}]

SemLate == [s \in Sems |-> {t \in Decided(s) : Has(k, t, {"TIMEOUT"})}]

\* Thread t is inside LOS_SemPend(s) and has been given a token, or has timed out.
Given(kk, x, s, t) == x[t].at = "sem" /\ x[t].obj = s /\ kk.status[t] \cap WaitFlags = {}

TooLate(kk, x, s, t) ==
    x[t].at = "sem" /\ x[t].obj = s /\ kk.status[t] \cap WaitFlags = {"TIMEOUT"}

LEMMA Results ==
    ASSUME Sane(k), Sane(k')
    PROVE  \A s \in Sems :
              /\ SemGot[s] = {t \in Tasks : Given(k, ctx, s, t)}
              /\ SemLate[s] = {t \in Tasks : TooLate(k, ctx, s, t)}
              /\ SemGot'[s] = {t \in Tasks : Given(k', ctx', s, t)}
              /\ SemLate'[s] = {t \in Tasks : TooLate(k', ctx', s, t)}
<1>1. ASSUME NEW kk, Sane(kk), NEW t \in Tasks
      PROVE  /\ ~Has(kk, t, {"PEND", "EXIT", "UNUSED"}) /\ ~Has(kk, t, {"TIMEOUT"})
                   <=> kk.status[t] \cap WaitFlags = {}
             /\ ~Has(kk, t, {"PEND", "EXIT", "UNUSED"}) /\ Has(kk, t, {"TIMEOUT"})
                   <=> kk.status[t] \cap WaitFlags = {"TIMEOUT"}
  <2>1. FlagsOK(kk.status[t])
    BY <1>1, SaneFacts
  <2> QED BY <2>1 DEF FlagsOK, Has, WaitFlags
<1> QED BY <1>1 DEF SemGot, SemLate, Decided, Given, TooLate

LEMMA SameResults ==
    ASSUME Sane(k), Sane(k'),
           \A s \in Sems : \A u \in Tasks :
              /\ Given(k', ctx', s, u) <=> Given(k, ctx, s, u)
              /\ TooLate(k', ctx', s, u) <=> TooLate(k, ctx, s, u)
    PROVE  SemGot' = SemGot /\ SemLate' = SemLate
<1>1. \A s \in Sems : SemGot'[s] = SemGot[s] /\ SemLate'[s] = SemLate[s]
  BY Results
<1> QED BY <1>1 DEF SemGot, SemLate

LEMMA SameWithout ==
    ASSUME NEW s, NEW e
    PROVE  Abstract!Without(s, e) = Without(s, e) /\ Abstract!Range(s) = Range(s)
  BY DEF Abstract!Without, Without, Abstract!IndexIn, IndexIn, Abstract!Range, Range

LEMMA SemaphoreStarts ==
    ASSUME SemInit
    PROVE  Abstract!SemaphoreInit
<1>1. Sane(k) /\ \A t \in Tasks : ctx[t].at = "user"
  BY SemInitSafe, TasksAreTCBs DEF SemSafe, CoreInv, SemInit, Init, UserThread, Thread
<1>2. SemVal = [s \in Sems |-> 0]
  BY DEF SemVal, SemInit, OsSemInit
<1>3. SemQueue = [s \in Sems |-> << >>]
  <2>1. \A s \in Sems : k.list[WaitList(s)] = << >>
    BY SemInitSafe DEF SemSafe, SemData, SemInit, OsSemInit
  <2> QED BY <2>1 DEF SemQueue
<1>4. SemGot = [s \in Sems |-> {}] /\ SemLate = [s \in Sems |-> {}]
  BY <1>1 DEF SemGot, SemLate, Decided
<1> QED BY <1>2, <1>3, <1>4 DEF Abstract!SemaphoreInit, SemVal, SemQueue, SemGot, SemLate

\* A thread whose wait goes on, or that has none, has the result it had.
LEMMA SameResult ==
    ASSUME Sane(k), Sane(k'), NEW u \in Tasks, SameWait(k', ctx', k, ctx, u), NEW s \in Sems
    PROVE  /\ Given(k', ctx', s, u) <=> Given(k, ctx, s, u)
           /\ TooLate(k', ctx', s, u) <=> TooLate(k, ctx, s, u)
<1>1. CASE /\ k'.status[u] \cap WaitFlags = k.status[u] \cap WaitFlags
           /\ \/ ctx'[u].at = ctx[u].at /\ ctx'[u].obj = ctx[u].obj
              \/ ctx'[u].at \in At /\ ctx[u].at \in At
  BY <1>1, SemPlaces DEF Given, TooLate
<1>2. CASE /\ "UNUSED" \in k.status[u]
           /\ "UNUSED" \in k'.status[u] \/ (k'.status[u] = {"SUSPEND"} /\ ctx'[u].at = "user")
  <2>1. ~Given(k, ctx, s, u) /\ ~TooLate(k, ctx, s, u)
    BY <1>2 DEF Given, TooLate, WaitFlags
  <2>2. ~Given(k', ctx', s, u) /\ ~TooLate(k', ctx', s, u)
    BY <1>2 DEF Given, TooLate, WaitFlags
  <2> QED BY <2>1, <2>2
<1> QED BY <1>1, <1>2 DEF SameWait

LEMMA QueuesLeft ==
    ASSUME NEW t, Left(k', k, t)
    PROVE  SemQueue' = [s \in Sems |-> Abstract!Without(SemQueue[s], t)]
<1>1. \A s \in Sems : WaitList(s) \in Blockers
  BY HeadsDiffer DEF Sems
<1>2. \A s \in Sems : k'.list[WaitList(s)] = Abstract!Without(k.list[WaitList(s)], t)
  BY <1>1, SameWithout DEF Left
<1> QED BY <1>2 DEF SemQueue

\* Where a task that pends waits.
LEMMA PenderWaits ==
    ASSUME SemSafe, NEW t \in Tasks, "PEND" \in k.status[t]
    PROVE  /\ ctx[t].at = "sem" /\ ctx[t].obj \in Sems /\ "TIMEOUT" \notin k.status[t]
           /\ t \in Range(SemQueue[ctx[t].obj])
           /\ \A s \in Sems : t \in Range(SemQueue[s]) => s = ctx[t].obj
<1>1. Sane(k) /\ WaitsAt({"sem"}, k, ctx)
  BY DEF SemSafe, CoreInv
<1>2. /\ ctx[t].at = "sem" /\ ctx[t].obj \in Sems /\ "TIMEOUT" \notin k.status[t]
      /\ t \in Range(k.list[WaitList(ctx[t].obj)])
      /\ \A s \in Sems : t \in Range(k.list[WaitList(s)]) => s = ctx[t].obj
  BY <1>1, WhereItWaits DEF Sems
<1> QED BY <1>2 DEF SemQueue

\* The lists of the semaphores t does not wait for stay as they are.
LEMMA OneQueueLeft ==
    ASSUME SemSafe, NEW t \in Tasks, "PEND" \in k.status[t], Left(k', k, t), NEW s \in Sems,
           s = ctx[t].obj
    PROVE  SemQueue' = [SemQueue EXCEPT ![s] = Abstract!Without(SemQueue[s], t)]
<1>1. SemQueue' = [u \in Sems |-> Abstract!Without(SemQueue[u], t)]
  BY QueuesLeft
<1>2. \A u \in Sems : u # s => t \notin Range(SemQueue[u])
  BY PenderWaits
<1>3. \A u \in Sems : u # s => Abstract!Without(SemQueue[u], t) = SemQueue[u]
  BY <1>2, SameWithout DEF Without
<1>4. SemQueue = [u \in Sems |-> SemQueue[u]]
  BY DEF SemQueue
<1> QED BY <1>1, <1>3, <1>4

LEMMA CalmStutters ==
    ASSUME SemSafe, SemSafe', Calm, sem' = sem
    PROVE  UNCHANGED Abstract!semVars
<1>0. Sane(k) /\ Sane(k')
  BY DEF SemSafe, CoreInv
<1>1. SemGot' = SemGot /\ SemLate' = SemLate
  BY <1>0, SameResult, SameResults DEF Calm
<1>2. \A s \in Sems : WaitList(s) \in Blockers
  BY HeadsDiffer DEF Sems
<1>3. SemQueue' = SemQueue /\ SemVal' = SemVal
  BY <1>2 DEF SemQueue, SemVal, Calm, SameWaiters
<1> QED BY <1>1, <1>3 DEF Abstract!semVars, SemVal, SemQueue, SemGot, SemLate

LEMMA TimeOutIsTimeOut ==
    ASSUME SemSafe, SemSafe', NEW t \in Tasks, TimesOut(t), sem' = sem
    PROVE  \E s \in Sems : Abstract!TimeOut(s, t)
<1> DEFINE s == ctx[t].obj
<1>0. /\ Sane(k) /\ Sane(k') /\ "PEND" \in k.status[t] /\ Left(k', k, t)
      /\ k'.status[t] \cap WaitFlags = {"TIMEOUT"} /\ ctx'[t] = ctx[t]
      /\ \A u \in Tasks \ {t} : SameWait(k', ctx', k, ctx, u)
  BY DEF SemSafe, CoreInv, TimesOut, OthersWait
<1>1. ctx[t].at = "sem" /\ s \in Sems /\ t \in Range(SemQueue[s])
  BY <1>0, PenderWaits
<1>2. SemQueue' = [SemQueue EXCEPT ![s] = Abstract!Without(SemQueue[s], t)] /\ SemVal' = SemVal
  BY <1>0, <1>1, OneQueueLeft DEF SemVal
<1>3. ASSUME NEW o \in Sems
      PROVE  SemGot'[o] = SemGot[o] /\ SemLate'[o] = IF o = s THEN SemLate[o] \cup {t} ELSE SemLate[o]
  <2>1. \A u \in Tasks \ {t} : /\ Given(k', ctx', o, u) <=> Given(k, ctx, o, u)
                               /\ TooLate(k', ctx', o, u) <=> TooLate(k, ctx, o, u)
    BY <1>0, SameResult
  <2>2. ~Given(k, ctx, o, t) /\ ~Given(k', ctx', o, t)
    BY <1>0 DEF Given, WaitFlags
  <2>3. ~TooLate(k, ctx, o, t) /\ (TooLate(k', ctx', o, t) <=> o = s)
    BY <1>0, <1>1 DEF TooLate, WaitFlags
  <2>4. /\ SemGot[o] = {u \in Tasks : Given(k, ctx, o, u)}
        /\ SemLate[o] = {u \in Tasks : TooLate(k, ctx, o, u)}
        /\ SemGot'[o] = {u \in Tasks : Given(k', ctx', o, u)}
        /\ SemLate'[o] = {u \in Tasks : TooLate(k', ctx', o, u)}
    BY <1>0, Results
  <2>5. SemGot'[o] = SemGot[o]
    BY <2>1, <2>2, <2>4
  <2>6. CASE o = s
    BY <2>1, <2>3, <2>4, <2>5, <2>6
  <2>7. CASE o # s
    BY <2>1, <2>3, <2>4, <2>5, <2>7
  <2> QED BY <2>6, <2>7
<1> HIDE DEF s
<1>4. SemGot' = SemGot /\ SemLate' = [SemLate EXCEPT ![s] = SemLate[s] \cup {t}]
  BY <1>1, <1>3 DEF SemGot, SemLate
<1>5. t \in Abstract!Range(SemQueue[s])
  BY <1>1, SameWithout
<1>6. Abstract!TimeOut(s, t)
  BY <1>2, <1>4, <1>5 DEF Abstract!TimeOut, SemVal, SemQueue, SemGot, SemLate
<1> QED BY <1>1, <1>6

LEMMA DeathIsKill ==
    ASSUME SemSafe, SemSafe', NEW t \in Tasks, Dies(t), sem' = sem
    PROVE  Abstract!Kill(t)
<1>0. /\ Sane(k) /\ Sane(k') /\ Left(k', k, t) /\ "UNUSED" \in k'.status[t]
      /\ \A u \in Tasks \ {t} : SameWait(k', ctx', k, ctx, u)
  BY DEF SemSafe, CoreInv, Dies, OthersWait
<1>1. SemQueue' = [s \in Sems |-> Abstract!Without(SemQueue[s], t)] /\ SemVal' = SemVal
  BY <1>0, QueuesLeft DEF SemVal
<1>2. ASSUME NEW o \in Sems
      PROVE  SemGot'[o] = SemGot[o] \ {t} /\ SemLate'[o] = SemLate[o] \ {t}
  <2>1. \A u \in Tasks \ {t} : /\ Given(k', ctx', o, u) <=> Given(k, ctx, o, u)
                               /\ TooLate(k', ctx', o, u) <=> TooLate(k, ctx, o, u)
    BY <1>0, SameResult
  <2>2. ~Given(k', ctx', o, t) /\ ~TooLate(k', ctx', o, t)
    BY <1>0 DEF Given, TooLate, WaitFlags
  <2> QED BY <1>0, <2>1, <2>2, Results
<1>3. /\ SemGot' = [s \in Sems |-> SemGot[s] \ {t}]
      /\ SemLate' = [s \in Sems |-> SemLate[s] \ {t}]
  BY <1>2 DEF SemGot, SemLate
<1> QED BY <1>1, <1>3 DEF Abstract!Kill, SemVal, SemQueue, SemGot, SemLate

\* Only the token counts change.
LEMMA CountOnly ==
    ASSUME k' = k, ctx' = ctx
    PROVE  SemQueue' = SemQueue /\ SemGot' = SemGot /\ SemLate' = SemLate
  BY DEF SemQueue, SemGot, SemLate, Decided, Has

LEMMA PendIsTakeOrWait ==
    ASSUME SemSafe, NEW c \in Tasks, NEW s \in Sems, LOS_SemPend(c, s)
    PROVE  Abstract!Take(s) \/ Abstract!Wait(s, c)
<1>0. /\ Sane(k) /\ Sane(k') /\ SemSafe' /\ SemData(k, sem, unusedSem)
      /\ sem[s].count \in 0..MaxCount /\ SemVal[s] = sem[s].count
      /\ sem[s].count = 0 => Begins(c, WaitList(s)) /\ ctx'[c] = Thread("sem", s, TRUE)
  BY SemPendKept DEF SemSafe, CoreInv, SemData, SemVal
<1>1. (sem[s].count > 0 \/ sem[s].count = 0) /\ ~(sem[s].count > 0 /\ sem[s].count = 0)
  BY <1>0, SemAssumption
<1>2. CASE sem[s].count > 0
  <2>1. sem' = [sem EXCEPT ![s].count = sem[s].count - 1] /\ k' = k /\ ctx' = ctx
    BY <1>1, <1>2 DEF LOS_SemPend, SetCount
  <2>2. SemVal' = [SemVal EXCEPT ![s] = SemVal[s] - 1]
    BY <1>0, <2>1 DEF SemVal, SemData
  <2>3. SemQueue' = SemQueue /\ SemGot' = SemGot /\ SemLate' = SemLate
    BY <2>1, CountOnly
  <2>4. Abstract!Take(s)
    BY <1>0, <1>2, <2>2, <2>3 DEF Abstract!Take, SemVal, SemQueue, SemGot, SemLate
  <2> QED BY <2>4
<1>3. CASE sem[s].count = 0
  <2>a. ctx[c].at = "user"
    BY TaskAssumption, TasksAreTCBs DEF LOS_SemPend, Caller, InUser
  <2>0. /\ Begins(c, WaitList(s)) /\ sem' = sem /\ ctx[c].at = "user" /\ "PEND" \notin k.status[c]
        /\ "PEND" \in k'.status[c]
        /\ \A u \in Tasks \ {c} : k'.status[u] = k.status[u] /\ ctx'[u] = ctx[u]
    BY <1>0, <1>1, <1>3, <2>a DEF LOS_SemPend, Begins, WaitFlags
  <2>1. SemVal' = SemVal /\ SemVal[s] = 0
    BY <1>0, <1>3, <2>0 DEF SemVal
  <2>2. SemQueue' = [SemQueue EXCEPT ![s] = Append(SemQueue[s], c)]
    <3>1. \A u \in Sems : u # s => WaitList(u) # WaitList(s) /\ WaitList(u) \in Blockers
      BY HeadsDiffer DEF WaitList, Sems
    <3>2. /\ k'.list[WaitList(s)] = Append(k.list[WaitList(s)], c)
          /\ \A u \in Sems : u # s => k'.list[WaitList(u)] = k.list[WaitList(u)]
      BY <2>0, <3>1 DEF Begins
    <3> QED BY <3>2 DEF SemQueue
  <2>3. ASSUME NEW o \in Sems, NEW u \in Tasks
        PROVE  /\ Given(k', ctx', o, u) <=> Given(k, ctx, o, u)
               /\ TooLate(k', ctx', o, u) <=> TooLate(k, ctx, o, u)
    <3>1. CASE u = c
      <4>1. ~Given(k, ctx, o, u) /\ ~TooLate(k, ctx, o, u)
        BY <2>0, <3>1 DEF Given, TooLate
      <4>2. ~Given(k', ctx', o, u) /\ ~TooLate(k', ctx', o, u)
        BY <2>0, <3>1 DEF Given, TooLate, WaitFlags
      <4> QED BY <4>1, <4>2
    <3>2. CASE u # c
      BY <2>0, <3>2 DEF Given, TooLate
    <3> QED BY <3>1, <3>2
  <2>4. SemGot' = SemGot /\ SemLate' = SemLate
    BY <1>0, <2>3, SameResults
  <2>5. ASSUME NEW o \in Sems
        PROVE  c \notin Abstract!Range(SemQueue[o]) \cup SemGot[o] \cup SemLate[o]
    <3>1. c \notin Range(k.list[WaitList(o)])
      BY <1>0, <2>0, LeftIsSame, HeadsDiffer DEF Sane, Sems
    <3>2. c \notin SemGot[o] /\ c \notin SemLate[o]
      BY <2>0 DEF SemGot, SemLate, Decided
    <3>3. c \notin Abstract!Range(SemQueue[o])
      BY <3>1, SameWithout DEF SemQueue
    <3> QED BY <3>2, <3>3
  <2>6. Abstract!Idles(c)
    BY <2>5 DEF Abstract!Idles, SemQueue, SemGot, SemLate
  <2>7. Abstract!Wait(s, c)
    BY <2>1, <2>2, <2>4, <2>6 DEF Abstract!Wait, SemVal, SemQueue, SemGot, SemLate
  <2> QED BY <2>7
<1> QED BY <1>1, <1>2, <1>3

LEMMA PostIsPutOrHand ==
    ASSUME SemSafe, NEW c \in Tasks \cup {Isr}, NEW s \in Sems, LOS_SemPost(c, s)
    PROVE  Abstract!Put(s) \/ Abstract!Hand(s)
<1> DEFINE q == k.list[WaitList(s)]
<1>0. /\ Sane(k) /\ Sane(k') /\ SemSafe' /\ SemData(k, sem, unusedSem)
      /\ SemVal[s] = sem[s].count /\ SemQueue[s] = q /\ WaitList(s) \in Blockers
      /\ q # << >> => Ends(q[1])
  BY SemPostKept, HeadsDiffer DEF SemSafe, CoreInv, SemData, SemVal, SemQueue, Sems
<1>1. CASE q = << >>
  <2>1. sem' = [sem EXCEPT ![s].count = sem[s].count + 1] /\ k' = k /\ ctx' = ctx
    BY <1>1 DEF LOS_SemPost, SetCount
  <2>2. SemVal' = [SemVal EXCEPT ![s] = SemVal[s] + 1]
    BY <1>0, <2>1 DEF SemVal, SemData
  <2>3. SemQueue' = SemQueue /\ SemGot' = SemGot /\ SemLate' = SemLate
    BY <2>1, CountOnly
  <2>4. Abstract!Put(s)
    BY <1>0, <1>1, <2>2, <2>3 DEF Abstract!Put, SemVal, SemQueue, SemGot, SemLate
  <2> QED BY <2>4
<1>2. CASE q # << >>
  <2>1. PICK t \in Tasks : t = q[1] /\ t \in Range(q) /\ "PEND" \in k.status[t]
    BY <1>0, <1>2, FirstWaiter
  <2>2. Ends(t) /\ Left(k', k, t) /\ sem' = sem
    BY <1>0, <1>2, <2>1 DEF LOS_SemPost, Ends
  <2>3. ctx[t].at = "sem" /\ ctx[t].obj = s /\ "TIMEOUT" \notin k.status[t]
    BY <1>0, <2>1, PenderWaits
  <2>4. SemQueue' = [SemQueue EXCEPT ![s] = Tail(SemQueue[s])]
    <3>1. Without(q, t) = Tail(q)
      BY <1>0, <1>2, <2>1, BlockerLists, TailIsWithout
    <3>2. SemQueue' = [SemQueue EXCEPT ![s] = Abstract!Without(SemQueue[s], t)]
      BY <2>1, <2>2, <2>3, OneQueueLeft
    <3> QED BY <1>0, <3>1, <3>2, SameWithout
  <2>5. /\ k'.status[t] \cap WaitFlags = {} /\ ctx'[t].at = "sem" /\ ctx'[t].obj = s
        /\ \A u \in Tasks \ {t} : k'.status[u] = k.status[u]
        /\ \A u \in Tasks : ctx'[u].at = ctx[u].at /\ ctx'[u].obj = ctx[u].obj
    BY <2>2, <2>3, TasksAreTCBs DEF Ends, WaitFlags
  <2>6. ASSUME NEW o \in Sems
        PROVE  SemLate'[o] = SemLate[o] /\ SemGot'[o] = IF o = s THEN SemGot[o] \cup {t} ELSE SemGot[o]
    <3>1. \A u \in Tasks \ {t} : /\ Given(k', ctx', o, u) <=> Given(k, ctx, o, u)
                                 /\ TooLate(k', ctx', o, u) <=> TooLate(k, ctx, o, u)
      BY <2>5 DEF Given, TooLate
    <3>2. ~TooLate(k, ctx, o, t) /\ ~TooLate(k', ctx', o, t)
      BY <2>1, <2>5 DEF TooLate, WaitFlags
    <3>3. ~Given(k, ctx, o, t) /\ (Given(k', ctx', o, t) <=> o = s)
      BY <2>1, <2>5 DEF Given, WaitFlags
    <3>4. /\ SemGot[o] = {u \in Tasks : Given(k, ctx, o, u)}
          /\ SemLate[o] = {u \in Tasks : TooLate(k, ctx, o, u)}
          /\ SemGot'[o] = {u \in Tasks : Given(k', ctx', o, u)}
          /\ SemLate'[o] = {u \in Tasks : TooLate(k', ctx', o, u)}
      BY <1>0, Results
    <3>5. SemLate'[o] = SemLate[o]
      BY <3>1, <3>2, <3>4
    <3>6. CASE o = s
      BY <3>1, <3>3, <3>4, <3>5, <3>6
    <3>7. CASE o # s
      BY <3>1, <3>3, <3>4, <3>5, <3>7
    <3> QED BY <3>6, <3>7
  <2>7. SemLate' = SemLate /\ SemGot' = [SemGot EXCEPT ![s] = SemGot[s] \cup {SemQueue[s][1]}]
    BY <1>0, <2>1, <2>6 DEF SemGot, SemLate
  <2>8. SemVal' = SemVal
    BY <2>2 DEF SemVal
  <2>9. Abstract!Hand(s)
    BY <1>0, <1>2, <2>4, <2>7, <2>8 DEF Abstract!Hand, SemVal, SemQueue, SemGot, SemLate
  <2> QED BY <2>9
<1> QED BY <1>1, <1>2

LEMMA ReturnIsReturn ==
    ASSUME SemSafe, NEW c \in Tasks, SemPendReturn(c)
    PROVE  \A s \in Sems : s = ctx[c].obj => Abstract!Return(s, c)
<1> SUFFICES ASSUME NEW s \in Sems, s = ctx[c].obj PROVE Abstract!Return(s, c)
  OBVIOUS
<1>0. /\ SemSafe' /\ Sane(k) /\ Sane(k') /\ k'.list = k.list /\ sem' = sem /\ ctx[c].at = "sem"
      /\ \A u \in Tasks \ {c} : k'.status[u] = k.status[u] /\ ctx'[u] = ctx[u]
      /\ ctx'[c] = UserThread /\ k.status[c] \cap (Blocked \cup {"DELAY"}) = {}
  BY SemReturnKept DEF SemSafe, CoreInv, SemPendReturn
<1>1. Given(k, ctx, s, c) \/ TooLate(k, ctx, s, c)
  <2>1. "PEND" \notin k.status[c] /\ "UNUSED" \notin k.status[c]
    BY <1>0 DEF Blocked
  <2> QED BY <1>0, <2>1 DEF Given, TooLate, WaitFlags
<1>2. ctx'[c].at # "sem"
  BY <1>0 DEF UserThread, Thread
<1>3. ASSUME NEW o \in Sems
      PROVE  /\ SemGot'[o] = IF o = s THEN SemGot[o] \ {c} ELSE SemGot[o]
             /\ SemLate'[o] = IF o = s THEN SemLate[o] \ {c} ELSE SemLate[o]
  <2>1. \A u \in Tasks \ {c} : /\ Given(k', ctx', o, u) <=> Given(k, ctx, o, u)
                               /\ TooLate(k', ctx', o, u) <=> TooLate(k, ctx, o, u)
    BY <1>0 DEF Given, TooLate
  <2>2. ~Given(k', ctx', o, c) /\ ~TooLate(k', ctx', o, c)
    BY <1>2 DEF Given, TooLate
  <2>3. o # s => ~Given(k, ctx, o, c) /\ ~TooLate(k, ctx, o, c)
    BY DEF Given, TooLate
  <2>4. /\ SemGot[o] = {u \in Tasks : Given(k, ctx, o, u)}
        /\ SemLate[o] = {u \in Tasks : TooLate(k, ctx, o, u)}
        /\ SemGot'[o] = {u \in Tasks : Given(k', ctx', o, u)}
        /\ SemLate'[o] = {u \in Tasks : TooLate(k', ctx', o, u)}
    BY <1>0, Results
  <2>5. CASE o = s
    BY <2>1, <2>2, <2>4, <2>5
  <2>6. CASE o # s
    BY <2>1, <2>2, <2>3, <2>4, <2>6
  <2> QED BY <2>5, <2>6
<1>4. /\ SemGot' = [SemGot EXCEPT ![s] = SemGot[s] \ {c}]
      /\ SemLate' = [SemLate EXCEPT ![s] = SemLate[s] \ {c}]
  <2>1. /\ DOMAIN SemGot = Sems /\ DOMAIN SemLate = Sems
        /\ SemGot' = [o \in Sems |-> SemGot'[o]] /\ SemLate' = [o \in Sems |-> SemLate'[o]]
    BY DEF SemGot, SemLate
  <2>2. SemGot' = [SemGot EXCEPT ![s] = SemGot[s] \ {c}]
    BY <1>3, <2>1
  <2>3. SemLate' = [SemLate EXCEPT ![s] = SemLate[s] \ {c}]
    BY <1>3, <2>1
  <2> QED BY <2>2, <2>3
<1>5. c \in SemGot[s] \cup SemLate[s]
  BY <1>0, <1>1, Results
<1>6. SemQueue' = SemQueue /\ SemVal' = SemVal
  BY <1>0 DEF SemQueue, SemVal
<1> QED BY <1>4, <1>5, <1>6 DEF Abstract!Return, SemVal, SemQueue, SemGot, SemLate

LEMMA CreateIsCreate ==
    ASSUME SemSafe, NEW c \in Tasks \cup {Isr}, NEW max, NEW n \in 0..MaxCount,
           OsSemCreate(c, n, max)
    PROVE  \E s \in Sems : Abstract!Create(s, n)
<1>0. /\ SemData(k, sem, unusedSem) /\ k' = k /\ ctx' = ctx /\ unusedSem # << >>
      /\ unusedSem \in Seq(Sems)
  BY DEF SemSafe, OsSemCreate, SemData
<1>1. PICK s \in Sems : s = unusedSem[1] /\ s \in Range(unusedSem)
  BY <1>0, FirstOfList
<1>2. sem' = [sem EXCEPT ![s] = [used |-> TRUE, count |-> n, max |-> max]]
  BY <1>1 DEF OsSemCreate
<1>3. SemQueue[s] = << >>
  BY <1>0, <1>1 DEF SemData, SemQueue
<1>4. SemVal' = [SemVal EXCEPT ![s] = n]
  BY <1>0, <1>2 DEF SemVal, SemData
<1>5. SemQueue' = SemQueue /\ SemGot' = SemGot /\ SemLate' = SemLate
  BY <1>0, CountOnly
<1>6. Abstract!Create(s, n)
  BY <1>3, <1>4, <1>5 DEF Abstract!Create, SemVal, SemQueue, SemGot, SemLate
<1> QED BY <1>6

LEMMA DeleteStutters ==
    ASSUME SemSafe, NEW c, NEW s \in Sems, LOS_SemDelete(c, s)
    PROVE  UNCHANGED Abstract!semVars
<1>0. /\ SemData(k, sem, unusedSem) /\ k' = k /\ ctx' = ctx
      /\ sem' = [sem EXCEPT ![s].used = FALSE]
  BY DEF SemSafe, LOS_SemDelete
<1>1. SemVal' = SemVal
  BY <1>0 DEF SemVal, SemData
<1>2. SemQueue' = SemQueue /\ SemGot' = SemGot /\ SemLate' = SemLate
  BY <1>0, CountOnly
<1> QED BY <1>1, <1>2 DEF Abstract!semVars, SemVal, SemQueue, SemGot, SemLate

\* los_sem.c implements the semaphore, with any number of semaphores and of tasks: each
\* post is given to the task that waits longest or kept, a wait is ended by a post or by
\* its timeout and LOS_SemPend reports which.
THEOREM SemImplementsSemaphore == Plain => (SemSpec => ImplementsSemaphore)
<1> SUFFICES ASSUME Plain PROVE SemSpec => ImplementsSemaphore
  OBVIOUS
<1>1. SemInit => Abstract!SemaphoreInit
  BY SemaphoreStarts
<1>2. SemSafe /\ SemSafe' /\ [SemNext]_<<k, ctx, sem, unusedSem>>
         => [Abstract!SemaphoreNext]_(Abstract!semVars)
  <2> SUFFICES ASSUME SemSafe, SemSafe', [SemNext]_<<k, ctx, sem, unusedSem>>
               PROVE  Abstract!SemaphoreNext \/ UNCHANGED Abstract!semVars
    OBVIOUS
  <2>1. CASE Next /\ UNCHANGED <<sem, unusedSem>>
    <3>0. Waits /\ sem' = sem
      BY <2>1, TaskStepKept
    <3>1. CASE Calm
      BY <3>0, <3>1, CalmStutters
    <3>2. ASSUME NEW t \in Tasks, TimesOut(t) PROVE Abstract!SemaphoreNext
      BY <3>0, <3>2, TimeOutIsTimeOut DEF Abstract!SemaphoreNext
    <3>3. ASSUME NEW t \in Tasks, Dies(t) PROVE Abstract!SemaphoreNext
      BY <3>0, <3>3, DeathIsKill DEF Abstract!SemaphoreNext
    <3> QED BY <3>0, <3>1, <3>2, <3>3 DEF Waits
  <2>2. ASSUME NEW c \in Tasks, SemPendReturn(c) PROVE Abstract!SemaphoreNext
    <3>1. ctx[c].obj \in Sems
      <4>1. "UNUSED" \notin k.status[c] /\ ctx[c].at = "sem"
        BY <2>2, SemReturnKept DEF Blocked, SemPendReturn
      <4> QED BY <4>1 DEF SemSafe, WaitsAt, Sems
    <3>2. \E s \in Sems : Abstract!Return(s, c)
      BY <2>2, <3>1, ReturnIsReturn
    <3> QED BY <3>2 DEF Abstract!SemaphoreNext
  <2>3. ASSUME NEW c \in Tasks, NEW s \in Sems, LOS_SemPend(c, s) PROVE Abstract!SemaphoreNext
    BY <2>3, PendIsTakeOrWait DEF Abstract!SemaphoreNext
  <2>4. ASSUME NEW c \in Tasks \cup {Isr}, NEW max \in {OS_SEM_BINARY_MAX_COUNT, MaxCount},
               NEW n \in 0..MaxCount, OsSemCreate(c, n, max)
        PROVE  Abstract!SemaphoreNext
    BY <2>4, CreateIsCreate DEF Abstract!SemaphoreNext
  <2>5. ASSUME NEW c \in Tasks \cup {Isr}, NEW s \in Sems, LOS_SemDelete(c, s)
        PROVE  UNCHANGED Abstract!semVars
    BY <2>5, DeleteStutters
  <2>6. ASSUME NEW c \in Tasks \cup {Isr}, NEW s \in Sems, LOS_SemPost(c, s)
        PROVE  Abstract!SemaphoreNext
    BY <2>6, PostIsPutOrHand DEF Abstract!SemaphoreNext
  <2>7. CASE UNCHANGED <<k, ctx, sem, unusedSem>>
    BY <2>7, CountOnly DEF Abstract!semVars, SemVal, SemQueue, SemGot, SemLate
  <2> QED BY <2>1, <2>2, <2>3, <2>4, <2>5, <2>6, <2>7 DEF SemNext
<1>3. SemSafe => CallsAreSteps
  BY PostIsPutOrHand, PendIsTakeOrWait, ReturnIsReturn DEF CallsAreSteps
<1>4. SemSpec => []SemSafe
  BY SemSafeAlways
<1> QED BY <1>1, <1>2, <1>3, <1>4, PTL DEF SemSpec, ImplementsSemaphore, Abstract!SemaphoreSpec
=============================================================================
