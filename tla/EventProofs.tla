---------------------------- MODULE EventProofs ----------------------------
(***************************************************************************)
(* Events of any number and width, used by any number of tasks and by      *)
(* interrupt handlers: no task goes on waiting for bits that are there,    *)
(* and the kernel with them does not fault and runs the highest ready      *)
(* task.                                                                   *)
(*                                                                         *)
(* LOS_EventWrite wakes as many tasks as its bits satisfy, in a loop over  *)
(* a list it takes tasks from.  What the loop has done after i nodes is    *)
(* stated by Woken and shown by induction on i, as the absence of a least  *)
(* counterexample (NatMin); the rest is as for semaphores.                 *)
(***************************************************************************)
EXTENDS Event, TaskProofs

-----------------------------------------------------------------------------
(***************************************************************************)
(* The loop of LOS_EventWrite.                                             *)
(***************************************************************************)
LEMMA NatMin ==
    ASSUME NEW T, T \subseteq Nat, T # {}
    PROVE  \E x \in T : \A y \in T : x <= y
<1>1. IsWellFoundedOn(OpToRel(<, Nat), Nat)
  BY NatLessThanWellFounded
<1>2. PICK x \in T : \A y \in T : ~(<<y, x>> \in OpToRel(<, Nat))
  BY <1>1, WFMin
<1>3. \A y \in T : ~(y < x)
  BY <1>2 DEF OpToRel
<1> QED BY <1>3

\* kk is k after the tasks of V have been woken, in whatever order.
Woken(kk, V) ==
    /\ V \subseteq Tasks
    /\ Sane(kk) /\ SameCtl(kk, k) /\ kk.prio = k.prio
    /\ \A u \in Tasks \ V : kk.status[u] = k.status[u] /\ Where(kk, u) = Where(k, u)
    /\ \A u \in V :
          /\ kk.status[u] \cap {"PEND", "TIMEOUT", "UNUSED", "EXIT"} = k.status[u] \cap {"TIMEOUT"}
          /\ "SUSPEND" \in kk.status[u] => "SUSPEND" \in k.status[u]
          /\ "DELAY" \in kk.status[u] => "DELAY" \in k.status[u]
    /\ \A h \in Blockers : Range(kk.list[h]) = Range(k.list[h]) \ V

LEMMA WokenMore ==
    ASSUME Sane(k), NEW kk, NEW V, Woken(kk, V), NEW t \in Tasks, t \notin V,
           "PEND" \in k.status[t], NEW r, r = OsSchedTaskWake(kk, t)
    PROVE  Woken(r, V \cup {t})
<1>0. /\ V \subseteq Tasks /\ Sane(kk) /\ SameCtl(kk, k) /\ kk.prio = k.prio
      /\ kk.status[t] = k.status[t]
  BY DEF Woken
<1>1. /\ Sane(r) /\ Left(r, kk, t)
      /\ SameBut(r, kk, t) /\ r.prio = kk.prio
      /\ r.status[t] = (kk.status[t] \ {"PEND", "PEND_TIME"})
                          \cup (IF Has(kk, t, {"SUSPEND", "RUNNING"}) THEN {} ELSE {"READY"})
  BY <1>0, WakeSafe
<1>2. FlagsOK(k.status[t])
  BY SaneFacts
<1>3. /\ r.status[t] \cap {"PEND", "TIMEOUT", "UNUSED", "EXIT"} = k.status[t] \cap {"TIMEOUT"}
      /\ "SUSPEND" \in r.status[t] => "SUSPEND" \in k.status[t]
      /\ "DELAY" \in r.status[t] => "DELAY" \in k.status[t]
  BY <1>0, <1>1, <1>2 DEF FlagsOK
<1>4. \A u \in Tasks \ {t} : r.status[u] = kk.status[u] /\ Where(r, u) = Where(kk, u)
  BY <1>1, TasksAreTCBs DEF SameBut, OthersStay
<1>5. \A h \in Blockers : Range(r.list[h]) = Range(kk.list[h]) \ {t}
  BY <1>0, <1>1, BlockerLists, WithoutRange DEF Left
<1>6. SameCtl(r, k) /\ r.prio = k.prio
  BY <1>0, <1>1 DEF SameBut, SameCtl
<1> QED BY <1>0, <1>1, <1>3, <1>4, <1>5, <1>6 DEF Woken

\* The function that WakeAll defines exists.
Loop(f, n, kk, q, W) ==
    f = [i \in 0..n |-> IF i = 0 THEN kk
                        ELSE IF q[i] \in W THEN OsSchedTaskWake(f[i - 1], q[i]) ELSE f[i - 1]]

LEMMA LoopRuns ==
    ASSUME NEW n \in Nat, NEW kk, NEW q, NEW W
    PROVE  \E f : Loop(f, n, kk, q, W)
<1> DEFINE T == {m \in Nat : ~ \E f : Loop(f, m, kk, q, W)}
<1> SUFFICES ASSUME T # {} PROVE FALSE
  OBVIOUS
<1>1. PICK m \in T : \A y \in T : m <= y
  <2>1. T \subseteq Nat
    OBVIOUS
  <2> HIDE DEF T
  <2> QED BY <2>1, NatMin
<1>2. CASE m = 0
  <2> DEFINE g == [i \in 0..0 |-> kk]
  <2>1. Loop(g, 0, kk, q, W)
    BY DEF Loop
  <2> QED BY <1>1, <1>2, <2>1
<1>3. CASE m # 0
  <2>1. m - 1 \in Nat /\ m - 1 \notin T
    BY <1>1, <1>3
  <2>2. PICK f : Loop(f, m - 1, kk, q, W)
    BY <2>1
  <2> DEFINE last == IF q[m] \in W THEN OsSchedTaskWake(f[m - 1], q[m]) ELSE f[m - 1]
             g == [i \in 0..m |-> IF i = m THEN last ELSE f[i]]
  <2>3. ASSUME NEW i \in 0..m
        PROVE  g[i] = IF i = 0 THEN kk
                      ELSE IF q[i] \in W THEN OsSchedTaskWake(g[i - 1], q[i]) ELSE g[i - 1]
    BY <1>1, <1>3, <2>2, <2>3 DEF Loop
  <2>4. Loop(g, m, kk, q, W)
    BY <2>3 DEF Loop
  <2> QED BY <1>1, <2>4
<1> QED BY <1>2, <1>3

LEMMA WakeAllIs ==
    ASSUME NEW kk, NEW q, NEW W, Len(q) \in Nat
    PROVE  \E f : Loop(f, Len(q), kk, q, W) /\ WakeAll(kk, q, W) = f[Len(q)]
<1> DEFINE f == CHOOSE g : Loop(g, Len(q), kk, q, W)
<1>1. Loop(f, Len(q), kk, q, W)
  BY LoopRuns
<1>2. WakeAll(kk, q, W) = f[Len(q)]
  BY DEF WakeAll, Loop
<1> QED BY <1>1, <1>2

\* The loop wakes the tasks it is to wake, each once, and no other.
LEMMA LoopWakes ==
    ASSUME Sane(k), NEW h \in Blockers, NEW q, q = k.list[h], NEW W, W \subseteq Range(q)
    PROVE  Woken(WakeAll(k, q, W), W)
<1>0. /\ q \in Seq(Tasks) /\ NoDup(q) /\ Len(q) \in Nat /\ DOMAIN q = 1..Len(q)
      /\ Range(q) \subseteq Tasks /\ \A i \in 1..Len(q) : q[i] \in Tasks /\ q[i] \in Range(q)
  <2>1. q \in Seq(Tasks) /\ NoDup(q)
    BY BlockerLists
  <2>2. Len(q) \in Nat /\ DOMAIN q = 1..Len(q) /\ \A i \in 1..Len(q) : q[i] \in Tasks
    BY <2>1, LenProperties, ElementOfSeq
  <2> QED BY <2>1, <2>2 DEF Range
<1>1. PICK f : Loop(f, Len(q), k, q, W) /\ WakeAll(k, q, W) = f[Len(q)]
  BY <1>0, WakeAllIs
<1> DEFINE Seen(i) == {q[j] : j \in 1..i}
           T == {i \in 0..Len(q) : ~Woken(f[i], W \cap Seen(i))}
<1>2. T = {}
  <2> SUFFICES ASSUME T # {} PROVE FALSE
    OBVIOUS
  <2>1. PICK i \in T : \A y \in T : i <= y
    <3>1. T \subseteq Nat
      BY <1>0
    <3> HIDE DEF T
    <3> QED BY <3>1, NatMin
  <2>2. CASE i = 0
    <3>1. W \cap Seen(0) = {} /\ f[0] = k
      BY <1>0, <1>1 DEF Loop
    <3>2. Woken(k, {})
      BY DEF Woken, SameCtl
    <3> QED BY <2>1, <2>2, <3>1, <3>2
  <2>3. CASE i # 0
    <3>a. i \in 0..Len(q)
      OBVIOUS
    <3>b. /\ i \in 1..Len(q) /\ i - 1 \in 0..Len(q) /\ ~(i <= i - 1)
      BY <1>0, <2>3, <3>a
    <3>c. i - 1 \notin T
      <4> HIDE DEF T
      <4> QED BY <2>1, <3>b
    <3>0. /\ i \in 1..Len(q) /\ i - 1 \in 0..Len(q) /\ Woken(f[i - 1], W \cap Seen(i - 1))
      <4> HIDE DEF Seen
      <4> QED BY <3>b, <3>c
    <3>1. PICK kk, V, t : kk = f[i - 1] /\ V = W \cap Seen(i - 1) /\ t = q[i]
      OBVIOUS
    <3>2. Woken(kk, V)
      BY <3>0, <3>1
    <3>3. f[i] = IF t \in W THEN OsSchedTaskWake(kk, t) ELSE kk
      BY <1>0, <1>1, <2>3, <3>0, <3>1 DEF Loop
    <3>4. Seen(i) = Seen(i - 1) \cup {t} /\ t \notin Seen(i - 1)
      <4>1. \A j \in 1..i : j = i \/ j \in 1..(i - 1)
        BY <1>0, <3>0
      <4>2. 1..(i - 1) \subseteq 1..i /\ i \in 1..i /\ 1..i \subseteq 1..Len(q)
        BY <1>0, <3>0
      <4>3. \A j \in 1..(i - 1) : j # i
        BY <1>0, <3>0
      <4>4. \A j \in 1..(i - 1) : q[j] # t
        BY <1>0, <3>0, <3>1, <4>2, <4>3 DEF NoDup
      <4> QED BY <3>1, <4>1, <4>2, <4>4
    <3> HIDE DEF Seen
    <3>5. t \in Tasks /\ t \in Range(q) /\ "PEND" \in k.status[t]
      BY <1>0, <3>0, <3>1, OnOneList
    <3>6. CASE t \in W
      <4>1. f[i] = OsSchedTaskWake(kk, t) /\ W \cap Seen(i) = V \cup {t} /\ t \notin V
        BY <3>1, <3>3, <3>4, <3>6
      <4>2. Woken(f[i], V \cup {t})
        BY <3>2, <3>5, <4>1, WokenMore
      <4> QED BY <2>1, <4>1, <4>2
    <3>7. CASE t \notin W
      <4>1. f[i] = kk /\ W \cap Seen(i) = V
        BY <3>1, <3>3, <3>4, <3>7
      <4> QED BY <2>1, <3>2, <4>1
    <3> QED BY <3>6, <3>7
  <2> QED BY <2>2, <2>3
<1>3. W \cap Seen(Len(q)) = W
  BY <1>0 DEF Range
<1>4. Woken(f[Len(q)], W \cap Seen(Len(q)))
  <2>1. Len(q) \in 0..Len(q)
    BY <1>0
  <2> HIDE DEF Seen
  <2>2. \A i \in 0..Len(q) : i \notin T
    <3> HIDE DEF T
    <3> QED BY <1>2
  <2>3. \A i \in 0..Len(q) : Woken(f[i], W \cap Seen(i))
    BY <2>2
  <2> QED BY <2>1, <2>3
<1> HIDE DEF Seen
<1> QED BY <1>1, <1>3, <1>4

-----------------------------------------------------------------------------
(***************************************************************************)
(* What the kernel is after LOS_EventWrite: the tasks of W are woken, and  *)
(* the scheduler is called when there are any.                             *)
(***************************************************************************)
\* What the waits are after the tasks of W have been woken.
EndsAll(W) ==
    /\ \A h \in Blockers : Range(k'.list[h]) = Range(k.list[h]) \ W
    /\ \A u \in Tasks \ W : k'.status[u] = k.status[u]
    /\ \A u \in Tasks : \/ ctx'[u].at = ctx[u].at /\ ctx'[u].obj = ctx[u].obj
                        \/ "PEND" \notin k.status[u] /\ ctx[u].at # "event" /\ ctx'[u].at = "user"
    /\ \A u \in W : k'.status[u] \cap {"PEND", "TIMEOUT", "UNUSED", "EXIT"} = k.status[u] \cap {"TIMEOUT"}

LEMMA WokenKept ==
    ASSUME NEW A, CoreInv(A, k, ctx), NEW c \in Tasks \cup {Isr}, Calling(c), NEW W,
           \A u \in W : "PEND" \in k.status[u],
           NEW w, Woken(w, W), NEW need, need = (W # {}), Finish(c, w, need)
    PROVE  StepKeeps(A) /\ EndsAll(W)
<1>0. /\ Sane(k) /\ Creators(k, ctx) /\ RunNotSuspended(k) /\ k.run \in TCB
      /\ W \subseteq Tasks /\ need \in BOOLEAN
  BY DEF CoreInv, Sane, KInv, KernelState, Woken
<1>1. /\ w.run = k.run /\ w.scheduled = k.scheduled /\ w.pendsv = k.pendsv /\ w.lock = k.lock
      /\ w.prio = k.prio /\ Sane(w)
  BY DEF Woken, SameCtl
<1>2. \A u \in Tasks \ W : w.status[u] = k.status[u] /\ Where(w, u) = Where(k, u)
  BY DEF Woken
<1>3. \A u \in W : /\ w.status[u] \cap {"PEND", "TIMEOUT", "UNUSED", "EXIT"} = k.status[u] \cap {"TIMEOUT"}
                   /\ "SUSPEND" \in w.status[u] => "SUSPEND" \in k.status[u]
                   /\ "DELAY" \in w.status[u] => "DELAY" \in k.status[u]
  BY DEF Woken
<1>4. \A u \in Tasks : Held(ctx, u) => Untouched(w, k, u)
  <2> SUFFICES ASSUME NEW u \in Tasks, Held(ctx, u) PROVE Untouched(w, k, u)
    OBVIOUS
  <2>1. k.status[u] \cap {"READY", "PEND"} = {}
    BY <1>0, HeldFacts
  <2> QED BY <1>2, <2>1 DEF Untouched
<1>5. RunNotSuspended(w)
  BY <1>0, <1>1, <1>2, <1>3 DEF RunNotSuspended
<1>6. Stuck(w) => Stuck(k) \/ (need /\ w.lock = 0)
  <2> SUFFICES ASSUME Stuck(w) PROVE Stuck(k)
    OBVIOUS
  <2>1. CASE k.run \in Tasks /\ k.run \notin W
    BY <1>1, <1>2, <2>1 DEF Stuck
  <2>2. CASE k.run \in W
    BY <1>0, <1>1, <2>2, TasksAreTCBs DEF Stuck, Blocked
  <2>3. CASE k.run \notin Tasks
    BY <1>0, <1>1, <2>3, TasksAreTCBs, DummyStuck DEF Stuck
  <2> QED BY <2>1, <2>2, <2>3
<1>7. k.run \in Tasks /\ ~need /\ w.lock = 0 => k.lock = 0 /\ (Top(k) => Top(w))
  <2> SUFFICES ASSUME ~need, w.lock = 0 PROVE k.lock = 0 /\ (Top(k) => Top(w))
    OBVIOUS
  <2>1. \A u \in Tasks : w.status[u] = k.status[u]
    BY <1>2
  <2> QED BY <1>1, <2>1 DEF Top
<1>8. \A u \in Tasks : "UNUSED" \in w.status[u] =>
          \/ "UNUSED" \in k.status[u] /\ Where(w, u) = Where(k, u)
          \/ ctx[u].at = "user" /\ Where(w, u) \in {{FreeTask}, {RecycleList}}
  <2> SUFFICES ASSUME NEW u \in Tasks, "UNUSED" \in w.status[u]
               PROVE  "UNUSED" \in k.status[u] /\ Where(w, u) = Where(k, u)
    OBVIOUS
  <2>1. u \notin W
    BY <1>3
  <2> QED BY <1>2, <2>1
<1>9. /\ CoreInv(A, k', ctx') /\ Finished(c, w, need)
      /\ (k.run \in Tasks /\ ~need /\ w.lock = 0 => k.lock = 0 /\ (Top(k) => Top(w)))
            => (Highest(k, ctx) => Highest(k', ctx'))
      /\ (\A u \in Tasks : "UNUSED" \in w.status[u] =>
            \/ "UNUSED" \in k.status[u] /\ Where(w, u) = Where(k, u)
            \/ ctx[u].at = "user" /\ Where(w, u) \in {{FreeTask}, {RecycleList}})
            => (TcbKept(k, ctx) => TcbKept(k', ctx'))
  BY <1>0, <1>1, <1>4, <1>5, <1>6, CallSafe
<1>10. StepKeeps(A)
  BY <1>7, <1>8, <1>9 DEF StepKeeps
<1>11. EndsAll(W)
  BY <1>2, <1>3, <1>9, TasksAreTCBs DEF EndsAll, Finished, SameTasks, Woken
<1> QED BY <1>10, <1>11

\* A thread that runs is not blocked.
LEMMA RunnerFree ==
    ASSUME NEW A, CoreInv(A, k, ctx), NEW c \in Tasks, OnItsWay(c)
    PROVE  /\ k.run = c /\ Sane(k) /\ c \in TCB /\ ctx \in [TCB -> ThreadState(A)]
           /\ k.status[c] \cap {"PEND", "SUSPEND", "UNUSED", "EXIT"} = {} /\ ~Stuck(k)
           /\ k.scheduled /\ c # Idle /\ c # Dummy
<1>0. /\ Sane(k) /\ c \in TCB /\ c # Idle /\ c # Dummy /\ ctx \in [TCB -> ThreadState(A)]
      /\ k.run = c /\ k.scheduled /\ Running(c) /\ ~ctx[c].win
  BY TasksAreTCBs DEF CoreInv, Running, Booting, OnItsWay
<1>1. ~Stuck(k)
  BY <1>0, DummyNeverRuns
<1>2. k.status[c] \cap {"PEND", "SUSPEND", "UNUSED", "EXIT"} = {}
  BY <1>0, <1>1 DEF Stuck, Blocked
<1> QED BY <1>0, <1>1, <1>2

\* The same in a section that a task has come to from its tests.
LEMMA WokenByTask ==
    ASSUME NEW A, At \subseteq A, CoreInv(A, k, ctx), NEW c \in Tasks, OnItsWay(c),
           ctx[c].at # "event", NEW W, \A u \in W : "PEND" \in k.status[u], Woken(k', W),
           ctx' = [ctx EXCEPT ![c] = Thread("user", Idle, W # {})]
    PROVE  StepKeeps(A) /\ EndsAll(W)
<1>1. PICK x : x = Thread("user", Idle, W # {})
  OBVIOUS
<1>2. x \in ThreadState(A) /\ x.at = "user" /\ x.win = (W # {}) /\ x.obj = Idle
  BY <1>1, TasksAreTCBs DEF Thread, ThreadState, At
<1>3. /\ k.run = c /\ c \in TCB /\ ctx \in [TCB -> ThreadState(A)]
      /\ k.status[c] \cap {"PEND", "SUSPEND", "UNUSED", "EXIT"} = {} /\ ~Stuck(k)
  BY RunnerFree
<1>4. c \notin W /\ W \subseteq Tasks
  BY <1>3 DEF Woken
<1>5. Sane(k') /\ SameCtl(k', k) /\ k'.prio = k.prio /\ k'.run = c
  BY <1>3 DEF Woken, SameCtl
<1>6. k'.status[c] = k.status[c] /\ ~Stuck(k')
  BY <1>3, <1>4, <1>5 DEF Woken, Stuck
<1>7. ASSUME NEW u \in Tasks \ {c}
      PROVE  \/ /\ k'.status[u] = k.status[u]
                /\ "READY" \notin k.status[u] => Where(k', u) = Where(k, u)
             \/ x.win /\ "PEND" \in k.status[u] /\ "UNUSED" \notin k'.status[u]
  <2>1. CASE u \in W
    <3>1. x.win /\ "PEND" \in k.status[u]
      BY <1>2, <2>1
    <3>2. k'.status[u] \cap {"PEND", "TIMEOUT", "UNUSED", "EXIT"} = k.status[u] \cap {"TIMEOUT"}
      BY <2>1 DEF Woken
    <3>3. "UNUSED" \notin k'.status[u]
      BY <3>2
    <3> QED BY <3>1, <3>3
  <2>2. CASE u \notin W
    BY <2>2 DEF Woken
  <2> QED BY <2>1, <2>2
<1>8. ctx' = [ctx EXCEPT ![c] = x] /\ ctx'[c] = x /\ \A u \in Tasks \ {c} : ctx'[u] = ctx[u]
  BY <1>1, <1>3, TasksAreTCBs
<1>9. Moves(A, c, x)
  BY <1>2, <1>3, <1>5, <1>6, <1>7, <1>8 DEF Moves, OnItsWay, Creating
<1>10. StepKeeps(A)
  BY <1>9, MoveKept
<1>11. EndsAll(W)
  BY <1>2, <1>3, <1>8 DEF EndsAll, Woken
<1> QED BY <1>10, <1>11

LEMMA WaitsEnd ==
    ASSUME NEW A, CoreInv(A, k, ctx), CoreInv(A, k', ctx'), WaitsAt({"event"}, k, ctx),
           NEW W, W \subseteq Tasks, \A u \in W : "PEND" \in k.status[u], EndsAll(W)
    PROVE  WaitsAt({"event"}, k', ctx')
<1>0. Sane(k) /\ Sane(k')
  BY DEF CoreInv
<1>1. \A u \in W : k'.status[u] \cap {"PEND", "TIMEOUT", "UNUSED"} = {} /\ "UNUSED" \notin k.status[u]
  BY <1>0, SaneFacts DEF WaitsAt, EndsAll, FlagsOK
<1>2. \A u \in Tasks \ W :
         /\ k'.status[u] = k.status[u]
         /\ \A h \in Blockers : u \in Range(k.list[h]) => u \in Range(k'.list[h])
  BY DEF EndsAll
<1>3. ASSUME NEW u \in Tasks, "PEND" \in k.status[u]
      PROVE  WaitList(ctx[u].obj) \in Blockers
  <2>1. FlagsOK(k.status[u])
    BY <1>0, SaneFacts
  <2> QED BY <1>3, <2>1, HeadsDiffer DEF WaitsAt, FlagsOK
<1>4. ASSUME NEW u \in Tasks
      PROVE  /\ "UNUSED" \notin k'.status[u] /\ ctx'[u].at = "event" => ctx'[u].obj \in WaitObjs
             /\ "PEND" \in k'.status[u] =>
                   /\ ctx'[u].at = "event"
                   /\ "TIMEOUT" \notin k'.status[u]
                   /\ u \in Range(k'.list[WaitList(ctx'[u].obj)])
             /\ "UNUSED" \notin k'.status[u] /\ ctx'[u].at # "event" => "TIMEOUT" \notin k'.status[u]
  <2>1. CASE ctx'[u].at = ctx[u].at /\ ctx'[u].obj = ctx[u].obj
    BY <1>1, <1>2, <1>3, <2>1 DEF WaitsAt
  <2>2. CASE "PEND" \notin k.status[u] /\ ctx[u].at # "event" /\ ctx'[u].at = "user"
    <3>1. u \notin W /\ k'.status[u] = k.status[u]
      BY <1>2, <2>2
    <3> QED BY <2>2, <3>1 DEF WaitsAt
  <2> QED BY <2>1, <2>2 DEF EndsAll
<1> QED BY <1>4 DEF WaitsAt

-----------------------------------------------------------------------------
(***************************************************************************)
(* The invariant of events.  Its parts about the kernel are those of the   *)
(* semaphores; EventData says that nobody waits at a closed control block  *)
(* or for bits that are there, and CheckedOpen that what the tests of a    *)
(* call have found still holds when its section comes.                     *)
(***************************************************************************)
EventAt == At \cup Checked \cup {"event"}

CheckedOpen(kk, x, ec) ==
    \A t \in Tasks : "UNUSED" \notin kk.status[t] /\ x[t].at \in Checked =>
                        x[t].obj \in Events /\ ec[x[t].obj].ready

EventBlock == [ready : BOOLEAN, id : SUBSET Bits]

EventData(kk, ec, rq) ==
    /\ ec \in [Events -> EventBlock]
    /\ rq \in [Tasks -> Request]
    /\ \A e \in Events :
          /\ ~ec[e].ready => kk.list[WaitList(e)] = << >>
          /\ \A t \in Range(kk.list[WaitList(e)]) : PollResult(ec[e].id, rq[t]) = {}

EventSafe ==
    /\ CoreInv(EventAt, k, ctx)
    /\ Highest(k, ctx)
    /\ WaitsAt({"event"}, k, ctx)
    /\ EventData(k, ev, want)
    /\ CheckedOpen(k, ctx, ev)

LEMMA EventPlaces ==
    /\ {"event"} \cap At = {} /\ At \subseteq EventAt /\ "event" \in EventAt
    /\ Checked \cap At = {} /\ Checked \subseteq EventAt /\ "event" \notin Checked
    /\ Checked \cap (Creating \cup {"join"}) = {} /\ "user" \notin Checked
  BY DEF At, EventAt, Checked, Creating

LEMMA NoRequestType == NoRequest \in Request
<1>1. Bits \in (SUBSET Bits) \ {{}}
  BY EventAssumption
<1> QED BY <1>1 DEF NoRequest, Request

\* Fewer bits satisfy no more requests.
LEMMA PollMonotone ==
    ASSUME NEW id, NEW less, less \subseteq id, NEW r, PollResult(id, r) = {}
    PROVE  PollResult(less, r) = {}
<1>1. CASE r.and /\ ~(r.mask \subseteq id)
  <2>1. ~(r.mask \subseteq less)
    BY <1>1
  <2> QED BY <1>1, <2>1 DEF PollResult
<1>2. CASE ~(r.and /\ ~(r.mask \subseteq id))
  <2>1. id \cap r.mask = {}
    BY <1>2 DEF PollResult
  <2>2. less \cap r.mask = {}
    BY <2>1
  <2> QED BY <2>2 DEF PollResult
<1> QED BY <1>1, <1>2

\* Whatever takes bits away and lets waiters go keeps the data sound.
LEMMA DataShrinks ==
    ASSUME EventData(k, ev, want), ev' \in [Events -> EventBlock], want' \in [Tasks -> Request],
           \A e \in Events :
              /\ ev'[e].id \subseteq ev[e].id
              /\ k.list[WaitList(e)] = << >> => k'.list[WaitList(e)] = << >>
              /\ ~ev'[e].ready => ~ev[e].ready \/ k.list[WaitList(e)] = << >>
              /\ \A t \in Range(k'.list[WaitList(e)]) :
                    t \in Range(k.list[WaitList(e)]) /\ want'[t] = want[t]
    PROVE  EventData(k', ev', want')
<1>1. ASSUME NEW e \in Events
      PROVE  ~ev'[e].ready => k'.list[WaitList(e)] = << >>
  BY DEF EventData
<1>2. ASSUME NEW e \in Events, NEW t \in Range(k'.list[WaitList(e)])
      PROVE  PollResult(ev'[e].id, want'[t]) = {}
  <2>1. t \in Range(k.list[WaitList(e)]) /\ want'[t] = want[t] /\ ev'[e].id \subseteq ev[e].id
    OBVIOUS
  <2>2. PollResult(ev[e].id, want[t]) = {}
    BY <2>1 DEF EventData
  <2>3. PollResult(ev'[e].id, want[t]) = {}
    BY <2>1, <2>2, PollMonotone
  <2> QED BY <2>1, <2>3
<1> QED BY <1>1, <1>2 DEF EventData

\* What LOS_EventPoll does to the control blocks.
LEMMA PollShrinks ==
    ASSUME ev \in [Events -> EventBlock], NEW e, NEW r, Poll(e, r)
    PROVE  /\ ev' \in [Events -> EventBlock]
           /\ \A x \in Events : ev'[x].id \subseteq ev[x].id /\ ev'[x].ready = ev[x].ready
<1>1. PICK id : id = IF r.clr THEN ev[e].id \ PollResult(ev[e].id, r) ELSE ev[e].id
  OBVIOUS
<1>2. id \subseteq ev[e].id
  BY <1>1
<1>3. ev' = [ev EXCEPT ![e].id = id]
  BY <1>1 DEF Poll
<1> QED BY <1>2, <1>3 DEF EventBlock

\* What the tests of a call have found outlasts the steps of Task, ...
LEMMA TaskStepChecked ==
    ASSUME Sane(k), Waits, CheckedOpen(k, ctx, ev), ev' = ev
    PROVE  CheckedOpen(k', ctx', ev')
<1> SUFFICES ASSUME NEW u \in Tasks, "UNUSED" \notin k'.status[u], ctx'[u].at \in Checked
             PROVE  ctx'[u].obj \in Events /\ ev[ctx'[u].obj].ready
  BY DEF CheckedOpen
<1>1. CASE SameWait(k', ctx', k, ctx, u)
  BY <1>1, EventPlaces DEF SameWait, WaitFlags, CheckedOpen
<1>2. ASSUME NEW t \in Tasks, TimesOut(t) PROVE ctx'[u].obj \in Events /\ ev[ctx'[u].obj].ready
  <2>1. CASE u = t
    <3>1. "UNUSED" \notin k.status[u] /\ ctx'[u] = ctx[u]
      BY <1>2, <2>1, SaneFacts DEF TimesOut, FlagsOK
    <3> QED BY <3>1 DEF CheckedOpen
  <2> QED BY <1>1, <1>2, <2>1 DEF TimesOut, OthersWait
<1>3. ASSUME NEW t \in Tasks, Dies(t) PROVE ctx'[u].obj \in Events /\ ev[ctx'[u].obj].ready
  <2>1. u # t
    BY <1>3 DEF Dies
  <2> QED BY <1>1, <1>3, <2>1 DEF Dies, OthersWait
<1> QED BY <1>1, <1>2, <1>3 DEF Waits, Calm

\* ... and the steps of others in this module that close no event.
LEMMA StepChecked ==
    ASSUME CheckedOpen(k, ctx, ev), \A x \in Events : ev[x].ready => ev'[x].ready,
           \A u \in Tasks : "UNUSED" \notin k'.status[u] /\ ctx'[u].at \in Checked =>
              /\ "UNUSED" \notin k.status[u] /\ ctx'[u].at = ctx[u].at /\ ctx'[u].obj = ctx[u].obj
    PROVE  CheckedOpen(k', ctx', ev')
  BY DEF CheckedOpen

LEMMA EventTaskStepKept ==
    ASSUME EventSafe, Plain, Next, UNCHANGED <<ev, want>>
    PROVE  EventSafe'
<1>1. /\ CoreInv(EventAt, k, ctx) /\ Highest(k, ctx) /\ WaitsAt({"event"}, k, ctx)
      /\ EventData(k, ev, want) /\ ev' = ev /\ want' = want
  BY DEF EventSafe
<1>2. StepKeeps(EventAt) /\ Waits
  BY <1>1, EventPlaces, NextKept, NextWaits
<1>3. CoreInv(EventAt, k', ctx') /\ Highest(k', ctx')
  BY <1>1, <1>2 DEF StepKeeps
<1>4. WaitsAt({"event"}, k', ctx')
  BY <1>1, <1>2, <1>3, EventPlaces, WaitsGoOn
<1>5. \A h \in Blockers : /\ k.list[h] = << >> => k'.list[h] = << >>
                          /\ Range(k'.list[h]) \subseteq Range(k.list[h])
  BY <1>1, <1>2, ListsShrink DEF CoreInv
<1>6. \A e \in Events : WaitList(e) \in Blockers
  BY HeadsDiffer DEF Events
<1>7. EventData(k', ev', want')
  <2>1. ev' \in [Events -> EventBlock] /\ want' \in [Tasks -> Request]
    BY <1>1 DEF EventData
  <2> QED BY <1>1, <1>5, <1>6, <2>1, DataShrinks
<1>8. CheckedOpen(k', ctx', ev')
  BY <1>1, <1>2, TaskStepChecked DEF EventSafe, CoreInv
<1> QED BY <1>3, <1>4, <1>7, <1>8 DEF EventSafe

\* The calls that change a control block and no task.
LEMMA BlockOnlyKept ==
    ASSUME EventSafe, UNCHANGED <<k, ctx, want>>, ev' \in [Events -> EventBlock],
           CheckedOpen(k, ctx, ev'),
           \A e \in Events :
              /\ ev'[e].id \subseteq ev[e].id
              /\ ~ev'[e].ready => ~ev[e].ready \/ k.list[WaitList(e)] = << >>
    PROVE  EventSafe'
<1>1. EventData(k, ev, want) /\ k' = k /\ ctx' = ctx /\ want' = want
  BY DEF EventSafe
<1>2. want' \in [Tasks -> Request]
  BY <1>1 DEF EventData
<1>3. EventData(k', ev', want')
  BY <1>1, <1>2, DataShrinks
<1>4. CheckedOpen(k', ctx', ev')
  BY <1>1
<1> QED BY <1>1, <1>3, <1>4 DEF EventSafe

LEMMA EventPollKept ==
    ASSUME EventSafe, NEW e \in Events, NEW r \in Request, Poll(e, r), UNCHANGED <<k, ctx, want>>
    PROVE  EventSafe'
<1>1. ev \in [Events -> EventBlock]
  BY DEF EventSafe, EventData
<1>2. /\ ev' \in [Events -> EventBlock]
      /\ \A x \in Events : ev'[x].id \subseteq ev[x].id /\ ev'[x].ready = ev[x].ready
  BY <1>1, PollShrinks
<1>3. CheckedOpen(k, ctx, ev')
  BY <1>2 DEF EventSafe, CheckedOpen
<1> QED BY <1>2, <1>3, BlockOnlyKept

LEMMA EventInitKept ==
    ASSUME EventSafe, ~CloseInUse, NEW c, NEW e \in Events, LOS_EventInit(c, e)
    PROVE  EventSafe'
<1>0. k' = k
  <2>1. PICK h : h = WaitList(e)
    OBVIOUS
  <2>2. h \in Head_ /\ k.list[h] = << >> /\ k' = [k EXCEPT !.list[h] = << >>]
    BY <2>1, HeadsDiffer DEF LOS_EventInit, Events
  <2>3. k \in KernelState
    BY DEF EventSafe, CoreInv, Sane, KInv
  <2>4. [k.list EXCEPT ![h] = << >>] = k.list
    BY <2>2, <2>3 DEF KernelState
  <2> QED BY <2>2, <2>3, <2>4 DEF KernelState
<1>1. /\ ev \in [Events -> EventBlock] /\ ev' = [ev EXCEPT ![e] = [ready |-> TRUE, id |-> {}]]
      /\ UNCHANGED <<k, ctx, want>>
  BY <1>0 DEF EventSafe, EventData, LOS_EventInit
<1>2. /\ ev' \in [Events -> EventBlock]
      /\ \A x \in Events : ev'[x].id \subseteq ev[x].id /\ (~ev'[x].ready => ~ev[x].ready)
  BY <1>1 DEF EventBlock
<1>3. CheckedOpen(k, ctx, ev')
  BY <1>2 DEF EventSafe, CheckedOpen
<1> QED BY <1>1, <1>2, <1>3, BlockOnlyKept

LEMMA EventDestroyKept ==
    ASSUME EventSafe, ~CloseInUse, NEW c, NEW e \in Events, LOS_EventDestroy(c, e)
    PROVE  EventSafe'
<1>1. /\ ev \in [Events -> EventBlock] /\ ev' = [ev EXCEPT ![e].ready = FALSE]
      /\ k.list[WaitList(e)] = << >> /\ UNCHANGED <<k, ctx, want>>
  BY DEF EventSafe, EventData, LOS_EventDestroy
<1>2. /\ ev' \in [Events -> EventBlock]
      /\ \A x \in Events : /\ ev'[x].id \subseteq ev[x].id
                           /\ ~ev'[x].ready => ~ev[x].ready \/ k.list[WaitList(x)] = << >>
                           /\ x # e => ev'[x].ready = ev[x].ready
  BY <1>1 DEF EventBlock
<1>3. CheckedOpen(k, ctx, ev')
  <2>1. \A t \in Tasks : "UNUSED" \notin k.status[t] /\ ctx[t].at \in Checked => ctx[t].obj # e
    BY DEF LOS_EventDestroy, Between, Has
  <2> QED BY <1>2, <2>1 DEF EventSafe, CheckedOpen
<1> QED BY <1>1, <1>2, <1>3, BlockOnlyKept

LEMMA EventClearKept ==
    ASSUME EventSafe, NEW c, NEW e \in Events, NEW mask, LOS_EventClear(c, e, mask)
    PROVE  EventSafe'
<1>1. PICK id : id = ev[e].id \cap mask
  OBVIOUS
<1>2. /\ ev \in [Events -> EventBlock] /\ ev' = [ev EXCEPT ![e].id = id]
      /\ id \subseteq ev[e].id /\ UNCHANGED <<k, ctx, want>>
  BY <1>1 DEF EventSafe, EventData, LOS_EventClear
<1>3. /\ ev' \in [Events -> EventBlock]
      /\ \A x \in Events : ev'[x].id \subseteq ev[x].id /\ ev'[x].ready = ev[x].ready
  BY <1>2 DEF EventBlock
<1>4. CheckedOpen(k, ctx, ev')
  BY <1>3 DEF EventSafe, CheckedOpen
<1> QED BY <1>2, <1>3, <1>4, BlockOnlyKept

\* A task that neither waits nor wakes anybody goes on to another place.
LEMMA EventGoKept ==
    ASSUME EventSafe, NEW c \in Tasks, OnItsWay(c), ctx[c].at # "event",
           k' = k, want' = want, NEW x \in ThreadState(EventAt), ~x.win,
           x.at \notin Creating \cup {"join", "event"}, ctx' = [ctx EXCEPT ![c] = x],
           x.at \in Checked => x.obj \in Events /\ ev[x.obj].ready,
           ev' \in [Events -> EventBlock],
           \A y \in Events : ev'[y].id \subseteq ev[y].id /\ ev'[y].ready = ev[y].ready
    PROVE  EventSafe'
<1>0. /\ CoreInv(EventAt, k, ctx) /\ Highest(k, ctx) /\ WaitsAt({"event"}, k, ctx)
      /\ EventData(k, ev, want) /\ CheckedOpen(k, ctx, ev)
  BY DEF EventSafe
<1>1. /\ k.run = c /\ Sane(k) /\ c \in TCB /\ ctx \in [TCB -> ThreadState(EventAt)]
      /\ k.status[c] \cap {"PEND", "SUSPEND", "UNUSED", "EXIT"} = {} /\ ~Stuck(k)
  BY <1>0, RunnerFree
<1>2. ctx'[c] = x /\ \A u \in Tasks \ {c} : ctx'[u] = ctx[u]
  BY <1>1, TasksAreTCBs
<1>3. /\ Sane(k') /\ SameCtl(k', k) /\ k'.prio = k.prio /\ ~Stuck(k')
      /\ k'.status[c] \cap {"UNUSED", "SUSPEND"} = {}
      /\ \A u \in Tasks : k'.status[u] = k.status[u] /\ Where(k', u) = Where(k, u)
  BY <1>1 DEF SameCtl
<1>4. Moves(EventAt, c, x)
  BY <1>3 DEF Moves, OnItsWay
<1>5. CoreInv(EventAt, k', ctx') /\ Highest(k', ctx')
  BY <1>0, <1>4, MoveKept DEF StepKeeps
<1>6. WaitsAt({"event"}, k', ctx')
  BY <1>0, <1>1, <1>2 DEF WaitsAt
<1>7. EventData(k', ev', want')
  <2>1. want' \in [Tasks -> Request]
    BY <1>0 DEF EventData
  <2> QED BY <1>0, <2>1, DataShrinks
<1>8. CheckedOpen(k', ctx', ev')
  BY <1>0, <1>2 DEF CheckedOpen
<1> QED BY <1>5, <1>6, <1>7, <1>8 DEF EventSafe

\* The tests of LOS_EventRead and LOS_EventWrite.
LEMMA EventCheckKept ==
    ASSUME EventSafe, NEW c \in Tasks, NEW e \in Events, LOS_EventRead(c, e) \/ LOS_EventWrite(c, e)
    PROVE  EventSafe'
<1>1. PICK place \in Checked :
         /\ ev[e].ready /\ ctx' = [ctx EXCEPT ![c] = Thread(place, e, FALSE)]
         /\ UNCHANGED <<k, ev, want>> /\ InUser(c)
  BY TasksAreTCBs, TaskAssumption DEF LOS_EventRead, LOS_EventWrite, Checked, Caller
<1>2. PICK x : x = Thread(place, e, FALSE)
  OBVIOUS
<1>3. /\ x \in ThreadState(EventAt) /\ ~x.win /\ x.at = place /\ x.obj = e
      /\ x.at \notin Creating \cup {"join", "event"} /\ ctx' = [ctx EXCEPT ![c] = x]
  BY <1>1, <1>2, EventPlaces DEF Thread, ThreadState, Events
<1>4. OnItsWay(c) /\ ctx[c].at # "event"
  BY <1>1 DEF InUser, OnItsWay, Creating
<1>5. ev \in [Events -> EventBlock] /\ ev' = ev /\ k' = k /\ want' = want
  BY <1>1 DEF EventSafe, EventData
<1> QED BY <1>1, <1>3, <1>4, <1>5, EventGoKept

LEMMA EventReadKept ==
    ASSUME EventSafe, NEW c \in Tasks, NEW r \in Request, EventReadSection(c, r)
    PROVE  EventSafe'
<1>e. PICK e : e = ctx[c].obj
  OBVIOUS
<1>0. /\ CoreInv(EventAt, k, ctx) /\ Highest(k, ctx) /\ WaitsAt({"event"}, k, ctx) /\ Sane(k)
      /\ EventData(k, ev, want) /\ CheckedOpen(k, ctx, ev)
      /\ OnItsWay(c) /\ ctx[c].at = "eventread" /\ ctx[c].at \in Checked
  BY DEF EventSafe, EventReadSection, CoreInv, OnItsWay, Creating, Checked
<1>a. k.status[c] \cap {"PEND", "SUSPEND", "UNUSED", "EXIT"} = {}
  BY <1>0, RunnerFree
<1>b. e \in Events /\ ev[e].ready
  BY <1>0, <1>a, <1>e DEF CheckedOpen
<1>1. CASE Poll(e, r) /\ ctx' = [ctx EXCEPT ![c] = UserThread] /\ UNCHANGED <<k, want>>
  <2>1. ev \in [Events -> EventBlock]
    BY <1>0 DEF EventData
  <2>2. /\ ev' \in [Events -> EventBlock]
        /\ \A x \in Events : ev'[x].id \subseteq ev[x].id /\ ev'[x].ready = ev[x].ready
    BY <1>1, <2>1, PollShrinks
  <2>3. PICK x : x = UserThread
    OBVIOUS
  <2>4. /\ x \in ThreadState(EventAt) /\ ~x.win /\ x.at = "user" /\ x.at \notin Checked
        /\ x.at \notin Creating \cup {"join", "event"} /\ ctx' = [ctx EXCEPT ![c] = x]
    BY <1>1, <2>3, TasksAreTCBs, EventPlaces DEF UserThread, Thread, ThreadState, At, Creating
  <2> QED BY <1>0, <1>1, <2>2, <2>4, EventGoKept
<1>2. CASE ~(Poll(e, r) /\ ctx' = [ctx EXCEPT ![c] = UserThread] /\ UNCHANGED <<k, want>>)
  <2>0. /\ PollResult(ev[e].id, r) = {} /\ k.lock = 0 /\ want' = [want EXCEPT ![c] = r]
        /\ \E timed \in BOOLEAN : k' = Through(e, OsSchedTaskWait(k, WaitList(e), timed))
        /\ ctx' = [ctx EXCEPT ![c] = Thread("event", e, TRUE)] /\ ev' = ev
    BY <1>2, <1>e DEF EventReadSection
  <2>1. PICK timed \in BOOLEAN : k' = OsSchedTaskWait(k, WaitList(e), timed)
    BY <1>b, <2>0 DEF Through
  <2>2. /\ ctx' = [ctx EXCEPT ![c] = Thread("event", e, TRUE)] /\ ev' = ev /\ k.lock = 0
        /\ want' = [want EXCEPT ![c] = r]
    BY <2>0
  <2>3. Reprioritised(k)
    BY <1>0 DEF Reprioritised, SameCtl, SameWaiters
  <2>4. /\ Thread("event", e, TRUE) \in ThreadState(EventAt) /\ Thread("event", e, TRUE).win
        /\ Thread("event", e, TRUE).at = "event" /\ Thread("event", e, TRUE).obj = e
    BY <1>b, EventPlaces DEF Thread, ThreadState, Events
  <2>5. "event" \notin Creating \cup {"join"} /\ WaitList(e) \in Blockers
    BY <1>b, HeadsDiffer DEF Creating, Events
  <2>7. StepKeeps(EventAt) /\ Begins(c, WaitList(e)) /\ ctx'[c] = Thread("event", e, TRUE)
    <3>1. PICK x \in ThreadState(EventAt) : x = Thread("event", e, TRUE)
      BY <2>4
    <3>2. PICK h \in Blockers : h = WaitList(e)
      BY <2>5
    <3>3. /\ k' = OsSchedTaskWait(k, h, timed) /\ x.win
          /\ x.at \notin Creating \cup {"join"} /\ ctx' = [ctx EXCEPT ![c] = x]
      BY <2>1, <2>2, <2>4, <2>5, <3>1, <3>2
    <3>c. CoreInv(EventAt, k, ctx) /\ OnItsWay(c) /\ k.lock = 0
      BY <1>0, <2>2
    <3>4. StepKeeps(EventAt) /\ Begins(c, h) /\ ctx'[c] = x /\ k'.prio = k.prio
      BY ONLY <2>3, <3>3, <3>c, RunnerWaits, c \in Tasks, h \in Blockers, timed \in BOOLEAN,
              x \in ThreadState(EventAt)
    <3> QED BY <3>1, <3>2, <3>4
  <2>8. CoreInv(EventAt, k', ctx') /\ Highest(k', ctx')
    BY <1>0, <2>7 DEF StepKeeps
  <2>9. WaitsAt({"event"}, k', ctx')
    BY <1>0, <1>b, <2>4, <2>7, <2>8, EventPlaces, WaitBegins DEF Events
  <2>10. EventData(k', ev', want')
    <3>1. \A x \in Events : WaitList(x) \in Blockers /\ (x # e => WaitList(x) # WaitList(e))
      BY <1>b, HeadsDiffer DEF WaitList, Events
    <3>2. \A x \in Events : /\ c \notin Range(k.list[WaitList(x)])
                            /\ k.list[WaitList(x)] \in Seq(Tasks)
      <4>1. "PEND" \notin k.status[c] /\ KInv(k) /\ ~k.fault
        BY <1>0, <2>7 DEF Begins, Sane
      <4> QED BY <1>0, <3>1, <4>1, LeftIsSame, BlockerLists
    <3>3. \A x \in Events : x # e => k'.list[WaitList(x)] = k.list[WaitList(x)]
      BY <2>7, <3>1 DEF Begins
    <3>4. Range(k'.list[WaitList(e)]) = Range(k.list[WaitList(e)]) \cup {c}
      BY <1>b, <2>7, <3>2, AppendRange DEF Begins
    <3>5. want' \in [Tasks -> Request] /\ want'[c] = r /\ \A t : t # c /\ t \in Tasks => want'[t] = want[t]
      BY <1>0, <2>2 DEF EventData
    <3>6. \A x \in Events : ~ev'[x].ready => k'.list[WaitList(x)] = << >>
      BY <1>0, <1>b, <2>2, <3>3 DEF EventData
    <3>7. ASSUME NEW x \in Events, NEW t \in Range(k'.list[WaitList(x)])
          PROVE  PollResult(ev'[x].id, want'[t]) = {}
      <4>0. \A y \in Events : \A u \in Range(k.list[WaitList(y)]) :
               u \in Tasks /\ u # c /\ PollResult(ev[y].id, want[u]) = {}
        <5>1. \A y \in Events : Range(k.list[WaitList(y)]) \subseteq Tasks
          BY <3>2 DEF Range
        <5> QED BY <1>0, <3>2, <5>1 DEF EventData
      <4>1. CASE x = e /\ t = c
        BY <2>0, <2>2, <3>5, <4>1
      <4>2. CASE ~(x = e /\ t = c)
        <5>1. t \in Range(k.list[WaitList(x)])
          BY <3>3, <3>4, <4>2
        <5> QED BY <2>2, <3>5, <4>0, <5>1
      <4> QED BY <4>1, <4>2
    <3> QED BY <1>0, <2>2, <3>5, <3>6, <3>7 DEF EventData
  <2>11. CheckedOpen(k', ctx', ev')
    <3>1. ctx'[c].at \notin Checked
      BY <2>4, <2>7, EventPlaces
    <3> QED BY <1>0, <2>2, <2>7, <3>1, StepChecked DEF Begins
  <2> QED BY <2>8, <2>9, <2>10, <2>11 DEF EventSafe
<1> QED BY <1>1, <1>2

LEMMA EventReturnKept ==
    ASSUME EventSafe, NEW c \in Tasks, EventReadReturn(c)
    PROVE  EventSafe'
<1>0. /\ CoreInv(EventAt, k, ctx) /\ Highest(k, ctx) /\ WaitsAt({"event"}, k, ctx)
      /\ EventData(k, ev, want) /\ Running(c) /\ ~ctx[c].win /\ ctx[c].at \notin Creating
      /\ k' = SetStatus(k, c, {"TIMEOUT"}, {}) /\ ctx' = [ctx EXCEPT ![c] = UserThread]
      /\ want' = [want EXCEPT ![c] = NoRequest]
      /\ KInv(k) /\ ~k.fault /\ Sane(k)
  BY DEF EventSafe, EventReadReturn, Creating, CoreInv, Sane
<1>1. /\ StepKeeps(EventAt) /\ k'.list = k.list /\ k'.status[c] = k.status[c] \ {"TIMEOUT"}
      /\ \A u \in Tasks \ {c} : k'.status[u] = k.status[u] /\ ctx'[u] = ctx[u]
      /\ ctx'[c] = UserThread /\ k.status[c] \cap (Blocked \cup {"DELAY"}) = {}
  BY <1>0, EventPlaces, ReturnKept
<1>2. "PEND" \notin k.status[c]
  BY <1>1 DEF Blocked
<1>3. WaitsAt({"event"}, k', ctx')
  BY <1>0, <1>1, <1>2, EventPlaces, WaitReturns
<1>4. /\ ev' \in [Events -> EventBlock]
      /\ \A x \in Events : ev'[x].id \subseteq ev[x].id /\ ev'[x].ready = ev[x].ready
  <2>1. ev \in [Events -> EventBlock]
    BY <1>0 DEF EventData
  <2>2. CASE Has(k, c, {"TIMEOUT"})
    <3>1. ev' = ev
      BY <2>2 DEF EventReadReturn
    <3> QED BY <2>1, <3>1
  <2>3. CASE ~Has(k, c, {"TIMEOUT"})
    <3>1. Poll(ctx[c].obj, want[c])
      BY <2>3 DEF EventReadReturn
    <3>2. PICK o, r : o = ctx[c].obj /\ r = want[c]
      OBVIOUS
    <3>3. Poll(o, r)
      BY <3>1, <3>2
    <3> QED BY <2>1, <3>3, PollShrinks
  <2> QED BY <2>2, <2>3
<1>5. \A x \in Events : /\ WaitList(x) \in Blockers /\ c \notin Range(k.list[WaitList(x)])
                        /\ k.list[WaitList(x)] \in Seq(Tasks)
  <2>1. \A x \in Events : WaitList(x) \in Blockers
    BY HeadsDiffer DEF Events
  <2> QED BY <1>0, <1>2, <2>1, LeftIsSame, BlockerLists
<1>6. want' \in [Tasks -> Request] /\ \A t \in Tasks : t # c => want'[t] = want[t]
  BY <1>0, NoRequestType DEF EventData
<1>7. \A x \in Events : \A t \in Range(k.list[WaitList(x)]) : t \in Tasks /\ t # c
  BY <1>5 DEF Range
<1>8. EventData(k', ev', want')
  <2>1. \A e \in Events :
           /\ ev'[e].id \subseteq ev[e].id
           /\ k.list[WaitList(e)] = << >> => k'.list[WaitList(e)] = << >>
           /\ ~ev'[e].ready => ~ev[e].ready \/ k.list[WaitList(e)] = << >>
           /\ \A t \in Range(k'.list[WaitList(e)]) :
                 t \in Range(k.list[WaitList(e)]) /\ want'[t] = want[t]
    BY <1>1, <1>4, <1>6, <1>7
  <2> QED BY <1>0, <1>4, <1>6, <2>1, DataShrinks
<1>9. CheckedOpen(k', ctx', ev')
  <2>1. ctx'[c].at \notin Checked
    BY <1>1, EventPlaces DEF UserThread, Thread
  <2>2. CheckedOpen(k, ctx, ev)
    BY DEF EventSafe
  <2> QED BY <1>1, <1>4, <2>1, <2>2, StepChecked
<1> QED BY <1>0, <1>1, <1>3, <1>8, <1>9 DEF EventSafe, StepKeeps

\* Every waiter whose bits are there is woken, at once; the bits that the others wait
\* for are still not there.
LEMMA EventWrittenKept ==
    ASSUME EventSafe, NEW e \in Events, NEW events \in SUBSET Bits,
           NEW W, W = Satisfied(e, events), W \subseteq Tasks, \A u \in W : "PEND" \in k.status[u],
           StepKeeps(EventAt), EndsAll(W),
           ev' = [ev EXCEPT ![e].id = @ \cup events], want' = want
    PROVE  EventSafe'
<1>1. PICK id, q, h : id = ev[e].id \cup events /\ h = WaitList(e) /\ q = k.list[h]
  OBVIOUS
<1>2. W = {t \in Range(q) : Wakes(t, events, id)}
  BY <1>1 DEF Satisfied
<1>0. /\ CoreInv(EventAt, k, ctx) /\ Highest(k, ctx) /\ WaitsAt({"event"}, k, ctx) /\ Sane(k)
      /\ EventData(k, ev, want) /\ CheckedOpen(k, ctx, ev) /\ want' = want
      /\ ev' = [ev EXCEPT ![e].id = id]
  BY <1>1 DEF EventSafe, CoreInv
<1>8. StepKeeps(EventAt) /\ EndsAll(W)
  OBVIOUS
<1>9. CoreInv(EventAt, k', ctx') /\ Highest(k', ctx') /\ Sane(k')
  BY <1>0, <1>8 DEF StepKeeps, CoreInv
<1>10. WaitsAt({"event"}, k', ctx')
  BY <1>0, <1>8, <1>9, WaitsEnd
<1>11. EventData(k', ev', want')
  <2>1. \A x \in Events : WaitList(x) \in Blockers
    BY HeadsDiffer DEF Events
  <2>2. \A x \in Events : /\ k.list[WaitList(x)] \in Seq(Tasks) /\ k'.list[WaitList(x)] \in Seq(Tasks)
                          /\ Range(k'.list[WaitList(x)]) = Range(k.list[WaitList(x)]) \ W
    BY <1>0, <1>8, <1>9, <2>1, BlockerLists DEF EndsAll
  <2>3. /\ ev' \in [Events -> EventBlock] /\ want' \in [Tasks -> Request]
        /\ ev'[e].id = id /\ \A x \in Events : /\ ev'[x].ready = ev[x].ready
                                               /\ x # e => ev'[x].id = ev[x].id
    BY <1>0, <1>1 DEF EventData, EventBlock
  <2>4. ASSUME NEW x \in Events, ~ev'[x].ready PROVE k'.list[WaitList(x)] = << >>
    <3>1. k.list[WaitList(x)] = << >>
      BY <1>0, <2>3, <2>4 DEF EventData
    <3>2. Range(<< >>) = {}
      BY DEF Range
    <3>3. Range(k'.list[WaitList(x)]) = {}
      BY <2>2, <3>1, <3>2
    <3>4. PICK s \in Seq(Tasks) : s = k'.list[WaitList(x)]
      BY <2>2
    <3>5. s # << >> => s[1] \in Range(s)
      BY <3>4, FirstOfList
    <3> QED BY <3>3, <3>4, <3>5
  <2>5. ASSUME NEW x \in Events, NEW t \in Range(k'.list[WaitList(x)])
        PROVE  PollResult(ev'[x].id, want'[t]) = {}
    <3>1. t \in Range(k.list[WaitList(x)]) /\ t \notin W
      BY <2>2
    <3>2. PollResult(ev[x].id, want[t]) = {}
      BY <1>0, <3>1 DEF EventData
    <3>3. CASE x # e
      BY <1>0, <2>3, <3>2, <3>3
    <3>4. CASE x = e
      <4>1. ~Wakes(t, events, id)
        BY <1>1, <1>2, <3>1, <3>4
      <4>2. CASE want[t].and
        <5>1. ~(want[t].mask \subseteq id)
          BY <4>1, <4>2 DEF Wakes
        <5> QED BY <1>0, <2>3, <3>4, <4>2, <5>1 DEF PollResult
      <4>3. CASE ~want[t].and
        <5>1. want[t].mask \cap events = {}
          BY <4>1, <4>3 DEF Wakes
        <5>2. ev[e].id \cap want[t].mask = {}
          BY <3>2, <3>4, <4>3 DEF PollResult
        <5>3. id \cap want[t].mask = {}
          BY <1>1, <5>1, <5>2
        <5> QED BY <1>0, <2>3, <3>4, <4>3, <5>3 DEF PollResult
      <4> QED BY <4>2, <4>3
    <3> QED BY <3>3, <3>4
  <2> QED BY <2>3, <2>4, <2>5 DEF EventData
<1>12. CheckedOpen(k', ctx', ev')
  <2>1. \A x \in Events : ev[x].ready => ev'[x].ready
    BY <1>0 DEF EventData, EventBlock
  <2>2. ASSUME NEW u \in Tasks, "UNUSED" \notin k'.status[u], ctx'[u].at \in Checked
        PROVE  "UNUSED" \notin k.status[u] /\ ctx'[u].at = ctx[u].at /\ ctx'[u].obj = ctx[u].obj
    <3>1. ctx'[u].at = ctx[u].at /\ ctx'[u].obj = ctx[u].obj
      BY <1>8, <2>2, EventPlaces DEF EndsAll
    <3>2. "UNUSED" \notin k.status[u]
      <4>1. CASE u \in W
        BY <1>0, <4>1, SaneFacts DEF FlagsOK
      <4>2. CASE u \notin W
        BY <1>8, <2>2, <4>2 DEF EndsAll
      <4> QED BY <4>1, <4>2
    <3> QED BY <3>1, <3>2
  <2> QED BY <1>0, <2>1, <2>2, StepChecked
<1> QED BY <1>9, <1>10, <1>11, <1>12 DEF EventSafe

\* The waiters of an open event that LOS_EventWrite finds satisfied, and what it makes of k.
LEMMA WrittenIs ==
    ASSUME Sane(k), NEW e \in Events, ev[e].ready, NEW events, NEW W, W = Satisfied(e, events)
    PROVE  Woken(WriteEffect(e, events), W) /\ W \subseteq Tasks /\ \A u \in W : "PEND" \in k.status[u]
<1>1. PICK q, h : h = WaitList(e) /\ q = k.list[h]
  OBVIOUS
<1>2. h \in Blockers /\ W \subseteq Range(q)
  BY <1>1, HeadsDiffer DEF Events, Satisfied
<1>3. Woken(WakeAll(k, q, W), W)
  BY <1>1, <1>2, LoopWakes
<1>4. WriteEffect(e, events) = WakeAll(k, q, W)
  BY <1>1 DEF WriteEffect, Through
<1>5. W \subseteq Tasks
  BY <1>3 DEF Woken
<1> QED BY <1>1, <1>2, <1>3, <1>4, <1>5, OnOneList

LEMMA EventWriteKept ==
    ASSUME EventSafe, NEW c \in Tasks, NEW events \in SUBSET Bits, EventWriteSection(c, events)
    PROVE  EventSafe'
<1>1. PICK e, W : e = ctx[c].obj /\ W = Satisfied(e, events)
  OBVIOUS
<1>0. /\ CoreInv(EventAt, k, ctx) /\ Sane(k) /\ CheckedOpen(k, ctx, ev)
      /\ OnItsWay(c) /\ ctx[c].at # "event" /\ ctx[c].at \in Checked
      /\ ev' = [ev EXCEPT ![e].id = @ \cup events] /\ want' = want
      /\ k' = WriteEffect(e, events) /\ ctx' = [ctx EXCEPT ![c] = Thread("user", Idle, W # {})]
  BY <1>1 DEF EventSafe, EventWriteSection, CoreInv, OnItsWay, Creating, Checked
<1>2. k.status[c] \cap {"PEND", "SUSPEND", "UNUSED", "EXIT"} = {}
  BY <1>0, RunnerFree
<1>3. e \in Events /\ ev[e].ready
  BY <1>0, <1>1, <1>2 DEF CheckedOpen
<1>4. Woken(k', W) /\ W \subseteq Tasks /\ \A u \in W : "PEND" \in k.status[u]
  BY <1>0, <1>1, <1>3, WrittenIs
<1>5. StepKeeps(EventAt) /\ EndsAll(W)
  BY <1>0, <1>4, EventPlaces, WokenByTask
<1> QED BY <1>0, <1>1, <1>3, <1>4, <1>5, EventWrittenKept

LEMMA EventIsrKept ==
    ASSUME EventSafe, NEW e \in Events, NEW events \in SUBSET Bits, EventWriteIsr(e, events)
    PROVE  EventSafe'
<1>1. PICK w, W : w = WriteEffect(e, events) /\ W = Satisfied(e, events)
  OBVIOUS
<1>0. /\ CoreInv(EventAt, k, ctx) /\ Sane(k) /\ Caller(Isr, "eventwrite") /\ ev[e].ready
      /\ ev' = [ev EXCEPT ![e].id = @ \cup events] /\ want' = want /\ Finish(Isr, w, W # {})
  BY <1>1 DEF EventSafe, EventWriteIsr, CoreInv
<1>2. Woken(w, W) /\ W \subseteq Tasks /\ \A u \in W : "PEND" \in k.status[u]
  BY <1>0, <1>1, WrittenIs
<1>3. Calling(Isr) /\ Isr \in Tasks \cup {Isr}
  BY <1>0, CallerCalls
<1>4. StepKeeps(EventAt) /\ EndsAll(W)
  <2>1. PICK need : need = (W # {})
    OBVIOUS
  <2> QED BY <1>0, <1>2, <1>3, <2>1, WokenKept
<1> QED BY <1>0, <1>1, <1>2, <1>4, EventWrittenKept

LEMMA EventInitSafe ==
    ASSUME EventInit
    PROVE  EventSafe
<1>1. CoreInv(At, k, ctx) /\ Highest(k, ctx)
  BY InitSafe DEF EventInit
<1>2. CoreInv(EventAt, k, ctx)
  <2>1. ctx \in [TCB -> ThreadState(EventAt)]
    BY <1>1, EventPlaces DEF CoreInv, ThreadState
  <2> QED BY <1>1, <2>1 DEF CoreInv
<1>3. WaitsAt({"event"}, k, ctx) /\ \A h \in Blockers : k.list[h] = << >>
  <2>1. PICK free \in [1..Cardinality(Tasks) -> Tasks] : k = InitialKernel(free)
    BY DEF EventInit, Init
  <2>2. /\ \A t \in Tasks : k.status[t] = {"UNUSED"}
        /\ k.list = [h \in Head_ |-> IF h = FreeTask THEN free ELSE << >>]
    BY <2>1, TasksAreTCBs, SchedAssumption DEF InitialKernel
  <2>3. \A h \in Blockers : k.list[h] = << >>
    BY <2>2, HeadsDiffer
  <2> QED BY <2>2, <2>3 DEF WaitsAt
<1>4. EventData(k, ev, want)
  <2>1. \A e \in Events : k.list[WaitList(e)] = << >>
    BY <1>3, HeadsDiffer DEF Events
  <2>2. Range(<< >>) = {}
    BY DEF Range
  <2>3. ev \in [Events -> EventBlock] /\ want \in [Tasks -> Request]
    BY NoRequestType DEF EventInit, EventBlock
  <2> QED BY <2>1, <2>2, <2>3 DEF EventData
<1>5. CheckedOpen(k, ctx, ev)
  <2>1. \A t \in Tasks : ctx[t].at = "user"
    BY TasksAreTCBs DEF EventInit, Init, UserThread, Thread
  <2> QED BY <2>1, EventPlaces DEF CheckedOpen
<1> QED BY <1>1, <1>2, <1>3, <1>4, <1>5 DEF EventSafe

-----------------------------------------------------------------------------
\* The invariant holds in every reachable state, if no event is destroyed between the tests
\* and the section of a call on it and none is initialised while tasks wait for it: that the
\* pointers a call has tested are still those of a list when it gets to its section, with
\* any number of calls, deletions and interrupts in between, is the part CheckedOpen.
THEOREM EventSafeAlways == Plain /\ ~CloseInUse => (EventSpec => []EventSafe)
<1> SUFFICES ASSUME Plain, ~CloseInUse PROVE EventSpec => []EventSafe
  OBVIOUS
<1>1. EventInit => EventSafe
  BY EventInitSafe
<1>2. EventSafe /\ [EventNext]_eventVars => EventSafe'
  <2> SUFFICES ASSUME EventSafe, [EventNext]_eventVars PROVE EventSafe'
    OBVIOUS
  <2>1. CASE Next /\ UNCHANGED <<ev, want>>
    BY <2>1, EventTaskStepKept
  <2>2. ASSUME NEW c \in Tasks, NEW e \in Events, LOS_EventRead(c, e) \/ LOS_EventWrite(c, e)
        PROVE  EventSafe'
    BY <2>2, EventCheckKept
  <2>3. ASSUME NEW c \in Tasks, NEW r \in Request, EventReadSection(c, r) PROVE EventSafe'
    BY <2>3, EventReadKept
  <2>4. ASSUME NEW c \in Tasks, EventReadReturn(c) PROVE EventSafe'
    BY <2>4, EventReturnKept
  <2>5. ASSUME NEW c \in Tasks, NEW bits \in SUBSET Bits, EventWriteSection(c, bits) PROVE EventSafe'
    BY <2>5, EventWriteKept
  <2>6. ASSUME NEW e \in Events, NEW bits \in SUBSET Bits, EventWriteIsr(e, bits) PROVE EventSafe'
    BY <2>6, EventIsrKept
  <2>7. ASSUME NEW c \in Tasks \cup {Isr}, NEW e \in Events, LOS_EventInit(c, e) PROVE EventSafe'
    BY <2>7, EventInitKept
  <2>8. ASSUME NEW c \in Tasks \cup {Isr}, NEW e \in Events, LOS_EventDestroy(c, e) PROVE EventSafe'
    BY <2>8, EventDestroyKept
  <2>9. ASSUME NEW c \in Tasks \cup {Isr}, NEW e \in Events, NEW bits \in SUBSET Bits,
               LOS_EventClear(c, e, bits)
        PROVE  EventSafe'
    BY <2>9, EventClearKept
  <2>10. ASSUME NEW c \in Tasks \cup {Isr}, NEW e \in Events, NEW r \in Request,
                LOS_EventPoll(c, e, r)
         PROVE  EventSafe'
    BY <2>10, EventPollKept DEF LOS_EventPoll
  <2>11. CASE UNCHANGED eventVars
    BY <2>11 DEF EventSafe, eventVars
  <2> QED BY <2>1, <2>2, <2>3, <2>4, <2>5, <2>6, <2>7, <2>8, <2>9, <2>10, <2>11 DEF EventNext
<1> QED BY <1>1, <1>2, PTL DEF EventSpec

\* With any number of events, bits, readers and writers, in tasks and in interrupt handlers,
\* and LOS_EventDestroy and LOS_EventInit at any time no call on the event is between its
\* tests and its section, or no task waits for it: LOS_EventWrite leaves no task waiting
\* whose bits are there, whatever the modes, LOS_EventDestroy leaves none behind, and no call
\* goes through the pointers of a closed list.
THEOREM EventsSound == Plain /\ ~CloseInUse => (EventSpec => []EventInv)
<1> SUFFICES ASSUME Plain, ~CloseInUse PROVE EventSpec => []EventInv
  OBVIOUS
<1>1. EventSafe => EventInv
  <2> SUFFICES ASSUME EventSafe PROVE EventInv
    OBVIOUS
  <2>1. k \in KernelState /\ ctx \in [TCB -> ThreadState(At \cup Checked \cup {"event"})] /\ ~k.fault
    BY DEF EventSafe, CoreInv, Sane, KInv, EventAt
  <2>2. EventData(k, ev, want)
    BY DEF EventSafe
  <2> QED BY <2>1, <2>2 DEF EventInv, EventTypeOK, NoMissedEvent, EventData, EventBlock, NoFault
<1>2. EventSpec => []EventSafe
  BY EventSafeAlways
<1> QED BY <1>1, <1>2, PTL

\* LOS_EventWrite calls LOS_Schedule once for all the tasks it wakes: still no ready task
\* has precedence over application code that runs.
THEOREM EventRunsHighest == Plain /\ ~CloseInUse => (EventSpec => []RunHighest)
<1> SUFFICES ASSUME Plain, ~CloseInUse PROVE EventSpec => []RunHighest
  OBVIOUS
<1>1. EventSafe => RunHighest
  <2> SUFFICES ASSUME EventSafe, NEW t \in Tasks, NEW r \in Tasks, InUser(t), k.lock = 0,
                      Has(k, r, {"READY"})
               PROVE  k.prio[t] <= k.prio[r]
    BY DEF RunHighest
  <2>1. k.run = t /\ ~k.pendsv /\ ~ctx[t].win /\ t # Dummy
    BY TasksAreTCBs DEF InUser, Running
  <2>2. k.scheduled
    BY <2>1 DEF EventSafe, CoreInv, Booting
  <2>3. Top(k)
    BY <2>1, <2>2 DEF EventSafe, Highest
  <2> QED BY <2>1, <2>3 DEF Top, Has
<1>2. EventSpec => []EventSafe
  BY EventSafeAlways
<1> QED BY <1>1, <1>2, PTL
=============================================================================
