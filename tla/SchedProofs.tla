---------------------------- MODULE SchedProofs ----------------------------
(***************************************************************************)
(* Facts about the scheduler's operators, for every number of tasks and    *)
(* priorities: each keeps the kernel state well typed and, as long as it   *)
(* reports no fault, keeps every TCB's list node where taskStatus says and *)
(* the bitmap equal to the set of non-empty ready queues.                  *)
(***************************************************************************)
EXTENDS Sched, SequenceTheorems, WellFoundedInduction, TLAPS

-----------------------------------------------------------------------------
(***************************************************************************)
(* Lists.                                                                  *)
(***************************************************************************)
\* LOS_ListDelete on a sequence: it removes e, and nothing else.
LEMMA WithoutType ==
    ASSUME NEW S, NEW s \in Seq(S), NEW e
    PROVE  Without(s, e) \in Seq(S)
<1>1. CASE e \notin Range(s)
  BY <1>1 DEF Without
<1>2. CASE e \in Range(s)
  <2> DEFINE i == IndexIn(s, e)
             w == [j \in 1..(Len(s) - 1) |-> IF j < i THEN s[j] ELSE s[j + 1]]
  <2>1. Len(s) \in Nat /\ DOMAIN s = 1..Len(s) /\ \A j \in 1..Len(s) : s[j] \in S
    BY LenProperties, ElementOfSeq
  <2>2. i \in 1..Len(s)
    BY <1>2, <2>1 DEF IndexIn, Range
  <2> HIDE DEF i
  <2>3. \A j \in 1..(Len(s) - 1) : w[j] \in S
    BY <2>1, <2>2
  <2>4. w \in Seq(S)
    BY <2>1, <2>2, <2>3, IsASeq
  <2> QED BY <1>2, <2>4 DEF Without, i
<1> QED BY <1>1, <1>2

LEMMA WithoutRange ==
    ASSUME NEW S, NEW s \in Seq(S), NEW e, NoDup(s)
    PROVE  /\ Range(Without(s, e)) = Range(s) \ {e}
           /\ NoDup(Without(s, e))
<1>1. CASE e \notin Range(s)
  BY <1>1 DEF Without
<1>2. CASE e \in Range(s)
  <2> DEFINE i == IndexIn(s, e)
             w == [j \in 1..(Len(s) - 1) |-> IF j < i THEN s[j] ELSE s[j + 1]]
  <2>1. Len(s) \in Nat /\ DOMAIN s = 1..Len(s)
    BY LenProperties
  <2>2. i \in 1..Len(s) /\ s[i] = e
    BY <1>2, <2>1 DEF IndexIn, Range
  <2> HIDE DEF i
  <2>3. Without(s, e) = w
    BY <1>2 DEF Without, i
  <2>4. DOMAIN w = 1..(Len(s) - 1)
    OBVIOUS
  <2>5. NoDup(w)
    BY <2>1, <2>2, <2>4 DEF NoDup
  <2>6. ASSUME NEW x \in Range(w) PROVE x \in Range(s) \ {e}
    BY <2>1, <2>2, <2>4, <2>6 DEF Range, NoDup
  <2>7. ASSUME NEW x \in Range(s), x # e PROVE x \in Range(w)
    <3>1. PICK j \in 1..Len(s) : s[j] = x
      BY <2>1 DEF Range
    <3>2. CASE j < i
      <4>1. j \in 1..(Len(s) - 1) /\ w[j] = x
        BY <2>1, <2>2, <3>1, <3>2
      <4> QED BY <4>1, <2>4 DEF Range
    <3>3. CASE j > i
      <4>1. j - 1 \in 1..(Len(s) - 1) /\ w[j - 1] = x
        BY <2>1, <2>2, <3>1, <3>3
      <4> QED BY <4>1, <2>4 DEF Range
    <3> QED BY <3>1, <3>2, <3>3, <2>7, <2>1, <2>2
  <2> QED BY <2>3, <2>5, <2>6, <2>7
<1> QED BY <1>1, <1>2

\* LOS_ListAdd and LOS_ListTailInsert on a sequence.
LEMMA AppendRange ==
    ASSUME NEW S, NEW s \in Seq(S), NEW e \in S
    PROVE  /\ Append(s, e) \in Seq(S)
           /\ Append(s, e) # << >>
           /\ Range(Append(s, e)) = Range(s) \cup {e}
           /\ NoDup(s) /\ e \notin Range(s) => NoDup(Append(s, e))
<1>1. Len(s) \in Nat /\ DOMAIN s = 1..Len(s)
  BY LenProperties
<1>2. /\ Append(s, e) \in Seq(S)
      /\ Append(s, e) # << >>
      /\ DOMAIN Append(s, e) = 1..(Len(s) + 1)
      /\ \A j \in 1..Len(s) : Append(s, e)[j] = s[j]
      /\ Append(s, e)[Len(s) + 1] = e
  BY <1>1, AppendProperties, LenProperties
<1>3. Range(Append(s, e)) = Range(s) \cup {e}
  BY <1>1, <1>2 DEF Range
<1>4. NoDup(s) /\ e \notin Range(s) => NoDup(Append(s, e))
  BY <1>1, <1>2 DEF NoDup, Range
<1> QED BY <1>2, <1>3, <1>4

LEMMA PrependRange ==
    ASSUME NEW S, NEW s \in Seq(S), NEW e \in S
    PROVE  /\ <<e>> \o s \in Seq(S)
           /\ <<e>> \o s # << >>
           /\ Range(<<e>> \o s) = Range(s) \cup {e}
           /\ NoDup(s) /\ e \notin Range(s) => NoDup(<<e>> \o s)
<1> DEFINE c == <<e>> \o s
<1>1. Len(s) \in Nat /\ DOMAIN s = 1..Len(s)
  BY LenProperties
<1>2. <<e>> \in Seq(S) /\ Len(<<e>>) = 1 /\ <<e>>[1] = e
  OBVIOUS
<1>3. /\ c \in Seq(S)
      /\ Len(c) = Len(s) + 1
      /\ c[1] = e
      /\ \A j \in 1..(Len(s) + 1) : j # 1 => c[j] = s[j - 1]
  BY <1>1, <1>2, ConcatProperties
<1>4. DOMAIN c = 1..(Len(s) + 1)
  BY <1>3, LenProperties
<1> HIDE DEF c
<1>5. c # << >>
  BY <1>1, <1>3
<1>6. Range(c) = Range(s) \cup {e}
  <2>1. ASSUME NEW x \in Range(c) PROVE x \in Range(s) \cup {e}
    BY <1>1, <1>3, <1>4, <2>1 DEF Range
  <2>2. ASSUME NEW x \in Range(s) PROVE x \in Range(c)
    <3>1. PICK j \in 1..Len(s) : s[j] = x
      BY <1>1, <2>2 DEF Range
    <3>2. j + 1 \in 1..(Len(s) + 1) /\ c[j + 1] = x
      BY <1>1, <1>3, <3>1
    <3> QED BY <1>4, <3>2 DEF Range
  <2>3. e \in Range(c)
    BY <1>1, <1>3, <1>4 DEF Range
  <2> QED BY <2>1, <2>2, <2>3
<1>7. ASSUME NoDup(s), e \notin Range(s) PROVE NoDup(c)
  <2>1. \A j \in 1..Len(s) : s[j] # e
    BY <1>1, <1>7 DEF Range
  <2>2. ASSUME NEW i \in 1..(Len(s) + 1), NEW j \in 1..(Len(s) + 1), c[i] = c[j]
        PROVE  i = j
    <3>1. CASE i = 1 \/ j = 1
      BY <1>1, <1>3, <2>1, <2>2, <3>1
    <3>2. CASE i # 1 /\ j # 1
      <4>1. i - 1 \in 1..Len(s) /\ j - 1 \in 1..Len(s) /\ s[i - 1] = s[j - 1]
        BY <1>1, <1>3, <2>2, <3>2
      <4>2. i - 1 = j - 1
        BY <1>1, <1>7, <4>1 DEF NoDup
      <4> QED BY <4>2
    <3> QED BY <3>1, <3>2
  <2> QED BY <1>4, <2>2 DEF NoDup
<1> QED BY <1>3, <1>5, <1>6, <1>7 DEF c

LEMMA FirstOfList ==
    ASSUME NEW S, NEW s \in Seq(S), s # << >>
    PROVE  s[1] \in S /\ s[1] \in Range(s)
  BY LenProperties, ElementOfSeq, EmptySeq DEF Range

LEMMA EmptyRange ==
    ASSUME NEW S, NEW s \in Seq(S)
    PROVE  s = << >> <=> Range(s) = {}
<1>1. CASE s = << >>
  BY <1>1 DEF Range
<1>2. CASE s # << >>
  BY <1>2, FirstOfList
<1> QED BY <1>1, <1>2

\* The list heads are different from one another.
LEMMA HeadsDiffer ==
    /\ \A p \in Prio : Pri(p) \in Head_ /\ Pri(p) \notin Blockers \cup {FreeTask, RecycleList}
    /\ \A p, q \in Prio : Pri(p) = Pri(q) => p = q
    /\ FreeTask \in Head_ /\ RecycleList \in Head_ /\ FreeTask # RecycleList
    /\ FreeTask \notin Blockers /\ RecycleList \notin Blockers
    /\ Blockers \subseteq Head_
    /\ \A t \in Tasks : JoinList(t) \in Blockers
    /\ \A o \in WaitObjs : WaitList(o) \in Blockers
  BY DEF Pri, Blockers, JoinList, WaitList, FreeTask, RecycleList, Head_

-----------------------------------------------------------------------------
(***************************************************************************)
(* The kernel's list operations.                                           *)
(***************************************************************************)
\* A task's priority is one that has a ready queue.
PrioOK(kk) == \A t \in Tasks : kk.prio[t] \in Prio

\* Everything in its place, except perhaps t's node.
Loose(kk, t) ==
    /\ \A u \in Tasks \ {t} : NodeOK(kk, u)
    /\ \A h \in Head_ : NoDup(kk.list[h])
    /\ BitmapOK(kk)

Coherent(kk) ==
    /\ \A t \in Tasks : NodeOK(kk, t)
    /\ \A h \in Head_ : NoDup(kk.list[h])
    /\ BitmapOK(kk)

\* The fields no list operation touches.
SameTCBs(a, b) ==
    /\ a.status = b.status
    /\ a.prio = b.prio
    /\ a.sort = b.sort
    /\ a.run = b.run
    /\ a.lock = b.lock
    /\ a.scheduled = b.scheduled
    /\ a.pendsv = b.pendsv

\* Every node but t's is where it was.
OthersStay(a, b, t) == \A u \in Tasks \ {t} : Where(a, u) = Where(b, u)

\* The lists of waiting tasks are the same, in the same order.
SameWaiters(a, b) == \A h \in Blockers : a.list[h] = b.list[h]

LEMMA CoherentIsLoose ==
    ASSUME NEW kk, NEW t \in Tasks
    PROVE  Coherent(kk) <=> Loose(kk, t) /\ NodeOK(kk, t)
  BY DEF Coherent, Loose

LEMMA ListDeleteType ==
    ASSUME NEW kk \in KernelState, NEW t \in Tasks
    PROVE  /\ LOS_ListDelete(kk, t) \in KernelState
           /\ SameTCBs(LOS_ListDelete(kk, t), kk)
           /\ LOS_ListDelete(kk, t).slice = kk.slice
           /\ LOS_ListDelete(kk, t).bitmap = kk.bitmap
           /\ LOS_ListDelete(kk, t).fault = (kk.fault \/ ~Linked(kk, t))
           /\ LOS_ListDelete(kk, t).list = [h \in Head_ |-> Without(kk.list[h], t)]
<1>1. \A h \in Head_ : kk.list[h] \in Seq(Tasks)
  BY DEF KernelState
<1>2. \A h \in Head_ : Without(kk.list[h], t) \in Seq(Tasks)
  BY <1>1, WithoutType
<1>3. [h \in Head_ |-> Without(kk.list[h], t)] \in [Head_ -> Seq(Tasks)]
  BY <1>2
<1>4. (kk.fault \/ ~Linked(kk, t)) \in BOOLEAN
  OBVIOUS
<1> HIDE DEF Linked
<1> QED BY <1>3, <1>4 DEF LOS_ListDelete, KernelState, SameTCBs

LEMMA ListInsertType ==
    ASSUME NEW kk \in KernelState, NEW t \in Tasks, NEW h \in Head_,
           NEW r, r = LOS_ListAdd(kk, h, t) \/ r = LOS_ListTailInsert(kk, h, t)
    PROVE  /\ r \in KernelState
           /\ SameTCBs(r, kk)
           /\ r.slice = kk.slice
           /\ r.bitmap = kk.bitmap
           /\ r.fault = (kk.fault \/ Linked(kk, t))
           /\ \A g \in Head_ : g # h => r.list[g] = kk.list[g]
           /\ r.list[h] # << >>
           /\ Range(r.list[h]) = Range(kk.list[h]) \cup {t}
           /\ NoDup(kk.list[h]) /\ t \notin Range(kk.list[h]) => NoDup(r.list[h])
<1>1. kk.list \in [Head_ -> Seq(Tasks)] /\ kk.list[h] \in Seq(Tasks)
  BY DEF KernelState
<1>2. CASE r = LOS_ListAdd(kk, h, t)
  <2>1. r.list = [kk.list EXCEPT ![h] = <<t>> \o kk.list[h]]
    BY <1>2 DEF LOS_ListAdd, KernelState
  <2>2. <<t>> \o kk.list[h] \in Seq(Tasks)
    BY <1>1, PrependRange
  <2>3. r.list \in [Head_ -> Seq(Tasks)] /\ r.list[h] = <<t>> \o kk.list[h]
    BY <1>1, <2>1, <2>2
  <2>4. /\ r \in KernelState
        /\ SameTCBs(r, kk)
        /\ r.slice = kk.slice
        /\ r.bitmap = kk.bitmap
        /\ r.fault = (kk.fault \/ Linked(kk, t))
    BY <1>2, <2>1, <2>3 DEF LOS_ListAdd, KernelState, SameTCBs
  <2>5. \A g \in Head_ : g # h => r.list[g] = kk.list[g]
    BY <1>1, <2>1
  <2> QED BY <1>1, <2>3, <2>4, <2>5, PrependRange
<1>3. CASE r = LOS_ListTailInsert(kk, h, t)
  <2>1. r.list = [kk.list EXCEPT ![h] = Append(kk.list[h], t)]
    BY <1>3 DEF LOS_ListTailInsert, KernelState
  <2>2. Append(kk.list[h], t) \in Seq(Tasks)
    BY <1>1, AppendRange
  <2>3. r.list \in [Head_ -> Seq(Tasks)] /\ r.list[h] = Append(kk.list[h], t)
    BY <1>1, <2>1, <2>2
  <2>4. /\ r \in KernelState
        /\ SameTCBs(r, kk)
        /\ r.slice = kk.slice
        /\ r.bitmap = kk.bitmap
        /\ r.fault = (kk.fault \/ Linked(kk, t))
    BY <1>3, <2>1, <2>3 DEF LOS_ListTailInsert, KernelState, SameTCBs
  <2>5. \A g \in Head_ : g # h => r.list[g] = kk.list[g]
    BY <1>1, <2>1
  <2> QED BY <1>1, <2>3, <2>4, <2>5, AppendRange
<1> QED BY <1>2, <1>3

\* Where a node is after a list operation: only t's node moves.
LEMMA WhereAfterDelete ==
    ASSUME NEW kk \in KernelState, NEW t \in Tasks, \A h \in Head_ : NoDup(kk.list[h])
    PROVE  LET r == LOS_ListDelete(kk, t)
           IN  /\ Where(r, t) = {}
               /\ \A u \in Tasks \ {t} : Where(r, u) = Where(kk, u)
               /\ \A h \in Head_ : NoDup(r.list[h])
               /\ \A h \in Head_ : Range(r.list[h]) = Range(kk.list[h]) \ {t}
               /\ \A h \in Head_ : h \notin Where(kk, t) => r.list[h] = kk.list[h]
<1> DEFINE r == LOS_ListDelete(kk, t)
<1>1. r.list = [h \in Head_ |-> Without(kk.list[h], t)]
  BY ListDeleteType
<1>2. \A h \in Head_ : kk.list[h] \in Seq(Tasks)
  BY DEF KernelState
<1>3. \A h \in Head_ : Range(r.list[h]) = Range(kk.list[h]) \ {t} /\ NoDup(r.list[h])
  BY <1>1, <1>2, WithoutRange
<1>4. \A h \in Head_ : h \notin Where(kk, t) => r.list[h] = kk.list[h]
  BY <1>1 DEF Where, Without
<1> HIDE DEF r
<1>5. Where(r, t) = {} /\ \A u \in Tasks \ {t} : Where(r, u) = Where(kk, u)
  BY <1>3 DEF Where
<1> QED BY <1>3, <1>4, <1>5 DEF r

LEMMA WhereAfterInsert ==
    ASSUME NEW kk \in KernelState, NEW t \in Tasks, NEW h \in Head_,
           NEW r, r = LOS_ListAdd(kk, h, t) \/ r = LOS_ListTailInsert(kk, h, t),
           \A g \in Head_ : NoDup(kk.list[g]),
           ~Linked(kk, t)
    PROVE  /\ Where(r, t) = {h}
           /\ \A u \in Tasks \ {t} : Where(r, u) = Where(kk, u)
           /\ \A g \in Head_ : NoDup(r.list[g])
<1>1. /\ \A g \in Head_ : g # h => r.list[g] = kk.list[g]
      /\ Range(r.list[h]) = Range(kk.list[h]) \cup {t}
      /\ NoDup(kk.list[h]) /\ t \notin Range(kk.list[h]) => NoDup(r.list[h])
  BY ListInsertType
<1>2. \A g \in Head_ : t \notin Range(kk.list[g])
  BY DEF Linked, Where
<1>3. Where(r, t) = {h}
  BY <1>1, <1>2 DEF Where
<1>4. \A u \in Tasks \ {t} : Where(r, u) = Where(kk, u)
  BY <1>1 DEF Where
<1> QED BY <1>1, <1>2, <1>3, <1>4

\* NodeOK of a task depends on its own node, status and priority only.
LEMMA NodeFrame ==
    ASSUME NEW a, NEW b, NEW u, NodeOK(a, u),
           Where(b, u) = Where(a, u), b.status[u] = a.status[u], b.prio[u] = a.prio[u]
    PROVE  NodeOK(b, u)
  BY DEF NodeOK, Has

\* The node of a task that is not ready is on no ready queue.
LEMMA NotReadyNotQueued ==
    ASSUME NEW kk \in KernelState, NEW t \in Tasks, NodeOK(kk, t), ~Has(kk, t, {"READY"})
    PROVE  \A p \in Prio : Pri(p) \notin Where(kk, t)
<1>1. CASE Has(kk, t, {"PEND"})
  <2>1. PICK h \in Blockers : Where(kk, t) = {h}
    BY <1>1 DEF NodeOK
  <2> QED BY <2>1, HeadsDiffer
<1>2. CASE ~Has(kk, t, {"PEND"})
  <2>1. ~Has(kk, t, {"READY", "PEND"})
    BY <1>2 DEF Has
  <2>2. Where(kk, t) \in {{}, {FreeTask}, {RecycleList}}
    BY <2>1 DEF NodeOK
  <2> QED BY <2>2, HeadsDiffer
<1> QED BY <1>1, <1>2

\* LOS_ListDelete of a node that is on no ready queue.
LEMMA ListDeleteLoose ==
    ASSUME NEW kk \in KernelState, NEW t \in Tasks, Loose(kk, t),
           \A p \in Prio : Pri(p) \notin Where(kk, t)
    PROVE  Loose(LOS_ListDelete(kk, t), t) /\ Where(LOS_ListDelete(kk, t), t) = {}
<1> DEFINE r == LOS_ListDelete(kk, t)
<1>1. /\ Where(r, t) = {}
      /\ \A u \in Tasks \ {t} : Where(r, u) = Where(kk, u)
      /\ \A h \in Head_ : NoDup(r.list[h])
      /\ \A h \in Head_ : h \notin Where(kk, t) => r.list[h] = kk.list[h]
  BY WhereAfterDelete DEF Loose
<1>2. SameTCBs(r, kk) /\ r.bitmap = kk.bitmap
  BY ListDeleteType
<1> HIDE DEF r
<1>3. \A u \in Tasks \ {t} : NodeOK(r, u)
  BY <1>1, <1>2, NodeFrame DEF Loose, SameTCBs
<1>4. BitmapOK(r)
  BY <1>1, <1>2, HeadsDiffer DEF Loose, BitmapOK
<1> QED BY <1>1, <1>3, <1>4 DEF Loose, r

\* The insertion into a list that is not a ready queue.
LEMMA ListInsertLoose ==
    ASSUME NEW kk \in KernelState, NEW t \in Tasks, Loose(kk, t), ~Linked(kk, t),
           NEW h \in Head_, \A p \in Prio : h # Pri(p),
           NEW r, r = LOS_ListAdd(kk, h, t) \/ r = LOS_ListTailInsert(kk, h, t)
    PROVE  Loose(r, t) /\ Where(r, t) = {h}
<1>1. /\ Where(r, t) = {h}
      /\ \A u \in Tasks \ {t} : Where(r, u) = Where(kk, u)
      /\ \A g \in Head_ : NoDup(r.list[g])
  BY WhereAfterInsert DEF Loose
<1>2. /\ SameTCBs(r, kk)
      /\ r.bitmap = kk.bitmap
      /\ \A g \in Head_ : g # h => r.list[g] = kk.list[g]
  BY ListInsertType
<1>3. \A u \in Tasks \ {t} : NodeOK(r, u)
  BY <1>1, <1>2, NodeFrame DEF Loose, SameTCBs
<1>4. BitmapOK(r)
  BY <1>2, HeadsDiffer DEF Loose, BitmapOK
<1> QED BY <1>1, <1>3, <1>4 DEF Loose

\* A change of t's own flags disturbs nobody else.
FlagSets == SUBSET Flag

LEMMA SetStatusType ==
    ASSUME NEW kk \in KernelState, NEW t \in TCB, NEW off,
           NEW on \in FlagSets, NEW r, r = SetStatus(kk, t, off, on)
    PROVE  /\ r \in KernelState
           /\ r.status[t] = (kk.status[t] \ off) \cup on
           /\ \A u \in TCB \ {t} : r.status[u] = kk.status[u]
           /\ r.prio = kk.prio /\ r.slice = kk.slice /\ r.list = kk.list
           /\ r.bitmap = kk.bitmap /\ r.sort = kk.sort /\ r.run = kk.run
           /\ r.lock = kk.lock /\ r.scheduled = kk.scheduled
           /\ r.pendsv = kk.pendsv /\ r.fault = kk.fault
           /\ \A u \in Tasks : Where(r, u) = Where(kk, u)
<1>1. kk.status \in [TCB -> SUBSET Flag]
  BY DEF KernelState
<1>2. [kk.status EXCEPT ![t] = (kk.status[t] \ off) \cup on] \in [TCB -> SUBSET Flag]
  BY <1>1 DEF FlagSets
<1> QED BY <1>1, <1>2 DEF SetStatus, KernelState, Where

LEMMA SetStatusLoose ==
    ASSUME NEW kk \in KernelState, NEW t \in Tasks, NEW off,
           NEW on \in FlagSets, NEW r, r = SetStatus(kk, t, off, on), Loose(kk, t)
    PROVE  Loose(r, t)
<1>0. t \in TCB /\ \A u \in Tasks \ {t} : u \in TCB \ {t}
  BY DEF TCB
<1>1. /\ \A u \in TCB \ {t} : r.status[u] = kk.status[u]
      /\ \A u \in Tasks : Where(r, u) = Where(kk, u)
      /\ r.prio = kk.prio /\ r.list = kk.list /\ r.bitmap = kk.bitmap
  BY <1>0, SetStatusType
<1>2. \A u \in Tasks \ {t} : NodeOK(r, u)
  BY <1>0, <1>1, NodeFrame DEF Loose
<1> QED BY <1>1, <1>2 DEF Loose, BitmapOK

-----------------------------------------------------------------------------
(***************************************************************************)
(* Ready queues.                                                           *)
(***************************************************************************)
LEMMA MarkQueueType ==
    ASSUME NEW kk \in KernelState, NEW p \in Prio, NEW m, m = MarkQueue(kk, p)
    PROVE  /\ m \in KernelState
           /\ SameTCBs(m, kk)
           /\ m.slice = kk.slice /\ m.list = kk.list /\ m.fault = kk.fault
           /\ m.bitmap = IF kk.list[Pri(p)] = << >> THEN kk.bitmap \cup {p} ELSE kk.bitmap
           /\ \A u \in Tasks : Where(m, u) = Where(kk, u)
           /\ \A u \in Tasks : Linked(m, u) = Linked(kk, u)
<1>1. (IF kk.list[Pri(p)] = << >> THEN kk.bitmap \cup {p} ELSE kk.bitmap) \in SUBSET Prio
  BY DEF KernelState
<1> QED BY <1>1 DEF MarkQueue, KernelState, SameTCBs, Where, Linked

LEMMA EnPriQueue ==
    ASSUME NEW kk \in KernelState, NEW t \in Tasks, PrioOK(kk), NEW r,
           r = OsSchedPriQueueEnHead(kk, t) \/ r = OsSchedPriQueueEnTail(kk, t)
    PROVE  /\ r \in KernelState
           /\ SameTCBs(r, kk)
           /\ r.slice = kk.slice
           /\ r.fault = (kk.fault \/ Linked(kk, t))
           /\ SameWaiters(r, kk)
           /\ Loose(kk, t) /\ ~Linked(kk, t) =>
                 Loose(r, t) /\ Where(r, t) = {Pri(kk.prio[t])} /\ OthersStay(r, kk, t)
<1> DEFINE p == kk.prio[t]
           m == MarkQueue(kk, p)
<1>1. p \in Prio /\ Pri(p) \in Head_
  BY HeadsDiffer DEF PrioOK
<1> HIDE DEF p
<1>2. /\ m \in KernelState
      /\ SameTCBs(m, kk)
      /\ m.slice = kk.slice /\ m.list = kk.list /\ m.fault = kk.fault
      /\ m.bitmap = IF kk.list[Pri(p)] = << >> THEN kk.bitmap \cup {p} ELSE kk.bitmap
      /\ \A u \in Tasks : Where(m, u) = Where(kk, u)
      /\ \A u \in Tasks : Linked(m, u) = Linked(kk, u)
  BY <1>1, MarkQueueType
<1>3. r = LOS_ListAdd(m, Pri(p), t) \/ r = LOS_ListTailInsert(m, Pri(p), t)
  BY DEF OsSchedPriQueueEnHead, OsSchedPriQueueEnTail, p
<1> HIDE DEF m
<1>4. /\ r \in KernelState
      /\ SameTCBs(r, m)
      /\ r.slice = m.slice
      /\ r.bitmap = m.bitmap
      /\ r.fault = (m.fault \/ Linked(m, t))
      /\ \A g \in Head_ : g # Pri(p) => r.list[g] = m.list[g]
      /\ r.list[Pri(p)] # << >>
  BY <1>1, <1>2, <1>3, ListInsertType
<1>5. SameTCBs(r, kk)
  BY <1>2, <1>4 DEF SameTCBs
<1>6. ASSUME Loose(kk, t), ~Linked(kk, t)
      PROVE  Loose(r, t) /\ Where(r, t) = {Pri(p)} /\ OthersStay(r, kk, t)
  <2>1. \A g \in Head_ : NoDup(m.list[g])
    BY <1>2, <1>6 DEF Loose
  <2>2. /\ Where(r, t) = {Pri(p)}
        /\ \A u \in Tasks \ {t} : Where(r, u) = Where(kk, u)
        /\ \A g \in Head_ : NoDup(r.list[g])
    BY <1>1, <1>2, <1>3, <1>6, <2>1, WhereAfterInsert
  <2>3. \A u \in Tasks \ {t} : NodeOK(r, u)
    BY <1>5, <1>6, <2>2, NodeFrame DEF Loose, SameTCBs
  <2>4. BitmapOK(r)
    BY <1>1, <1>2, <1>4, <1>6, HeadsDiffer DEF Loose, BitmapOK
  <2> QED BY <2>2, <2>3, <2>4 DEF Loose, OthersStay
<1>7. SameWaiters(r, kk)
  BY <1>1, <1>2, <1>4, HeadsDiffer DEF SameWaiters
<1> QED BY <1>2, <1>4, <1>5, <1>6, <1>7 DEF p

\* The fields OsSchedTaskEnQueue and OsSchedTaskDeQueue leave alone.
SameRest(a, b) ==
    /\ a.prio = b.prio
    /\ a.sort = b.sort
    /\ a.run = b.run
    /\ a.lock = b.lock
    /\ a.scheduled = b.scheduled
    /\ a.pendsv = b.pendsv

\* OsSchedTaskEnQueue of a task whose node is on no list puts everything in its
\* place, whatever the task's status was.
LEMMA EnQueueTask ==
    ASSUME NEW kk \in KernelState, NEW t \in Tasks, PrioOK(kk), NEW r,
           r = OsSchedTaskEnQueue(kk, t)
    PROVE  /\ r \in KernelState
           /\ SameRest(r, kk)
           /\ kk.fault => r.fault
           /\ r.status[t] = (kk.status[t] \ {"PEND", "SUSPEND", "DELAY", "PEND_TIME"})
                               \cup {"READY"}
           /\ \A u \in TCB \ {t} : r.status[u] = kk.status[u]
           /\ r.fault = (kk.fault \/ Has(kk, t, {"READY"}) \/ Linked(kk, t))
           /\ SameWaiters(r, kk)
           /\ Loose(kk, t) /\ ~r.fault => Coherent(r) /\ OthersStay(r, kk, t)
<1> DEFINE a == [kk EXCEPT !.fault = kk.fault \/ Has(kk, t, {"READY"})]
           b == [a EXCEPT !.slice = [a.slice EXCEPT ![t] = TRUE]]
           off == {"PEND", "SUSPEND", "DELAY", "PEND_TIME"}
<1>0. t \in TCB /\ t # Idle /\ {"READY"} \in FlagSets
  BY SchedAssumption DEF TCB, FlagSets, Flag
<1>1. /\ a \in KernelState /\ SameTCBs(a, kk) /\ a.list = kk.list /\ a.bitmap = kk.bitmap
      /\ a.fault = (kk.fault \/ Has(kk, t, {"READY"}))
  BY DEF KernelState, SameTCBs, Has
<1>2. /\ b \in KernelState /\ SameTCBs(b, kk) /\ b.list = kk.list /\ b.bitmap = kk.bitmap
      /\ b.fault = (kk.fault \/ Has(kk, t, {"READY"}))
  BY <1>0, <1>1 DEF KernelState, SameTCBs
<1>3. PICK q : /\ q = OsSchedPriQueueEnHead(a, t) \/ q = OsSchedPriQueueEnTail(b, t)
               /\ r = SetStatus(q, t, off, {"READY"})
  BY <1>0 DEF OsSchedTaskEnQueue
<1>4. PICK c : /\ c = a \/ c = b
               /\ q = OsSchedPriQueueEnHead(c, t) \/ q = OsSchedPriQueueEnTail(c, t)
  BY <1>3
<1>5. /\ c \in KernelState /\ SameTCBs(c, kk) /\ c.list = kk.list /\ c.bitmap = kk.bitmap
      /\ c.fault = (kk.fault \/ Has(kk, t, {"READY"}))
  BY <1>1, <1>2, <1>4
<1> HIDE DEF a, b, off
<1>6. /\ PrioOK(c)
      /\ \A u \in Tasks : Where(c, u) = Where(kk, u)
      /\ Linked(c, t) = Linked(kk, t)
  BY <1>5 DEF PrioOK, SameTCBs, Where, Linked
<1>7. /\ q \in KernelState
      /\ SameTCBs(q, c)
      /\ q.fault = (c.fault \/ Linked(c, t))
      /\ SameWaiters(q, c)
      /\ Loose(c, t) /\ ~Linked(c, t) =>
            Loose(q, t) /\ Where(q, t) = {Pri(c.prio[t])} /\ OthersStay(q, c, t)
  BY <1>4, <1>5, <1>6, EnPriQueue
<1>8. /\ r \in KernelState
      /\ r.status[t] = (q.status[t] \ off) \cup {"READY"}
      /\ \A u \in TCB \ {t} : r.status[u] = q.status[u]
      /\ r.prio = q.prio /\ r.sort = q.sort /\ r.run = q.run
      /\ r.lock = q.lock /\ r.scheduled = q.scheduled
      /\ r.pendsv = q.pendsv /\ r.fault = q.fault /\ r.list = q.list
      /\ \A u \in Tasks : Where(r, u) = Where(q, u)
  BY <1>0, <1>3, <1>7, SetStatusType
<1>9. ASSUME Loose(kk, t), ~r.fault PROVE Coherent(r) /\ OthersStay(r, kk, t)
  <2>1. Loose(c, t)
    <3>1. \A u \in Tasks \ {t} : NodeOK(c, u)
      BY <1>5, <1>6, <1>9, NodeFrame DEF Loose, SameTCBs
    <3> QED BY <1>5, <1>9, <3>1 DEF Loose, BitmapOK
  <2>2. Loose(q, t) /\ Where(q, t) = {Pri(c.prio[t])} /\ OthersStay(q, c, t)
    BY <1>7, <1>8, <1>9, <2>1
  <2>3. Loose(r, t)
    BY <1>0, <1>3, <1>7, <2>2, SetStatusLoose
  <2>4. Where(r, t) = {Pri(r.prio[t])} /\ r.prio[t] \in Prio
    BY <1>6, <1>7, <1>8, <2>2 DEF SameTCBs, PrioOK
  <2>5. Has(r, t, {"READY"}) /\ ~Has(r, t, {"PEND"})
    BY <1>8 DEF Has, off
  <2>6. NodeOK(r, t)
    BY <2>4, <2>5, HeadsDiffer DEF NodeOK, Has
  <2>7. OthersStay(r, kk, t)
    BY <1>6, <1>8, <2>2 DEF OthersStay
  <2> QED BY <2>3, <2>6, <2>7, CoherentIsLoose
<1>10. r.fault = (kk.fault \/ Has(kk, t, {"READY"}) \/ Linked(kk, t))
  BY <1>5, <1>6, <1>7, <1>8
<1>11. SameRest(r, kk) /\ q.status = kk.status
  BY <1>5, <1>7, <1>8 DEF SameRest, SameTCBs
<1>12. SameWaiters(r, kk)
  BY <1>5, <1>7, <1>8 DEF SameWaiters
<1> QED BY <1>8, <1>9, <1>10, <1>11, <1>12 DEF off

\* The idle task's TCB is never queued.
LEMMA EnQueueIdle ==
    ASSUME NEW kk \in KernelState, NEW r, r = OsSchedTaskEnQueue(kk, Idle)
    PROVE  /\ r \in KernelState
           /\ SameRest(r, kk)
           /\ r.list = kk.list /\ r.bitmap = kk.bitmap
           /\ kk.fault => r.fault
           /\ r.fault = (kk.fault \/ Has(kk, Idle, {"READY"}))
           /\ r.status[Idle] = (kk.status[Idle] \ {"PEND", "SUSPEND", "DELAY", "PEND_TIME"})
                                  \cup {"READY"}
           /\ \A u \in TCB \ {Idle} : r.status[u] = kk.status[u]
<1> DEFINE a == [kk EXCEPT !.fault = kk.fault \/ Has(kk, Idle, {"READY"})]
<1>0. Idle \in TCB /\ {"READY"} \in FlagSets
  BY DEF TCB, FlagSets, Flag
<1>1. /\ a \in KernelState /\ SameTCBs(a, kk) /\ a.list = kk.list /\ a.bitmap = kk.bitmap
      /\ a.fault = (kk.fault \/ Has(kk, Idle, {"READY"}))
  BY DEF KernelState, SameTCBs, Has
<1>2. r = SetStatus(a, Idle, {"PEND", "SUSPEND", "DELAY", "PEND_TIME"}, {"READY"})
  BY DEF OsSchedTaskEnQueue
<1> HIDE DEF a
<1>3. /\ r \in KernelState
      /\ r.status[Idle] = (a.status[Idle] \ {"PEND", "SUSPEND", "DELAY", "PEND_TIME"})
                             \cup {"READY"}
      /\ \A u \in TCB \ {Idle} : r.status[u] = a.status[u]
      /\ r.list = a.list /\ r.bitmap = a.bitmap
      /\ r.prio = a.prio /\ r.sort = a.sort /\ r.run = a.run /\ r.lock = a.lock
      /\ r.scheduled = a.scheduled /\ r.pendsv = a.pendsv /\ r.fault = a.fault
  BY <1>0, <1>1, <1>2, SetStatusType
<1>4. kk.fault => r.fault
  BY <1>1, <1>3
<1>5. SameRest(r, kk) /\ a.status = kk.status
  BY <1>1, <1>3 DEF SameRest, SameTCBs
<1> QED BY <1>1, <1>3, <1>4, <1>5

LEMMA PriQueueDelete ==
    ASSUME NEW kk \in KernelState, NEW t \in Tasks, PrioOK(kk), NEW r,
           r = OsSchedPriQueueDelete(kk, t)
    PROVE  /\ r \in KernelState
           /\ SameTCBs(r, kk)
           /\ r.slice = kk.slice
           /\ r.fault = (kk.fault \/ ~Linked(kk, t))
           /\ Coherent(kk) /\ Has(kk, t, {"READY"}) =>
                 /\ Loose(r, t) /\ Where(r, t) = {} /\ Linked(kk, t)
                 /\ OthersStay(r, kk, t) /\ SameWaiters(r, kk)
<1> DEFINE d == LOS_ListDelete(kk, t)
           p == kk.prio[t]
<1>1. /\ d \in KernelState
      /\ SameTCBs(d, kk)
      /\ d.slice = kk.slice
      /\ d.bitmap = kk.bitmap
      /\ d.fault = (kk.fault \/ ~Linked(kk, t))
  BY ListDeleteType
<1>2. p \in Prio /\ d.prio[t] = p
  BY <1>1 DEF PrioOK, SameTCBs
<1>3. r = [d EXCEPT !.bitmap = IF d.list[Pri(d.prio[t])] = << >>
                               THEN d.bitmap \ {d.prio[t]} ELSE d.bitmap]
  BY DEF OsSchedPriQueueDelete
<1> HIDE DEF d, p
<1>4. /\ r \in KernelState
      /\ SameTCBs(r, d)
      /\ r.slice = d.slice /\ r.list = d.list /\ r.fault = d.fault
      /\ r.bitmap = IF d.list[Pri(p)] = << >> THEN d.bitmap \ {p} ELSE d.bitmap
  BY <1>1, <1>2, <1>3 DEF KernelState, SameTCBs
<1>5. SameTCBs(r, kk)
  BY <1>1, <1>4 DEF SameTCBs
<1>6. ASSUME Coherent(kk), Has(kk, t, {"READY"})
      PROVE  /\ Loose(r, t) /\ Where(r, t) = {} /\ Linked(kk, t)
             /\ OthersStay(r, kk, t) /\ SameWaiters(r, kk)
  <2>1. Where(kk, t) = {Pri(p)}
    BY <1>6 DEF Coherent, NodeOK, p
  <2>2. /\ Where(d, t) = {}
        /\ \A u \in Tasks \ {t} : Where(d, u) = Where(kk, u)
        /\ \A h \in Head_ : NoDup(d.list[h])
        /\ \A h \in Head_ : h \notin Where(kk, t) => d.list[h] = kk.list[h]
    BY <1>6, WhereAfterDelete DEF Coherent, d
  <2>3. \A u \in Tasks : Where(r, u) = Where(d, u)
    BY <1>4 DEF Where
  <2>4. \A u \in Tasks \ {t} : NodeOK(r, u)
    BY <1>5, <1>6, <2>2, <2>3, NodeFrame DEF Coherent, SameTCBs
  <2>5. kk.list[Pri(p)] # << >>
    BY <1>2, <2>1, HeadsDiffer DEF Where, Range
  <2>6. BitmapOK(r)
    <3>1. ASSUME NEW q \in Prio PROVE q \in r.bitmap <=> r.list[Pri(q)] # << >>
      <4>1. CASE q = p
        BY <1>1, <1>2, <1>4, <1>6, <2>5, <4>1 DEF Coherent, BitmapOK
      <4>2. CASE q # p
        <5>1. Pri(q) \in Head_ /\ Pri(q) \notin Where(kk, t)
          BY <1>2, <2>1, <4>2, HeadsDiffer
        <5> QED BY <1>1, <1>4, <1>6, <2>2, <4>2, <5>1 DEF Coherent, BitmapOK
      <4> QED BY <4>1, <4>2
    <3> QED BY <3>1 DEF BitmapOK
  <2>7. Linked(kk, t) /\ OthersStay(r, kk, t)
    BY <2>1, <2>2, <2>3 DEF Linked, OthersStay
  <2>8. SameWaiters(r, kk)
    BY <1>2, <1>4, <2>1, <2>2, HeadsDiffer DEF SameWaiters
  <2> QED BY <1>4, <2>2, <2>3, <2>4, <2>6, <2>7, <2>8 DEF Loose
<1> QED BY <1>1, <1>4, <1>5, <1>6

\* OsSchedTaskDeQueue: a ready task's node ends up on no list.
LEMMA DeQueueTask ==
    ASSUME NEW kk \in KernelState, NEW t \in Tasks, PrioOK(kk), NEW r,
           r = OsSchedTaskDeQueue(kk, t)
    PROVE  /\ r \in KernelState
           /\ SameRest(r, kk)
           /\ kk.fault => r.fault
           /\ r.status[t] = kk.status[t] \ {"READY"}
           /\ \A u \in TCB \ {t} : r.status[u] = kk.status[u]
           /\ Coherent(kk) => /\ Coherent(r) /\ r.fault = kk.fault
                              /\ OthersStay(r, kk, t) /\ SameWaiters(r, kk)
           /\ Coherent(kk) /\ Has(kk, t, {"READY"}) => Where(r, t) = {}
<1>0. t \in TCB /\ t # Idle /\ {} \in FlagSets
  BY SchedAssumption DEF TCB, FlagSets
<1>1. CASE ~Has(kk, t, {"READY"})
  <2>1. r = kk /\ kk.status[t] = kk.status[t] \ {"READY"}
    BY <1>1 DEF OsSchedTaskDeQueue, Has
  <2> QED BY <1>1, <2>1 DEF SameRest, OthersStay, SameWaiters
<1>2. CASE Has(kk, t, {"READY"})
  <2> DEFINE d == OsSchedPriQueueDelete(kk, t)
  <2>1. /\ d \in KernelState
        /\ SameTCBs(d, kk)
        /\ d.fault = (kk.fault \/ ~Linked(kk, t))
        /\ Coherent(kk) =>
              /\ Loose(d, t) /\ Where(d, t) = {} /\ Linked(kk, t)
              /\ OthersStay(d, kk, t) /\ SameWaiters(d, kk)
    BY <1>2, PriQueueDelete
  <2>2. r = SetStatus(d, t, {"READY"}, {})
    BY <1>0, <1>2 DEF OsSchedTaskDeQueue
  <2> HIDE DEF d
  <2>3. /\ r \in KernelState
        /\ r.status[t] = (d.status[t] \ {"READY"}) \cup {}
        /\ \A u \in TCB \ {t} : r.status[u] = d.status[u]
        /\ r.prio = d.prio /\ r.sort = d.sort /\ r.run = d.run
        /\ r.lock = d.lock /\ r.scheduled = d.scheduled
        /\ r.pendsv = d.pendsv /\ r.fault = d.fault /\ r.list = d.list
        /\ \A u \in Tasks : Where(r, u) = Where(d, u)
    BY <1>0, <2>1, <2>2, SetStatusType
  <2>4. kk.fault => r.fault
    BY <2>1, <2>3
  <2>5. SameRest(r, kk) /\ d.status = kk.status
    BY <2>1, <2>3 DEF SameRest, SameTCBs
  <2>6. ASSUME Coherent(kk)
        PROVE  /\ Coherent(r) /\ r.fault = kk.fault
               /\ OthersStay(r, kk, t) /\ SameWaiters(r, kk)
    <3>1. Loose(r, t)
      BY <1>0, <2>1, <2>2, <2>6, SetStatusLoose
    <3>2. Where(r, t) = {}
      BY <2>1, <2>3, <2>6
    <3>3. ~Has(kk, t, {"PEND"})
      BY <1>2, <2>6, HeadsDiffer DEF Coherent, NodeOK, PrioOK
    <3>4. ~Has(r, t, {"READY", "PEND"}) /\ ~Has(r, t, {"READY"}) /\ ~Has(r, t, {"PEND"})
      BY <2>3, <2>5, <3>3 DEF Has
    <3>5. NodeOK(r, t)
      BY <3>2, <3>4 DEF NodeOK
    <3>6. r.fault = kk.fault /\ OthersStay(r, kk, t) /\ SameWaiters(r, kk)
      BY <2>1, <2>3, <2>6 DEF OthersStay, SameWaiters, KernelState
    <3> QED BY <3>1, <3>5, <3>6, CoherentIsLoose
  <2> QED BY <2>1, <2>3, <2>4, <2>5, <2>6
<1> QED BY <1>1, <1>2

-----------------------------------------------------------------------------
(***************************************************************************)
(* The invariant of the kernel state, kept by every operator: its type,    *)
(* and its coherence unless a fault has occurred.  The TCBs that are in no *)
(* list need facts of their own: Dummy is never put back by a switch, and  *)
(* neither Dummy nor Idle ever waits with a timeout.                       *)
(***************************************************************************)
Timed == {"DELAY", "PEND_TIME"}

SpecialOK(kk) ==
    /\ "UNUSED" \in kk.status[Dummy]
    /\ kk.status[Dummy] \cap Timed = {}
    /\ kk.status[Idle] \cap Timed = {}

KInv(kk) ==
    /\ kk \in KernelState
    /\ PrioOK(kk)
    /\ SpecialOK(kk)
    /\ ~kk.fault => Coherent(kk)

\* The fields that decide who runs.
SameCtl(a, b) ==
    /\ a.run = b.run
    /\ a.lock = b.lock
    /\ a.scheduled = b.scheduled
    /\ a.pendsv = b.pendsv

LEMMA TasksAreTCBs ==
    /\ \A t \in Tasks : t \in TCB /\ t # Idle /\ t # Dummy
    /\ Idle \in TCB /\ Dummy \in TCB
    /\ \A t \in TCB : t \in Tasks \/ t = Idle \/ t = Dummy
  BY SchedAssumption DEF TCB

\* A step that moves no node and changes no flag or priority.
LEMMA InvFrame ==
    ASSUME NEW a, NEW b \in KernelState, KInv(a),
           b.status = a.status, b.prio = a.prio, b.list = a.list, b.bitmap = a.bitmap,
           a.fault => b.fault
    PROVE  KInv(b)
<1>1. PrioOK(b) /\ SpecialOK(b)
  BY DEF KInv, PrioOK, SpecialOK
<1>2. ASSUME ~b.fault PROVE Coherent(b)
  <2>1. Coherent(a)
    BY <1>2 DEF KInv
  <2>2. \A u \in Tasks : Where(b, u) = Where(a, u)
    BY DEF Where
  <2>3. \A u \in Tasks : NodeOK(b, u)
    BY <2>1, <2>2, NodeFrame DEF Coherent
  <2> QED BY <2>1, <2>3 DEF Coherent, BitmapOK
<1> QED BY <1>1, <1>2 DEF KInv

LEMMA DeleteSortInv ==
    ASSUME NEW kk, KInv(kk), NEW t \in Tasks, NEW r, r = OsDeleteSortLink(kk, t)
    PROVE  KInv(r) /\ SameCtl(r, kk) /\ r.status = kk.status /\ r.list = kk.list
           /\ r.fault = kk.fault /\ r.prio = kk.prio /\ r.bitmap = kk.bitmap
<1>1. kk \in KernelState
  BY DEF KInv
<1>2. /\ r \in KernelState
      /\ r.status = kk.status /\ r.prio = kk.prio /\ r.list = kk.list
      /\ r.bitmap = kk.bitmap /\ r.fault = kk.fault /\ SameCtl(r, kk)
  BY <1>1 DEF OsDeleteSortLink, KernelState, SameCtl
<1>3. KInv(r)
  BY <1>2, InvFrame
<1> QED BY <1>2, <1>3

LEMMA AddSortInv ==
    ASSUME NEW kk, KInv(kk), NEW t \in Tasks, NEW r, r = OsAdd2SortLink(kk, t)
    PROVE  KInv(r) /\ SameCtl(r, kk)
<1>1. kk \in KernelState
  BY DEF KInv
<1>2. /\ r \in KernelState
      /\ r.status = kk.status /\ r.prio = kk.prio /\ r.list = kk.list
      /\ r.bitmap = kk.bitmap /\ SameCtl(r, kk)
      /\ r.fault = (kk.fault \/ t \in kk.sort)
  BY <1>1 DEF OsAdd2SortLink, KernelState, SameCtl
<1>3. kk.fault => r.fault
  BY <1>2
<1> QED BY <1>2, <1>3, InvFrame

\* Flags that do not say where a node is.
Harmless(off, on) ==
    /\ off \cap {"READY", "PEND", "UNUSED"} = {}
    /\ on \cap {"READY", "PEND"} = {}

\* The flags Idle and Dummy may be given.
Untimed(on) == on \cap Timed = {}

LEMMA SetStatusInv ==
    ASSUME NEW kk, KInv(kk), NEW t \in TCB, NEW off, NEW on \in FlagSets,
           Harmless(off, on), t \in Tasks \/ Untimed(on),
           NEW r, r = SetStatus(kk, t, off, on)
    PROVE  /\ KInv(r)
           /\ SameCtl(r, kk)
           /\ r.fault = kk.fault
           /\ r.status[t] = (kk.status[t] \ off) \cup on
           /\ \A u \in TCB \ {t} : r.status[u] = kk.status[u]
           /\ r.list = kk.list /\ r.bitmap = kk.bitmap
<1>1. kk \in KernelState
  BY DEF KInv
<1>2. /\ r \in KernelState
      /\ r.status[t] = (kk.status[t] \ off) \cup on
      /\ \A u \in TCB \ {t} : r.status[u] = kk.status[u]
      /\ r.prio = kk.prio /\ r.list = kk.list
      /\ r.bitmap = kk.bitmap /\ r.run = kk.run
      /\ r.lock = kk.lock /\ r.scheduled = kk.scheduled
      /\ r.pendsv = kk.pendsv /\ r.fault = kk.fault
      /\ \A u \in Tasks : Where(r, u) = Where(kk, u)
  BY <1>1, SetStatusType
<1>3. PrioOK(r)
  BY <1>2 DEF PrioOK, KInv
<1>4. SpecialOK(r)
  <2>1. ASSUME NEW u \in {Idle, Dummy} PROVE r.status[u] \cap Timed = {}
    <3>1. CASE u = t
      BY <1>2, <2>1, <3>1, TasksAreTCBs DEF KInv, SpecialOK, Untimed
    <3>2. CASE u # t
      BY <1>2, <2>1, <3>2, TasksAreTCBs DEF KInv, SpecialOK
    <3> QED BY <3>1, <3>2
  <2>2. "UNUSED" \in r.status[Dummy]
    BY <1>2, TasksAreTCBs DEF KInv, SpecialOK, Harmless
  <2> QED BY <2>1, <2>2 DEF SpecialOK
<1>5. ASSUME ~r.fault PROVE Coherent(r)
  <2>1. Coherent(kk)
    BY <1>2, <1>5 DEF KInv
  <2>2. ASSUME NEW u \in Tasks PROVE NodeOK(r, u)
    <3>1. CASE u # t
      BY <1>2, <2>1, <3>1, TasksAreTCBs, NodeFrame DEF Coherent
    <3>2. CASE u = t
      <4>1. /\ Has(r, u, {"READY"}) <=> Has(kk, u, {"READY"})
            /\ Has(r, u, {"PEND"}) <=> Has(kk, u, {"PEND"})
            /\ Has(r, u, {"READY", "PEND"}) <=> Has(kk, u, {"READY", "PEND"})
            /\ Has(kk, u, {"UNUSED"}) => Has(r, u, {"UNUSED"})
        BY <1>2, <3>2 DEF Has, Harmless
      <4>2. NodeOK(kk, u) /\ Where(r, u) = Where(kk, u) /\ r.prio = kk.prio
        BY <1>2, <2>1 DEF Coherent
      <4> QED BY <4>1, <4>2 DEF NodeOK
    <3> QED BY <3>1, <3>2
  <2> QED BY <1>2, <2>1, <2>2 DEF Coherent, BitmapOK
<1>6. SameCtl(r, kk)
  BY <1>2 DEF SameCtl
<1> QED BY <1>2, <1>3, <1>4, <1>5, <1>6 DEF KInv

LEMMA EnQueueInv ==
    ASSUME NEW kk \in KernelState, PrioOK(kk), SpecialOK(kk), NEW t \in Tasks,
           ~kk.fault => Loose(kk, t), NEW r, r = OsSchedTaskEnQueue(kk, t)
    PROVE  KInv(r) /\ SameCtl(r, kk)
<1>1. /\ r \in KernelState
      /\ SameRest(r, kk)
      /\ kk.fault => r.fault
      /\ \A u \in TCB \ {t} : r.status[u] = kk.status[u]
      /\ Loose(kk, t) /\ ~r.fault => Coherent(r)
  BY EnQueueTask
<1>2. PrioOK(r)
  BY <1>1 DEF PrioOK, SameRest
<1>3. SpecialOK(r)
  BY <1>1, TasksAreTCBs DEF SpecialOK
<1> QED BY <1>1, <1>2, <1>3 DEF KInv, SameCtl, SameRest

LEMMA InvIsLoose ==
    ASSUME NEW kk, KInv(kk), NEW t \in Tasks
    PROVE  kk \in KernelState /\ PrioOK(kk) /\ SpecialOK(kk)
           /\ (~kk.fault => Loose(kk, t) /\ NodeOK(kk, t))
  BY CoherentIsLoose DEF KInv

LEMMA DeQueueInv ==
    ASSUME NEW kk, KInv(kk), NEW t \in Tasks \cup {Idle}, NEW r, r = OsSchedTaskDeQueue(kk, t)
    PROVE  /\ KInv(r)
           /\ SameCtl(r, kk)
           /\ r.prio = kk.prio
           /\ r.status[t] = kk.status[t] \ {"READY"}
           /\ \A u \in TCB \ {t} : r.status[u] = kk.status[u]
           /\ t \in Tasks /\ Has(kk, t, {"READY"}) /\ ~r.fault => Where(r, t) = {}
<1>0. kk \in KernelState /\ PrioOK(kk) /\ SpecialOK(kk)
  BY DEF KInv
<1>1. CASE t \in Tasks
  <2>1. /\ r \in KernelState
        /\ SameRest(r, kk)
        /\ kk.fault => r.fault
        /\ r.status[t] = kk.status[t] \ {"READY"}
        /\ \A u \in TCB \ {t} : r.status[u] = kk.status[u]
        /\ Coherent(kk) => Coherent(r)
        /\ Coherent(kk) /\ Has(kk, t, {"READY"}) => Where(r, t) = {}
    BY <1>0, <1>1, DeQueueTask
  <2>2. PrioOK(r) /\ SpecialOK(r)
    BY <1>0, <1>1, <2>1, TasksAreTCBs DEF PrioOK, SpecialOK, SameRest
  <2>3. ~r.fault => Coherent(kk)
    BY <2>1 DEF KInv
  <2> QED BY <2>1, <2>2, <2>3 DEF KInv, SameCtl, SameRest
<1>2. CASE t = Idle
  <2>0. Idle \in TCB /\ {} \in FlagSets /\ Idle \notin Tasks
    BY SchedAssumption DEF TCB, FlagSets
  <2>1. CASE ~Has(kk, Idle, {"READY"})
    BY <1>2, <2>0, <2>1 DEF OsSchedTaskDeQueue, Has, SameCtl
  <2>2. CASE Has(kk, Idle, {"READY"})
    <3>1. r = SetStatus(kk, Idle, {"READY"}, {})
      BY <1>2, <2>2 DEF OsSchedTaskDeQueue
    <3>2. /\ r \in KernelState
          /\ r.status[Idle] = (kk.status[Idle] \ {"READY"}) \cup {}
          /\ \A u \in TCB \ {Idle} : r.status[u] = kk.status[u]
          /\ r.prio = kk.prio /\ r.list = kk.list
          /\ r.bitmap = kk.bitmap /\ r.run = kk.run
          /\ r.lock = kk.lock /\ r.scheduled = kk.scheduled
          /\ r.pendsv = kk.pendsv /\ r.fault = kk.fault
          /\ \A u \in Tasks : Where(r, u) = Where(kk, u)
      BY <1>0, <2>0, <3>1, SetStatusType
    <3>3. PrioOK(r) /\ SpecialOK(r)
      BY <1>0, <3>2, TasksAreTCBs DEF PrioOK, SpecialOK
    <3>4. ASSUME ~r.fault PROVE Coherent(r)
      <4>1. Coherent(kk)
        BY <3>2, <3>4 DEF KInv
      <4>2. \A u \in Tasks : NodeOK(r, u)
        BY <3>2, <4>1, TasksAreTCBs, NodeFrame DEF Coherent
      <4> QED BY <3>2, <4>1, <4>2 DEF Coherent, BitmapOK
    <3> QED BY <1>2, <2>0, <3>2, <3>3, <3>4 DEF KInv, SameCtl
  <2> QED BY <2>1, <2>2
<1> QED BY <1>1, <1>2

\* Taking a pending task off its list of waiters and clearing PEND.
LEMMA UnpendInv ==
    ASSUME NEW kk, KInv(kk), NEW t \in Tasks, ~Has(kk, t, {"READY"}),
           NEW r, r = SetStatus(LOS_ListDelete(kk, t), t, {"PEND"}, {})
    PROVE  /\ KInv(r)
           /\ SameCtl(r, kk)
           /\ kk.fault => r.fault
           /\ r.status[t] = kk.status[t] \ {"PEND"}
           /\ \A u \in TCB \ {t} : r.status[u] = kk.status[u]
<1> DEFINE d == LOS_ListDelete(kk, t)
<1>0. t \in TCB /\ {} \in FlagSets /\ kk \in KernelState
  BY DEF TCB, FlagSets, KInv
<1>1. /\ d \in KernelState
      /\ SameTCBs(d, kk)
      /\ d.fault = (kk.fault \/ ~Linked(kk, t))
  BY <1>0, ListDeleteType
<1>2. ~kk.fault => Loose(d, t) /\ Where(d, t) = {}
  BY <1>0, InvIsLoose, NotReadyNotQueued, ListDeleteLoose
<1> HIDE DEF d
<1>3. /\ r \in KernelState
      /\ r.status[t] = (d.status[t] \ {"PEND"}) \cup {}
      /\ \A u \in TCB \ {t} : r.status[u] = d.status[u]
      /\ r.prio = d.prio /\ r.run = d.run /\ r.lock = d.lock
      /\ r.scheduled = d.scheduled /\ r.pendsv = d.pendsv /\ r.fault = d.fault
      /\ \A u \in Tasks : Where(r, u) = Where(d, u)
  BY <1>0, <1>1, SetStatusType DEF d
<1>4. d.status = kk.status /\ d.prio = kk.prio /\ SameCtl(r, kk)
  BY <1>1, <1>3 DEF SameTCBs, SameCtl
<1>5. PrioOK(r) /\ SpecialOK(r)
  BY <1>3, <1>4, TasksAreTCBs DEF PrioOK, SpecialOK, KInv
<1>6. kk.fault => r.fault
  BY <1>1, <1>3
<1>7. ASSUME ~r.fault PROVE Coherent(r)
  <2>1. Loose(r, t) /\ Where(r, t) = {}
    BY <1>0, <1>1, <1>2, <1>3, <1>6, <1>7, SetStatusLoose DEF d
  <2>2. ~Has(r, t, {"READY"}) /\ ~Has(r, t, {"PEND"}) /\ ~Has(r, t, {"READY", "PEND"})
    BY <1>3, <1>4 DEF Has
  <2>3. NodeOK(r, t)
    BY <2>1, <2>2 DEF NodeOK
  <2> QED BY <2>1, <2>3, CoherentIsLoose
<1> QED BY <1>3, <1>4, <1>5, <1>6, <1>7 DEF KInv

\* A task in a list of waiters is not in a ready queue.
LEMMA WaiterNotReady ==
    ASSUME NEW kk, KInv(kk), ~kk.fault, NEW t \in Tasks, NEW h \in Blockers, h \in Where(kk, t)
    PROVE  ~Has(kk, t, {"READY"})
  BY InvIsLoose, HeadsDiffer DEF NodeOK, PrioOK

\* Taking a task off the sort link and clearing the flags of its timed wait.
LEMMA UntimeInv ==
    ASSUME NEW kk, KInv(kk), NEW t \in Tasks, NEW off, off = {"PEND_TIME"} \/ off = Timed,
           NEW r, r = SetStatus(OsDeleteSortLink(kk, t), t, off, {})
    PROVE  /\ KInv(r)
           /\ SameCtl(r, kk)
           /\ r.fault = kk.fault
           /\ r.status[t] = kk.status[t] \ off
           /\ \A u \in TCB \ {t} : r.status[u] = kk.status[u]
<1> DEFINE d == OsDeleteSortLink(kk, t)
<1>1. KInv(d) /\ SameCtl(d, kk) /\ d.status = kk.status /\ d.fault = kk.fault
  BY DeleteSortInv
<1>2. t \in TCB /\ {} \in FlagSets /\ Harmless(off, {})
  BY DEF TCB, FlagSets, Harmless, Timed
<1> HIDE DEF d
<1>3. /\ KInv(r)
      /\ SameCtl(r, d)
      /\ r.fault = d.fault
      /\ r.status[t] = (d.status[t] \ off) \cup {}
      /\ \A u \in TCB \ {t} : r.status[u] = d.status[u]
  BY <1>1, <1>2, SetStatusInv DEF d
<1> QED BY <1>1, <1>3 DEF SameCtl

-----------------------------------------------------------------------------
(***************************************************************************)
(* The scheduler's operations keep the invariant.                          *)
(***************************************************************************)
LEMMA TaskExitInv ==
    ASSUME NEW kk, KInv(kk), NEW t \in Tasks, NEW r, r = OsSchedTaskExit(kk, t)
    PROVE  /\ KInv(r)
           /\ SameCtl(r, kk)
           /\ r.status[t] \cap Timed = {}
<1> DEFINE a == CASE Has(kk, t, {"READY"}) -> OsSchedTaskDeQueue(kk, t)
                  [] ~Has(kk, t, {"READY"}) /\ Has(kk, t, {"PEND"}) ->
                        SetStatus(LOS_ListDelete(kk, t), t, {"PEND"}, {})
                  [] ~Has(kk, t, {"READY", "PEND"}) -> kk
           b == IF Has(a, t, Timed)
                THEN SetStatus(OsDeleteSortLink(a, t), t, Timed, {})
                ELSE a
<1>1. KInv(a) /\ SameCtl(a, kk)
  <2>1. CASE Has(kk, t, {"READY"})
    <3>1. a = OsSchedTaskDeQueue(kk, t)
      BY <2>1 DEF Has
    <3> QED BY <3>1, DeQueueInv
  <2>2. CASE ~Has(kk, t, {"READY"}) /\ Has(kk, t, {"PEND"})
    <3>1. a = SetStatus(LOS_ListDelete(kk, t), t, {"PEND"}, {})
      BY <2>2 DEF Has
    <3> QED BY <2>2, <3>1, UnpendInv
  <2>3. CASE ~Has(kk, t, {"READY"}) /\ ~Has(kk, t, {"PEND"})
    <3>1. a = kk
      BY <2>3 DEF Has
    <3> QED BY <3>1 DEF SameCtl
  <2> QED BY <2>1, <2>2, <2>3
<1> HIDE DEF a
<1>2. KInv(b) /\ SameCtl(b, a) /\ b.status[t] \cap Timed = {}
  <2>1. CASE Has(a, t, Timed)
    <3>1. KInv(b) /\ SameCtl(b, a) /\ b.status[t] = a.status[t] \ Timed
      BY <1>1, <2>1, UntimeInv
    <3> QED BY <3>1
  <2>2. CASE ~Has(a, t, Timed)
    BY <1>1, <2>2 DEF Has, SameCtl
  <2> QED BY <2>1, <2>2
<1>3. r = SetStatus(b, t, {}, {"EXIT"})
  BY DEF OsSchedTaskExit, a, Timed
<1> HIDE DEF b
<1>4. t \in TCB /\ {"EXIT"} \in FlagSets /\ Harmless({}, {"EXIT"})
  BY DEF TCB, FlagSets, Flag, Harmless
<1>5. KInv(r) /\ SameCtl(r, b) /\ r.status[t] = (b.status[t] \ {}) \cup {"EXIT"}
  BY <1>2, <1>3, <1>4, SetStatusInv
<1>6. r.status[t] \cap Timed = {}
  BY <1>2, <1>5 DEF Timed
<1> QED BY <1>1, <1>2, <1>5, <1>6 DEF SameCtl

LEMMA TaskWaitInv ==
    ASSUME NEW kk, KInv(kk), kk.run \in Tasks, NEW h \in Blockers, NEW timed \in BOOLEAN,
           NEW r, r = OsSchedTaskWait(kk, h, timed)
    PROVE  KInv(r) /\ SameCtl(r, kk)
<1> DEFINE t == kk.run
           i == LOS_ListTailInsert(kk, h, t)
           on == IF timed THEN {"PEND", "PEND_TIME"} ELSE {"PEND"}
<1>0. /\ t \in Tasks /\ t \in TCB /\ on \in FlagSets /\ kk \in KernelState
      /\ h \in Head_ /\ \A p \in Prio : h # Pri(p)
  BY HeadsDiffer DEF TCB, FlagSets, Flag, KInv
<1>1. r = SetStatus(i, t, {}, on) /\ "PEND" \in on /\ "READY" \notin on
  BY DEF OsSchedTaskWait
<1> HIDE DEF t, on
<1>2. /\ i \in KernelState
      /\ SameTCBs(i, kk)
      /\ i.fault = (kk.fault \/ Linked(kk, t))
  BY <1>0, ListInsertType
<1>3. ~i.fault => Loose(i, t) /\ Where(i, t) = {h} /\ ~Has(kk, t, {"READY"})
  <2> SUFFICES ASSUME ~i.fault PROVE Loose(i, t) /\ Where(i, t) = {h} /\ ~Has(kk, t, {"READY"})
    OBVIOUS
  <2>1. ~kk.fault /\ ~Linked(kk, t)
    BY <1>2
  <2>2. Loose(kk, t) /\ NodeOK(kk, t)
    BY <1>0, <2>1, InvIsLoose
  <2>3. ~Has(kk, t, {"READY"})
    BY <2>1, <2>2 DEF NodeOK, Linked
  <2> QED BY <1>0, <2>1, <2>2, <2>3, ListInsertLoose
<1> HIDE DEF i
<1>4. /\ r \in KernelState
      /\ r.status[t] = (i.status[t] \ {}) \cup on
      /\ \A u \in TCB \ {t} : r.status[u] = i.status[u]
      /\ r.prio = i.prio /\ r.run = i.run /\ r.lock = i.lock
      /\ r.scheduled = i.scheduled /\ r.pendsv = i.pendsv /\ r.fault = i.fault
      /\ \A u \in Tasks : Where(r, u) = Where(i, u)
  BY <1>0, <1>1, <1>2, SetStatusType
<1>5. i.status = kk.status /\ i.prio = kk.prio /\ SameCtl(r, kk)
  BY <1>2, <1>4 DEF SameTCBs, SameCtl
<1>6. PrioOK(r) /\ SpecialOK(r)
  BY <1>0, <1>4, <1>5, TasksAreTCBs DEF PrioOK, SpecialOK, KInv
<1>7. ASSUME ~r.fault PROVE Coherent(r)
  <2>1. Loose(r, t) /\ Where(r, t) = {h}
    BY <1>0, <1>1, <1>2, <1>3, <1>4, <1>7, SetStatusLoose
  <2>2. ~Has(r, t, {"READY"}) /\ Has(r, t, {"READY", "PEND"})
    BY <1>1, <1>3, <1>4, <1>5, <1>7 DEF Has
  <2>3. NodeOK(r, t)
    BY <1>0, <2>1, <2>2, HeadsDiffer DEF NodeOK
  <2> QED BY <1>0, <2>1, <2>3, CoherentIsLoose
<1> QED BY <1>4, <1>5, <1>6, <1>7 DEF KInv

LEMMA TaskWakeInv ==
    ASSUME NEW kk, KInv(kk), NEW t \in Tasks, ~Has(kk, t, {"READY"}),
           NEW r, r = OsSchedTaskWake(kk, t)
    PROVE  KInv(r) /\ SameCtl(r, kk)
<1> DEFINE a == SetStatus(LOS_ListDelete(kk, t), t, {"PEND"}, {})
           b == IF Has(a, t, {"PEND_TIME"})
                THEN SetStatus(OsDeleteSortLink(a, t), t, {"PEND_TIME"}, {})
                ELSE a
<1>1. KInv(a) /\ SameCtl(a, kk)
  BY UnpendInv
<1>2. r = IF Has(b, t, {"SUSPEND", "RUNNING"}) THEN b ELSE OsSchedTaskEnQueue(b, t)
  BY DEF OsSchedTaskWake
<1> HIDE DEF a
<1>3. KInv(b) /\ SameCtl(b, a)
  <2>1. CASE Has(a, t, {"PEND_TIME"})
    BY <1>1, <2>1, UntimeInv
  <2>2. CASE ~Has(a, t, {"PEND_TIME"})
    BY <1>1, <2>2 DEF SameCtl
  <2> QED BY <2>1, <2>2
<1> HIDE DEF b
<1>4. KInv(r) /\ SameCtl(r, b)
  <2>1. CASE Has(b, t, {"SUSPEND", "RUNNING"})
    BY <1>2, <1>3, <2>1 DEF SameCtl
  <2>2. CASE ~Has(b, t, {"SUSPEND", "RUNNING"})
    BY <1>2, <1>3, <2>2, InvIsLoose, EnQueueInv
  <2> QED BY <2>1, <2>2
<1> QED BY <1>1, <1>3, <1>4 DEF SameCtl

LEMMA WakePendTimeInv ==
    ASSUME NEW kk, KInv(kk), ~kk.fault, NEW t \in Tasks, NEW r, r = OsSchedWakePendTimeTask(kk, t)
    PROVE  KInv(r) /\ SameCtl(r, kk)
<1> DEFINE pended == Has(kk, t, {"PEND"})
           s == OsDeleteSortLink(kk, t)
           off == {"PEND", "PEND_TIME", "DELAY"}
           on == IF pended THEN {"TIMEOUT"} ELSE {}
           a == SetStatus(s, t, off, on)
           b == IF pended THEN LOS_ListDelete(a, t) ELSE a
<1>0. t \in TCB /\ on \in FlagSets /\ "READY" \notin on /\ "PEND" \notin on
  BY DEF TCB, FlagSets, Flag
<1>1. /\ KInv(s) /\ SameCtl(s, kk) /\ s.status = kk.status /\ s.list = kk.list
      /\ s.fault = kk.fault /\ s.prio = kk.prio /\ s.bitmap = kk.bitmap
  BY DeleteSortInv
<1>2. r = CASE ~Has(kk, t, {"PEND", "DELAY"}) -> s
            [] Has(kk, t, {"PEND", "DELAY"}) /\ Has(kk, t, {"SUSPEND"}) -> b
            [] Has(kk, t, {"PEND", "DELAY"}) /\ ~Has(kk, t, {"SUSPEND"}) ->
                  OsSchedTaskEnQueue(b, t)
  BY DEF OsSchedWakePendTimeTask
<1> HIDE DEF s, on, pended, off
<1>3. s \in KernelState /\ PrioOK(s) /\ SpecialOK(s) /\ Loose(s, t) /\ NodeOK(s, t)
  BY <1>1, InvIsLoose
<1>4. /\ a \in KernelState
      /\ a.status[t] = (s.status[t] \ off) \cup on
      /\ \A u \in TCB \ {t} : a.status[u] = s.status[u]
      /\ a.prio = s.prio /\ a.run = s.run /\ a.lock = s.lock
      /\ a.scheduled = s.scheduled /\ a.pendsv = s.pendsv /\ a.fault = s.fault
      /\ \A u \in Tasks : Where(a, u) = Where(s, u)
  BY <1>0, <1>3, SetStatusType
<1>5. Loose(a, t)
  BY <1>0, <1>3, SetStatusLoose
<1>6. PrioOK(a) /\ SpecialOK(a) /\ SameCtl(a, kk)
  BY <1>1, <1>3, <1>4, TasksAreTCBs DEF PrioOK, SpecialOK, SameCtl
<1>7. ~Has(a, t, {"PEND"})
  BY <1>0, <1>4 DEF Has, off
<1> HIDE DEF a
<1>8. CASE pended
  <2>1. PICK h \in Blockers : Where(a, t) = {h}
    BY <1>1, <1>3, <1>4, <1>8 DEF NodeOK, Has, pended
  <2>2. ~Has(s, t, {"READY"})
    BY <1>3, <1>4, <2>1, HeadsDiffer DEF NodeOK, PrioOK
  <2>3. ~Has(a, t, {"READY"}) /\ ~Has(a, t, {"READY", "PEND"})
    BY <1>0, <1>4, <1>7, <2>2 DEF Has
  <2>4. b = LOS_ListDelete(a, t)
    BY <1>8
  <2>5. b \in KernelState /\ SameTCBs(b, a)
    BY <1>4, <2>4, ListDeleteType
  <2>6. Loose(b, t) /\ Where(b, t) = {}
    BY <1>4, <1>5, <2>1, <2>4, HeadsDiffer, ListDeleteLoose
  <2> HIDE DEF b
  <2>7. NodeOK(b, t)
    BY <1>7, <2>3, <2>5, <2>6 DEF NodeOK, Has, SameTCBs
  <2>8. Coherent(b) /\ PrioOK(b) /\ SpecialOK(b) /\ SameCtl(b, kk)
    BY <1>6, <2>5, <2>6, <2>7, CoherentIsLoose DEF PrioOK, SpecialOK, SameCtl, SameTCBs
  <2>9. KInv(b)
    BY <2>5, <2>8 DEF KInv
  <2>10. CASE Has(kk, t, {"SUSPEND"})
    <3>1. r = b
      BY <1>2, <1>8, <2>10 DEF Has, pended
    <3> QED BY <2>8, <2>9, <3>1
  <2>11. CASE ~Has(kk, t, {"SUSPEND"})
    <3>1. r = OsSchedTaskEnQueue(b, t)
      BY <1>2, <1>8, <2>11 DEF Has, pended
    <3>2. KInv(r) /\ SameCtl(r, b)
      BY <2>5, <2>6, <2>8, <3>1, EnQueueInv
    <3> QED BY <2>8, <3>2 DEF SameCtl
  <2> QED BY <2>10, <2>11
<1>9. CASE ~pended
  <2>1. b = a
    BY <1>9
  <2>2. /\ Has(a, t, {"READY"}) <=> Has(s, t, {"READY"})
        /\ Has(a, t, {"READY", "PEND"}) <=> Has(s, t, {"READY", "PEND"})
        /\ Has(a, t, {"UNUSED"}) <=> Has(s, t, {"UNUSED"})
    BY <1>1, <1>4, <1>9 DEF Has, off, on, pended
  <2>3. NodeOK(a, t)
    BY <1>3, <1>4, <1>7, <2>2 DEF NodeOK
  <2>4. KInv(a)
    BY <1>4, <1>5, <1>6, <2>3, CoherentIsLoose DEF KInv
  <2>5. CASE ~Has(kk, t, {"PEND", "DELAY"})
    <3>1. r = s
      BY <1>2, <2>5
    <3> QED BY <1>1, <3>1
  <2>6. CASE Has(kk, t, {"PEND", "DELAY"}) /\ Has(kk, t, {"SUSPEND"})
    <3>1. r = a
      BY <1>2, <2>1, <2>6
    <3> QED BY <1>6, <2>4, <3>1
  <2>7. CASE Has(kk, t, {"PEND", "DELAY"}) /\ ~Has(kk, t, {"SUSPEND"})
    <3>1. r = OsSchedTaskEnQueue(a, t)
      BY <1>2, <2>1, <2>7
    <3>2. KInv(r) /\ SameCtl(r, a)
      BY <1>4, <1>5, <1>6, <3>1, EnQueueInv
    <3> QED BY <1>6, <3>2 DEF SameCtl
  <2> QED BY <2>5, <2>6, <2>7
<1> QED BY <1>8, <1>9

LEMMA SuspendInv ==
    ASSUME NEW kk, KInv(kk), NEW t \in Tasks, NEW r, r = OsSchedSuspend(kk, t)
    PROVE  KInv(r) /\ SameCtl(r, kk)
<1> DEFINE d == OsSchedTaskDeQueue(kk, t)
<1>1. KInv(d) /\ SameCtl(d, kk)
  BY DeQueueInv
<1>2. r = SetStatus(d, t, {}, {"SUSPEND"})
  BY DEF OsSchedSuspend
<1>3. t \in TCB /\ {"SUSPEND"} \in FlagSets /\ Harmless({}, {"SUSPEND"})
  BY DEF TCB, FlagSets, Flag, Harmless
<1> HIDE DEF d
<1>4. KInv(r) /\ SameCtl(r, d)
  BY <1>1, <1>2, <1>3, SetStatusInv
<1> QED BY <1>1, <1>4 DEF SameCtl

LEMMA ResumeInv ==
    ASSUME NEW kk, KInv(kk), NEW t \in Tasks, NEW r, r = OsSchedResume(kk, t)
    PROVE  KInv(r) /\ SameCtl(r, kk)
<1> DEFINE a == SetStatus(kk, t, {"SUSPEND"}, {})
<1>1. t \in TCB /\ {} \in FlagSets /\ Harmless({"SUSPEND"}, {})
  BY DEF TCB, FlagSets, Flag, Harmless
<1>2. KInv(a) /\ SameCtl(a, kk)
  BY <1>1, SetStatusInv
<1>3. r = IF OsSchedResumeResult(kk, t) THEN OsSchedTaskEnQueue(a, t) ELSE a
  BY DEF OsSchedResume
<1> HIDE DEF a
<1>4. CASE OsSchedResumeResult(kk, t)
  <2>1. KInv(r) /\ SameCtl(r, a)
    BY <1>2, <1>3, <1>4, InvIsLoose, EnQueueInv
  <2> QED BY <1>2, <2>1 DEF SameCtl
<1>5. CASE ~OsSchedResumeResult(kk, t)
  BY <1>2, <1>3, <1>5
<1> QED BY <1>4, <1>5

LEMMA SetPrioType ==
    ASSUME NEW kk, KInv(kk), NEW t \in Tasks, NEW p \in Prio, NEW r, r = SetPrio(kk, t, p)
    PROVE  /\ r \in KernelState /\ PrioOK(r) /\ SpecialOK(r) /\ SameCtl(r, kk)
           /\ r.status = kk.status /\ r.list = kk.list /\ r.fault = kk.fault
           /\ ~kk.fault => Loose(r, t)
           /\ ~Has(kk, t, {"READY"}) => KInv(r)
<1>0. t \in TCB /\ kk \in KernelState /\ p \in 0..(LowestPrio + 1)
  BY SchedAssumption DEF TCB, KInv, Prio
<1>1. /\ r \in KernelState
      /\ r.status = kk.status /\ r.list = kk.list /\ r.fault = kk.fault
      /\ r.bitmap = kk.bitmap /\ SameCtl(r, kk)
      /\ r.prio = [kk.prio EXCEPT ![t] = p]
  <2>1. [kk.prio EXCEPT ![t] = p] \in [TCB -> 0..(LowestPrio + 1)]
    BY <1>0 DEF KernelState
  <2> QED BY <1>0, <2>1 DEF SetPrio, KernelState, SameCtl
<1>2. /\ r.prio[t] = p
      /\ \A u \in TCB \ {t} : r.prio[u] = kk.prio[u]
  BY <1>0, <1>1 DEF KernelState
<1>3. PrioOK(r) /\ SpecialOK(r)
  BY <1>1, <1>2, TasksAreTCBs DEF PrioOK, SpecialOK, KInv
<1>4. \A u \in Tasks : Where(r, u) = Where(kk, u)
  BY <1>1 DEF Where
<1>5. ASSUME ~kk.fault PROVE Loose(r, t)
  <2>1. Coherent(kk)
    BY <1>5 DEF KInv
  <2>2. \A u \in Tasks \ {t} : NodeOK(r, u)
    BY <1>1, <1>2, <1>4, <2>1, TasksAreTCBs, NodeFrame DEF Coherent
  <2> QED BY <1>1, <2>1, <2>2 DEF Loose, Coherent, BitmapOK
<1>6. ASSUME ~kk.fault, ~Has(kk, t, {"READY"}) PROVE NodeOK(r, t)
  <2>1. NodeOK(kk, t)
    BY <1>6, InvIsLoose
  <2> QED BY <1>1, <1>4, <1>6, <2>1 DEF NodeOK, Has
<1>7. ~Has(kk, t, {"READY"}) => KInv(r)
  BY <1>1, <1>3, <1>5, <1>6, CoherentIsLoose DEF KInv
<1> QED BY <1>1, <1>3, <1>5, <1>7

LEMMA ModifyInv ==
    ASSUME NEW kk, KInv(kk), NEW t \in Tasks, NEW p \in Prio,
           NEW r, r = OsSchedModifyTaskSchedParam(kk, t, p)
    PROVE  KInv(r) /\ SameCtl(r, kk)
<1>1. CASE Has(kk, t, {"READY"})
  <2> DEFINE d == OsSchedTaskDeQueue(kk, t)
             s == SetPrio(d, t, p)
  <2>1. KInv(d) /\ SameCtl(d, kk)
    BY DeQueueInv
  <2>2. r = OsSchedTaskEnQueue(s, t)
    BY <1>1 DEF OsSchedModifyTaskSchedParam
  <2> HIDE DEF d
  <2>3. /\ s \in KernelState /\ PrioOK(s) /\ SpecialOK(s) /\ SameCtl(s, d)
        /\ s.fault = d.fault
        /\ ~d.fault => Loose(s, t)
    BY <2>1, SetPrioType
  <2> HIDE DEF s
  <2>4. KInv(r) /\ SameCtl(r, s)
    BY <2>2, <2>3, EnQueueInv
  <2> QED BY <2>1, <2>3, <2>4 DEF SameCtl
<1>2. CASE ~Has(kk, t, {"READY"})
  <2>1. r = SetPrio(kk, t, p)
    BY <1>2 DEF OsSchedModifyTaskSchedParam
  <2> QED BY <1>2, <2>1, SetPrioType
<1> QED BY <1>1, <1>2

-----------------------------------------------------------------------------
(***************************************************************************)
(* Switching keeps the invariant.                                          *)
(***************************************************************************)
\* An update of a time slice.
LEMMA SliceInv ==
    ASSUME NEW kk, KInv(kk), NEW t \in TCB, NEW s \in BOOLEAN,
           NEW r, r = [kk EXCEPT !.slice = [kk.slice EXCEPT ![t] = s]]
    PROVE  KInv(r) /\ SameCtl(r, kk) /\ r.status = kk.status
<1>1. kk \in KernelState
  BY DEF KInv
<1>2. /\ r \in KernelState
      /\ r.status = kk.status /\ r.prio = kk.prio /\ r.list = kk.list
      /\ r.bitmap = kk.bitmap /\ r.fault = kk.fault /\ SameCtl(r, kk)
  BY <1>1 DEF KernelState, SameCtl
<1> QED BY <1>2, InvFrame

LEMMA TimeSliceUpdateInv ==
    ASSUME NEW kk, KInv(kk), NEW t \in TCB, NEW left \in BOOLEAN,
           NEW r, r = OsTimeSliceUpdate(kk, t, left)
    PROVE  KInv(r) /\ SameCtl(r, kk) /\ r.status = kk.status
<1>1. CASE t = Idle
  BY <1>1 DEF OsTimeSliceUpdate, SameCtl
<1>2. CASE t # Idle
  <2>1. (kk.slice[t] /\ left) \in BOOLEAN
    OBVIOUS
  <2> QED BY <1>2, <2>1, SliceInv DEF OsTimeSliceUpdate
<1> QED BY <1>1, <1>2

LEMMA ScheduleInv ==
    ASSUME NEW kk, KInv(kk), NEW r, r = LOS_ScheduleEffect(kk)
    PROVE  KInv(r) /\ r.run = kk.run /\ r.lock = kk.lock /\ r.scheduled = kk.scheduled
<1>1. kk \in KernelState
  BY DEF KInv
<1>2. (kk.pendsv \/ (kk.scheduled /\ LOS_CHECK_SCHEDULE(kk))) \in BOOLEAN
  OBVIOUS
<1>3. /\ r \in KernelState
      /\ r.status = kk.status /\ r.prio = kk.prio /\ r.list = kk.list
      /\ r.bitmap = kk.bitmap /\ r.fault = kk.fault
      /\ r.run = kk.run /\ r.lock = kk.lock /\ r.scheduled = kk.scheduled
  BY <1>1, <1>2 DEF LOS_ScheduleEffect, KernelState
<1> QED BY <1>3, InvFrame

\* OsSchedTaskSwitch puts the running task back where its status says.
LEMMA PutBackInv ==
    ASSUME NEW kk, KInv(kk), NEW r, r = PutBack(kk)
    PROVE  KInv(r) /\ SameCtl(r, kk)
<1> DEFINE t == kk.run
<1>0. t \in TCB /\ kk \in KernelState /\ SpecialOK(kk)
  BY DEF KInv, KernelState
<1>1. CASE t \in Tasks
  <2>1. CASE Has(kk, t, {"PEND_TIME", "DELAY"})
    <3>1. r = OsAdd2SortLink(kk, t)
      BY <2>1 DEF PutBack, Has
    <3> QED BY <1>1, <3>1, AddSortInv
  <2>2. CASE ~Has(kk, t, {"PEND_TIME", "DELAY"}) /\ Has(kk, t, Blocked)
    <3>1. r = kk
      BY <2>2 DEF PutBack, Has
    <3> QED BY <3>1 DEF SameCtl
  <2>3. CASE ~Has(kk, t, {"PEND_TIME", "DELAY"}) /\ ~Has(kk, t, Blocked)
    <3>1. r = OsSchedTaskEnQueue(kk, t)
      BY <2>3 DEF PutBack, Has
    <3> QED BY <1>1, <3>1, InvIsLoose, EnQueueInv
  <2> QED BY <2>1, <2>2, <2>3
<1>2. CASE t = Idle
  <2>1. ~Has(kk, t, {"PEND_TIME", "DELAY"})
    BY <1>0, <1>2 DEF SpecialOK, Has, Timed
  <2>2. CASE Has(kk, t, Blocked)
    <3>1. r = kk
      BY <2>1, <2>2 DEF PutBack, Has
    <3> QED BY <3>1 DEF SameCtl
  <2>3. CASE ~Has(kk, t, Blocked)
    <3>1. r = OsSchedTaskEnQueue(kk, Idle)
      BY <1>2, <2>1, <2>3 DEF PutBack, Has
    <3>2. /\ r \in KernelState
          /\ SameRest(r, kk)
          /\ r.list = kk.list /\ r.bitmap = kk.bitmap
          /\ kk.fault => r.fault
          /\ r.status[Idle] = (kk.status[Idle] \ {"PEND", "SUSPEND", "DELAY", "PEND_TIME"})
                                 \cup {"READY"}
          /\ \A u \in TCB \ {Idle} : r.status[u] = kk.status[u]
      BY <1>0, <3>1, EnQueueIdle
    <3>3. PrioOK(r) /\ SpecialOK(r)
      <4>1. Dummy \in TCB \ {Idle}
        BY SchedAssumption DEF TCB
      <4> QED BY <1>0, <3>2, <4>1 DEF PrioOK, SpecialOK, KInv, SameRest, Timed
    <3>4. ASSUME ~r.fault PROVE Coherent(r)
      <4>1. Coherent(kk)
        BY <3>2, <3>4 DEF KInv
      <4>2. \A u \in Tasks : Where(r, u) = Where(kk, u)
        BY <3>2 DEF Where
      <4>3. \A u \in Tasks : NodeOK(r, u)
        BY <3>2, <4>1, <4>2, TasksAreTCBs, NodeFrame DEF Coherent, SameRest
      <4> QED BY <3>2, <4>1, <4>3 DEF Coherent, BitmapOK
    <3> QED BY <3>2, <3>3, <3>4 DEF KInv, SameCtl, SameRest
  <2> QED BY <2>2, <2>3
<1>3. CASE t = Dummy
  <2>1. ~Has(kk, t, {"PEND_TIME", "DELAY"}) /\ Has(kk, t, Blocked)
    BY <1>0, <1>3 DEF SpecialOK, Has, Timed, Blocked
  <2>2. r = kk
    BY <2>1 DEF PutBack, Has
  <2> QED BY <2>2 DEF SameCtl
<1> QED BY <1>0, <1>1, <1>2, <1>3, TasksAreTCBs

\* CLZ finds the highest priority of a non-empty bitmap.
LEMMA TopPrioIsTop ==
    ASSUME NEW kk \in KernelState, kk.bitmap # {}
    PROVE  /\ TopPrio(kk) \in kk.bitmap /\ TopPrio(kk) \in Prio
           /\ \A q \in kk.bitmap : TopPrio(kk) <= q
<1>1. kk.bitmap \subseteq Prio /\ Prio \subseteq Nat
  BY SchedAssumption DEF KernelState, Prio
<1>2. \E p \in kk.bitmap : \A q \in kk.bitmap : p <= q
  <2> DEFINE R == {ss \in Nat \X Nat : ss[1] < ss[2]}
  <2>1. IsWellFoundedOn(R, Nat)
    BY NatLessThanWellFounded, Zenon DEF OpToRel
  <2> HIDE DEF R
  <2>2. PICK p \in kk.bitmap : \A q \in kk.bitmap : ~(<<q, p>> \in R)
    BY <1>1, <2>1, WFMin
  <2>3. ASSUME NEW q \in kk.bitmap PROVE p <= q
    <3>1. q \in Nat /\ p \in Nat /\ <<q, p>> \notin R
      BY <1>1, <2>2
    <3>2. ~(q < p)
      BY <3>1 DEF R
    <3> QED BY <3>1, <3>2
  <2> QED BY <2>3
<1> QED BY <1>1, <1>2 DEF TopPrio

LEMMA TopTaskType ==
    ASSUME NEW kk, KInv(kk), ~StaleBit(kk)
    PROVE  OsGetTopTask(kk) \in Tasks \cup {Idle}
<1>1. CASE kk.bitmap = {}
  BY <1>1 DEF OsGetTopTask
<1>2. CASE kk.bitmap # {}
  <2>1. kk \in KernelState /\ TopPrio(kk) \in Prio
    BY <1>2, TopPrioIsTop DEF KInv
  <2>2. kk.list[Pri(TopPrio(kk))] # << >> /\ kk.list[Pri(TopPrio(kk))] \in Seq(Tasks)
    BY <1>2, <2>1, HeadsDiffer DEF StaleBit, KernelState
  <2> QED BY <1>2, <2>2, FirstOfList DEF OsGetTopTask
<1> QED BY <1>1, <1>2

\* A bitmap that is exact has no stale bit: the switch always finds a task.
LEMMA NoStaleBit ==
    ASSUME NEW kk, KInv(kk), ~kk.fault
    PROVE  ~StaleBit(kk)
  BY TopPrioIsTop DEF KInv, Coherent, BitmapOK, StaleBit

LEMMA SwitchToInv ==
    ASSUME NEW kk, KInv(kk), NEW new \in Tasks \cup {Idle}, NEW r, r = SwitchTo(kk, new)
    PROVE  KInv(r) /\ r.lock = kk.lock /\ r.scheduled = kk.scheduled
<1> DEFINE s == SetStatus(kk, kk.run, {"RUNNING"}, {})
           a == SetStatus(s, new, {}, {"RUNNING"})
           b == IF new = kk.run THEN kk ELSE [a EXCEPT !.run = new]
           d == OsSchedTaskDeQueue(b, new)
<1>0. /\ kk.run \in TCB /\ new \in TCB /\ {} \in FlagSets /\ {"RUNNING"} \in FlagSets
      /\ Harmless({"RUNNING"}, {}) /\ Harmless({}, {"RUNNING"})
      /\ Untimed({}) /\ Untimed({"RUNNING"})
  BY DEF KInv, KernelState, TCB, FlagSets, Flag, Harmless, Untimed, Timed
<1>1. r = [d EXCEPT !.pendsv = FALSE]
  BY DEF SwitchTo
<1>2. KInv(s) /\ SameCtl(s, kk)
  BY <1>0, SetStatusInv
<1> HIDE DEF s
<1>3. KInv(a) /\ SameCtl(a, s)
  BY <1>0, <1>2, SetStatusInv
<1> HIDE DEF a
<1>4. KInv(b) /\ b.lock = kk.lock /\ b.scheduled = kk.scheduled
  <2>1. CASE new = kk.run
    BY <2>1
  <2>2. CASE new # kk.run
    <3>1. b = [a EXCEPT !.run = new] /\ a \in KernelState
      BY <1>3, <2>2 DEF KInv
    <3>2. /\ b \in KernelState
          /\ b.status = a.status /\ b.prio = a.prio /\ b.list = a.list
          /\ b.bitmap = a.bitmap /\ b.fault = a.fault
          /\ b.lock = a.lock /\ b.scheduled = a.scheduled
      BY <1>0, <3>1 DEF KernelState
    <3> QED BY <1>2, <1>3, <3>2, InvFrame DEF SameCtl
  <2> QED BY <2>1, <2>2
<1> HIDE DEF b
<1>5. KInv(d) /\ SameCtl(d, b)
  BY <1>4, DeQueueInv
<1> HIDE DEF d
<1>6. /\ r \in KernelState
      /\ r.status = d.status /\ r.prio = d.prio /\ r.list = d.list
      /\ r.bitmap = d.bitmap /\ r.fault = d.fault
      /\ r.lock = d.lock /\ r.scheduled = d.scheduled
  BY <1>1, <1>5 DEF KInv, KernelState
<1>7. KInv(r)
  BY <1>5, <1>6, InvFrame
<1> QED BY <1>4, <1>5, <1>6, <1>7 DEF SameCtl

LEMMA TaskSwitchInv ==
    ASSUME NEW kk, KInv(kk), NEW left \in BOOLEAN, NEW r, r = OsSchedTaskSwitch(kk, left)
    PROVE  KInv(r) /\ r.lock = kk.lock /\ r.scheduled = kk.scheduled
<1> DEFINE u == OsTimeSliceUpdate(kk, kk.run, left)
           a == PutBack(u)
<1>0. kk.run \in TCB
  BY DEF KInv, KernelState
<1>1. r = IF StaleBit(a) THEN [a EXCEPT !.fault = TRUE] ELSE SwitchTo(a, OsGetTopTask(a))
  BY DEF OsSchedTaskSwitch
<1>2. KInv(u) /\ SameCtl(u, kk)
  BY <1>0, TimeSliceUpdateInv
<1> HIDE DEF u
<1>3. KInv(a) /\ SameCtl(a, u)
  BY <1>2, PutBackInv
<1> HIDE DEF a
<1>4. CASE StaleBit(a)
  <2>1. r = [a EXCEPT !.fault = TRUE] /\ a \in KernelState
    BY <1>1, <1>3, <1>4 DEF KInv
  <2>2. /\ r \in KernelState
        /\ r.status = a.status /\ r.prio = a.prio /\ r.list = a.list
        /\ r.bitmap = a.bitmap /\ r.fault
        /\ r.lock = a.lock /\ r.scheduled = a.scheduled
    BY <2>1 DEF KernelState
  <2> QED BY <1>2, <1>3, <2>2, InvFrame DEF SameCtl
<1>5. CASE ~StaleBit(a)
  <2>1. KInv(r) /\ r.lock = a.lock /\ r.scheduled = a.scheduled
    BY <1>1, <1>3, <1>5, TopTaskType, SwitchToInv
  <2> QED BY <1>2, <1>3, <2>1 DEF SameCtl
<1> QED BY <1>4, <1>5

LEMMA TickInv ==
    ASSUME NEW kk, KInv(kk), ~kk.fault, NEW due, due = {} \/ \E t \in Tasks : due = {t},
           NEW left \in BOOLEAN, NEW r, r = LOS_SchedTickHandler(kk, due, left)
    PROVE  KInv(r) /\ r.lock = kk.lock /\ r.scheduled = kk.scheduled
<1> DEFINE a == IF due = {} THEN kk
                ELSE OsSchedWakePendTimeTask(kk, CHOOSE t \in due : TRUE)
           u == OsTimeSliceUpdate(a, a.run, left)
<1>1. r = LOS_ScheduleEffect(u)
  BY DEF LOS_SchedTickHandler
<1>2. KInv(a) /\ SameCtl(a, kk)
  <2>1. CASE due = {}
    BY <2>1 DEF SameCtl
  <2>2. CASE due # {}
    <3>1. PICK t \in Tasks : due = {t}
      BY <2>2
    <3>2. (CHOOSE x \in due : TRUE) = t
      BY <3>1
    <3>3. a = OsSchedWakePendTimeTask(kk, t)
      BY <2>2, <3>2
    <3> QED BY <3>3, WakePendTimeInv
  <2> QED BY <2>1, <2>2
<1> HIDE DEF a
<1>3. a.run \in TCB
  BY <1>2 DEF KInv, KernelState
<1>4. KInv(u) /\ SameCtl(u, a)
  BY <1>2, <1>3, TimeSliceUpdateInv
<1> HIDE DEF u
<1>5. KInv(r) /\ r.lock = u.lock /\ r.scheduled = u.scheduled
  BY <1>1, <1>4, ScheduleInv
<1> QED BY <1>2, <1>4, <1>5 DEF SameCtl

LEMMA StartInv ==
    ASSUME NEW kk, KInv(kk), ~kk.fault, NEW r, r = OsSchedStart(kk)
    PROVE  KInv(r) /\ r.lock = kk.lock
<1> DEFINE new == OsGetTopTask(kk)
           s == SetStatus(kk, new, {}, {"RUNNING"})
           a == [s EXCEPT !.run = new]
           d == OsSchedTaskDeQueue(a, new)
<1>0. r = [d EXCEPT !.scheduled = TRUE]
  BY DEF OsSchedStart
<1>1. new \in Tasks \cup {Idle}
  BY NoStaleBit, TopTaskType
<1> HIDE DEF new
<1>2. /\ new \in TCB /\ {"RUNNING"} \in FlagSets
      /\ Harmless({}, {"RUNNING"}) /\ Untimed({"RUNNING"})
  BY <1>1 DEF TCB, FlagSets, Flag, Harmless, Untimed, Timed
<1>3. KInv(s) /\ SameCtl(s, kk)
  BY <1>2, SetStatusInv
<1> HIDE DEF s
<1>4. /\ a \in KernelState
      /\ a.status = s.status /\ a.prio = s.prio /\ a.list = s.list
      /\ a.bitmap = s.bitmap /\ a.fault = s.fault /\ a.lock = s.lock
  BY <1>2, <1>3 DEF KInv, KernelState
<1> HIDE DEF a
<1>5. KInv(a)
  BY <1>3, <1>4, InvFrame
<1>6. KInv(d) /\ SameCtl(d, a)
  BY <1>1, <1>5, DeQueueInv
<1> HIDE DEF d
<1>7. /\ r \in KernelState
      /\ r.status = d.status /\ r.prio = d.prio /\ r.list = d.list
      /\ r.bitmap = d.bitmap /\ r.fault = d.fault /\ r.lock = d.lock
  BY <1>0, <1>6 DEF KInv, KernelState
<1>8. KInv(r)
  BY <1>6, <1>7, InvFrame
<1> QED BY <1>3, <1>4, <1>6, <1>7, <1>8 DEF SameCtl

-----------------------------------------------------------------------------
(***************************************************************************)
(* The scheduler's operators never fault: from a kernel state in which the *)
(* flags of every TCB agree with one another, with runTask and with the    *)
(* sort link (Sane), each operator called as the code calls it meets every *)
(* list node where it expects it, passes its LOS_ASSERTs, and leaves such  *)
(* a state again.  Modules that add system calls build on these lemmas.    *)
(***************************************************************************)

-----------------------------------------------------------------------------
(***************************************************************************)
(* The invariant of a sane kernel.                                         *)
(***************************************************************************)
\* The flags a taskStatus may have at the same time; no task is joinable.
FlagsOK(s) ==
    /\ "READY" \in s => s \cap (Blocked \cup Timed \cup {"RUNNING"}) = {}
    /\ "PEND_TIME" \in s => "PEND" \in s
    /\ "PEND" \in s => "DELAY" \notin s
    /\ s \cap {"EXIT", "UNUSED"} # {} => s \cap (Timed \cup {"PEND"}) = {}
    /\ "EXIT" \in s => "UNUSED" \in s
    /\ "JOINABLE" \notin s

\* RUNNING marks runTask, and the TCB of a task that has deleted itself; a task is
\* on the sort link from the switch that takes it off the core to the end of its wait.
PlaceOK(kk, u) ==
    /\ "RUNNING" \in kk.status[u] => u = kk.run \/ "UNUSED" \in kk.status[u]
    /\ u = kk.run => "RUNNING" \in kk.status[u] /\ "UNUSED" \notin kk.status[u]
    /\ u \in kk.sort <=> kk.status[u] \cap Timed # {} /\ u # kk.run

TaskSane(kk, u) == FlagsOK(kk.status[u]) /\ PlaceOK(kk, u)

\* The idle task runs or is ready.
IdleSane(kk) == kk.status[Idle] = IF kk.run = Idle THEN {"RUNNING"} ELSE {"READY"}

Sane(kk) ==
    /\ KInv(kk)
    /\ ~kk.fault
    /\ IdleSane(kk)
    /\ \A u \in Tasks : TaskSane(kk, u)

\* r is kk with another status, priority or place of task t.
SameBut(r, kk, t) ==
    /\ KInv(r)
    /\ ~r.fault
    /\ SameCtl(r, kk)
    /\ \A u \in TCB \ {t} : /\ r.status[u] = kk.status[u]
                            /\ r.prio[u] = kk.prio[u]
                            /\ u \in r.sort <=> u \in kk.sort
    /\ OthersStay(r, kk, t)

Becomes(r, kk, t, st, so) ==
    /\ SameBut(r, kk, t)
    /\ r.status[t] = st
    /\ r.sort = so
    /\ r.prio = kk.prio

LEMMA SameButTrans ==
    ASSUME NEW a, NEW b, NEW c, NEW t \in Tasks, SameBut(a, b, t), SameBut(b, c, t)
    PROVE  SameBut(a, c, t)
<1>1. KInv(a) /\ ~a.fault /\ SameCtl(a, c)
  BY DEF SameBut, SameCtl
<1>2. \A u \in TCB \ {t} : /\ a.status[u] = c.status[u]
                           /\ a.prio[u] = c.prio[u]
                           /\ u \in a.sort <=> u \in c.sort
  BY DEF SameBut
<1>3. OthersStay(a, c, t)
  BY DEF SameBut, OthersStay
<1> QED BY <1>1, <1>2, <1>3 DEF SameBut

LEMMA SameButSane ==
    ASSUME NEW kk, Sane(kk), NEW t \in Tasks, NEW r, SameBut(r, kk, t), TaskSane(r, t)
    PROVE  Sane(r)
<1>1. ASSUME NEW u \in Tasks \ {t} PROVE TaskSane(r, u)
  <2>1. u \in TCB \ {t} /\ TaskSane(kk, u) /\ r.run = kk.run
    BY TasksAreTCBs DEF Sane, SameBut, SameCtl
  <2>2. r.status[u] = kk.status[u] /\ (u \in r.sort <=> u \in kk.sort)
    BY <2>1 DEF SameBut
  <2> QED BY <2>1, <2>2 DEF TaskSane, PlaceOK
<1>2. IdleSane(r)
  BY TasksAreTCBs DEF Sane, SameBut, SameCtl, IdleSane
<1> QED BY <1>1, <1>2 DEF Sane, SameBut

LEMMA SaneFacts ==
    ASSUME NEW kk, Sane(kk), NEW t \in Tasks
    PROVE  /\ KInv(kk) /\ ~kk.fault /\ kk \in KernelState /\ Coherent(kk) /\ PrioOK(kk)
           /\ kk.status[t] \in FlagSets /\ FlagsOK(kk.status[t]) /\ PlaceOK(kk, t)
           /\ t \in TCB /\ t # Idle /\ t # Dummy
  BY TasksAreTCBs DEF Sane, KInv, TaskSane, KernelState, FlagSets

-----------------------------------------------------------------------------
(***************************************************************************)
(* The steps the operations are made of.                                   *)
(***************************************************************************)
\* The node of a task that is neither ready nor pending nor unused is on no list.
LEMMA Unlinked ==
    ASSUME NEW kk, KInv(kk), ~kk.fault, NEW t \in Tasks,
           kk.status[t] \cap {"READY", "PEND", "UNUSED"} = {}
    PROVE  ~Linked(kk, t)
<1>1. NodeOK(kk, t)
  BY DEF KInv, Coherent
<1>2. ~Has(kk, t, {"READY", "PEND"}) /\ ~Has(kk, t, {"UNUSED"})
  BY DEF Has
<1> QED BY <1>1, <1>2 DEF NodeOK, Linked

LEMMA SetStatusStep ==
    ASSUME NEW kk, KInv(kk), ~kk.fault, NEW t \in Tasks, NEW off, NEW on \in FlagSets,
           Harmless(off, on), NEW r, r = SetStatus(kk, t, off, on)
    PROVE  /\ SameBut(r, kk, t)
           /\ r.status[t] = (kk.status[t] \ off) \cup on
           /\ r.sort = kk.sort /\ r.prio = kk.prio /\ r.list = kk.list
<1>0. t \in TCB /\ kk \in KernelState
  BY TasksAreTCBs DEF KInv
<1>1. KInv(r)
  BY <1>0, SetStatusInv
<1>2. /\ r.status[t] = (kk.status[t] \ off) \cup on
      /\ \A u \in TCB \ {t} : r.status[u] = kk.status[u]
      /\ r.prio = kk.prio /\ r.list = kk.list /\ r.sort = kk.sort /\ r.run = kk.run
      /\ r.lock = kk.lock /\ r.scheduled = kk.scheduled
      /\ r.pendsv = kk.pendsv /\ r.fault = kk.fault
      /\ \A u \in Tasks : Where(r, u) = Where(kk, u)
  BY <1>0, SetStatusType
<1> QED BY <1>1, <1>2 DEF SameBut, SameCtl, OthersStay

LEMMA DeQueueStep ==
    ASSUME NEW kk, KInv(kk), ~kk.fault, NEW t \in Tasks, NEW r, r = OsSchedTaskDeQueue(kk, t)
    PROVE  /\ Becomes(r, kk, t, kk.status[t] \ {"READY"}, kk.sort)
           /\ SameWaiters(r, kk)
<1>0. kk \in KernelState /\ PrioOK(kk) /\ Coherent(kk)
  BY DEF KInv
<1>1. KInv(r)
  BY DeQueueInv
<1>2. /\ SameRest(r, kk)
      /\ r.status[t] = kk.status[t] \ {"READY"}
      /\ \A u \in TCB \ {t} : r.status[u] = kk.status[u]
      /\ r.fault = kk.fault
      /\ OthersStay(r, kk, t) /\ SameWaiters(r, kk)
  BY <1>0, DeQueueTask
<1> QED BY <1>1, <1>2 DEF Becomes, SameBut, SameCtl, SameRest

LEMMA EnQueueStep ==
    ASSUME NEW kk, KInv(kk), ~kk.fault, NEW t \in Tasks,
           kk.status[t] \cap {"READY", "PEND", "UNUSED"} = {},
           NEW r, r = OsSchedTaskEnQueue(kk, t)
    PROVE  /\ Becomes(r, kk, t, (kk.status[t] \ {"SUSPEND", "DELAY", "PEND_TIME"})
                                   \cup {"READY"}, kk.sort)
           /\ SameWaiters(r, kk)
<1>0. kk \in KernelState /\ PrioOK(kk) /\ SpecialOK(kk) /\ Loose(kk, t)
  BY InvIsLoose
<1>1. ~Linked(kk, t) /\ ~Has(kk, t, {"READY"})
  BY Unlinked DEF Has
<1>2. KInv(r)
  BY <1>0, EnQueueInv
<1>3. /\ SameRest(r, kk)
      /\ r.status[t] = (kk.status[t] \ {"PEND", "SUSPEND", "DELAY", "PEND_TIME"}) \cup {"READY"}
      /\ \A u \in TCB \ {t} : r.status[u] = kk.status[u]
      /\ r.fault = (kk.fault \/ Has(kk, t, {"READY"}) \/ Linked(kk, t))
      /\ SameWaiters(r, kk)
      /\ ~r.fault => OthersStay(r, kk, t)
  BY <1>0, EnQueueTask
<1>4. r.status[t] = (kk.status[t] \ {"SUSPEND", "DELAY", "PEND_TIME"}) \cup {"READY"}
  BY <1>3
<1>5. ~r.fault /\ OthersStay(r, kk, t)
  BY <1>1, <1>3
<1> QED BY <1>2, <1>3, <1>4, <1>5 DEF Becomes, SameBut, SameCtl, SameRest

\* The list of waiters a pending task is on.
LEMMA PenderLinked ==
    ASSUME NEW kk, KInv(kk), ~kk.fault, NEW t \in Tasks, "PEND" \in kk.status[t]
    PROVE  Linked(kk, t) /\ "READY" \notin kk.status[t]
<1>0. NodeOK(kk, t) /\ kk \in KernelState /\ PrioOK(kk)
  BY DEF KInv, Coherent
<1>1. PICK h \in Blockers : Where(kk, t) = {h}
  BY <1>0 DEF NodeOK, Has
<1>2. ~Has(kk, t, {"READY"})
  BY <1>1, WaiterNotReady
<1> QED BY <1>1, <1>2 DEF Linked, Has

LEMMA UnpendStep ==
    ASSUME NEW kk, KInv(kk), ~kk.fault, NEW t \in Tasks, "PEND" \in kk.status[t],
           NEW r, r = SetStatus(LOS_ListDelete(kk, t), t, {"PEND"}, {})
    PROVE  /\ Becomes(r, kk, t, kk.status[t] \ {"PEND"}, kk.sort)
           /\ \A h \in Blockers : r.list[h] = Without(kk.list[h], t)
<1> DEFINE d == LOS_ListDelete(kk, t)
<1>0. t \in TCB /\ kk \in KernelState /\ {} \in FlagSets /\ \A h \in Head_ : NoDup(kk.list[h])
  BY TasksAreTCBs DEF KInv, FlagSets, Coherent
<1>1. Linked(kk, t) /\ ~Has(kk, t, {"READY"})
  BY PenderLinked DEF Has
<1>2. KInv(r) /\ SameCtl(r, kk)
  BY <1>1, UnpendInv
<1>3. /\ d \in KernelState
      /\ SameTCBs(d, kk)
      /\ d.fault = (kk.fault \/ ~Linked(kk, t))
      /\ d.list = [h \in Head_ |-> Without(kk.list[h], t)]
  BY <1>0, ListDeleteType
<1>4. \A u \in Tasks \ {t} : Where(d, u) = Where(kk, u)
  BY <1>0, WhereAfterDelete
<1> HIDE DEF d
<1>5. /\ r.status[t] = (d.status[t] \ {"PEND"}) \cup {}
      /\ \A u \in TCB \ {t} : r.status[u] = d.status[u]
      /\ r.prio = d.prio /\ r.list = d.list /\ r.sort = d.sort /\ r.fault = d.fault
      /\ \A u \in Tasks : Where(r, u) = Where(d, u)
  BY <1>0, <1>3, SetStatusType DEF d
<1>6. OthersStay(r, kk, t) /\ ~r.fault
  BY <1>1, <1>3, <1>4, <1>5 DEF OthersStay
<1>7. \A h \in Blockers : r.list[h] = Without(kk.list[h], t)
  BY <1>3, <1>5, HeadsDiffer
<1> QED BY <1>2, <1>3, <1>5, <1>6, <1>7 DEF Becomes, SameBut, SameTCBs

LEMMA DeleteSortStep ==
    ASSUME NEW kk, KInv(kk), ~kk.fault, NEW t \in Tasks, NEW r, r = OsDeleteSortLink(kk, t)
    PROVE  Becomes(r, kk, t, kk.status[t], kk.sort \ {t}) /\ r.list = kk.list
<1>1. KInv(r) /\ SameCtl(r, kk) /\ r.status = kk.status /\ r.list = kk.list
      /\ r.fault = kk.fault /\ r.prio = kk.prio
  BY DeleteSortInv
<1>2. r.sort = kk.sort \ {t}
  BY DEF OsDeleteSortLink, KInv, KernelState
<1> QED BY <1>1, <1>2 DEF Becomes, SameBut, OthersStay, Where

\* t's node has left the lists of waiting tasks; the others' order is kept.
Left(r, kk, t) == \A h \in Blockers : r.list[h] = Without(kk.list[h], t)

\* A task that does not pend is on no such list.
LEMMA LeftIsSame ==
    ASSUME NEW kk, KInv(kk), ~kk.fault, NEW t \in Tasks, "PEND" \notin kk.status[t]
    PROVE  \A h \in Blockers : t \notin Range(kk.list[h]) /\ Without(kk.list[h], t) = kk.list[h]
<1>0. kk \in KernelState /\ NodeOK(kk, t) /\ PrioOK(kk)
  BY DEF KInv, Coherent
<1>1. \A h \in Blockers : h \notin Where(kk, t)
  <2>1. CASE Has(kk, t, {"READY"})
    BY <1>0, <2>1, HeadsDiffer DEF NodeOK, PrioOK
  <2>2. CASE ~Has(kk, t, {"READY"})
    <3>1. ~Has(kk, t, {"READY", "PEND"})
      BY <2>2 DEF Has
    <3> QED BY <1>0, <3>1, HeadsDiffer DEF NodeOK
  <2> QED BY <2>1, <2>2
<1>2. \A h \in Blockers : t \notin Range(kk.list[h])
  BY <1>1, HeadsDiffer DEF Where
<1> QED BY <1>2 DEF Without

-----------------------------------------------------------------------------
(***************************************************************************)
(* State changes of one task.                                              *)
(***************************************************************************)
\* OsSchedTaskExit takes a task off whatever it is on.
LEMMA ExitSafe ==
    ASSUME NEW kk, Sane(kk), NEW t \in Tasks, "UNUSED" \notin kk.status[t],
           NEW r, r = OsSchedTaskExit(kk, t)
    PROVE  /\ SameBut(r, kk, t) /\ Left(r, kk, t) /\ r.prio = kk.prio
           /\ r.status[t] = (kk.status[t] \ {"READY", "PEND", "DELAY", "PEND_TIME"}) \cup {"EXIT"}
           /\ t \notin r.sort
           /\ ~Linked(r, t)
<1> DEFINE st == kk.status[t]
           a == CASE Has(kk, t, {"READY"}) -> OsSchedTaskDeQueue(kk, t)
                  [] ~Has(kk, t, {"READY"}) /\ Has(kk, t, {"PEND"}) ->
                        SetStatus(LOS_ListDelete(kk, t), t, {"PEND"}, {})
                  [] ~Has(kk, t, {"READY", "PEND"}) -> kk
           d == OsDeleteSortLink(a, t)
           b == IF Has(a, t, {"DELAY", "PEND_TIME"})
                THEN SetStatus(d, t, {"DELAY", "PEND_TIME"}, {})
                ELSE a
<1>0. /\ KInv(kk) /\ ~kk.fault /\ FlagsOK(st) /\ PlaceOK(kk, t) /\ t \in TCB
      /\ st \in FlagSets
  BY SaneFacts
<1>1. r = SetStatus(b, t, {}, {"EXIT"})
  BY DEF OsSchedTaskExit
<1>2. SameBut(a, kk, t) /\ a.status[t] = st \ {"READY", "PEND"} /\ a.sort = kk.sort
      /\ a.prio = kk.prio /\ Left(a, kk, t)
  <2>1. CASE Has(kk, t, {"READY"})
    <3>1. a = OsSchedTaskDeQueue(kk, t)
      BY <2>1 DEF Has
    <3>2. "PEND" \notin st
      BY <1>0, <2>1 DEF Has, FlagsOK, Blocked
    <3>3. Becomes(a, kk, t, st \ {"READY"}, kk.sort) /\ SameWaiters(a, kk)
      BY <1>0, <3>1, DeQueueStep
    <3>4. Left(a, kk, t)
      BY <1>0, <3>2, <3>3, LeftIsSame DEF Left, SameWaiters
    <3>5. st \ {"READY"} = st \ {"READY", "PEND"}
      BY <3>2
    <3> QED BY <3>3, <3>4, <3>5 DEF Becomes
  <2>2. CASE ~Has(kk, t, {"READY"}) /\ Has(kk, t, {"PEND"})
    <3>1. a = SetStatus(LOS_ListDelete(kk, t), t, {"PEND"}, {}) /\ "PEND" \in st
      BY <2>2 DEF Has
    <3>2. Becomes(a, kk, t, st \ {"PEND"}, kk.sort) /\ Left(a, kk, t)
      BY <1>0, <3>1, UnpendStep DEF Left
    <3>3. st \ {"PEND"} = st \ {"READY", "PEND"}
      BY <2>2 DEF Has
    <3> QED BY <3>2, <3>3 DEF Becomes
  <2>3. CASE ~Has(kk, t, {"READY"}) /\ ~Has(kk, t, {"PEND"})
    <3>1. a = kk /\ "PEND" \notin st /\ st = st \ {"READY", "PEND"}
      BY <2>3 DEF Has
    <3>2. SameBut(kk, kk, t)
      BY <1>0 DEF SameBut, SameCtl, OthersStay
    <3>3. Left(kk, kk, t)
      BY <1>0, <3>1, LeftIsSame DEF Left
    <3> QED BY <3>1, <3>2, <3>3
  <2> QED BY <2>1, <2>2, <2>3
<1> HIDE DEF a
<1>3. SameBut(b, kk, t) /\ b.status[t] = st \ {"READY", "PEND", "DELAY", "PEND_TIME"}
      /\ t \notin b.sort /\ b.prio = kk.prio /\ Left(b, kk, t)
  <2>0. KInv(a) /\ ~a.fault
    BY <1>2 DEF SameBut
  <2>1. CASE Has(a, t, {"DELAY", "PEND_TIME"})
    <3>1. b = SetStatus(d, t, {"DELAY", "PEND_TIME"}, {})
      BY <2>1
    <3>2. Becomes(d, a, t, a.status[t], a.sort \ {t}) /\ d.list = a.list
      BY <2>0, DeleteSortStep
    <3> HIDE DEF d
    <3>3. {} \in FlagSets /\ Harmless({"DELAY", "PEND_TIME"}, {}) /\ KInv(d) /\ ~d.fault
      BY <3>2 DEF FlagSets, Harmless, Becomes, SameBut
    <3>4. /\ SameBut(b, d, t)
          /\ b.status[t] = (d.status[t] \ {"DELAY", "PEND_TIME"}) \cup {}
          /\ b.sort = d.sort /\ b.prio = d.prio /\ b.list = d.list
      BY <3>1, <3>3, SetStatusStep
    <3>5. SameBut(b, kk, t)
      BY <1>2, <3>2, <3>4, SameButTrans DEF Becomes
    <3>6. b.status[t] = st \ {"READY", "PEND", "DELAY", "PEND_TIME"}
      BY <1>2, <3>2, <3>4 DEF Becomes
    <3> QED BY <1>2, <3>2, <3>4, <3>5, <3>6 DEF Becomes, Left
  <2>2. CASE ~Has(a, t, {"DELAY", "PEND_TIME"})
    <3>1. b = a /\ st \cap Timed = {}
      BY <1>2, <2>2 DEF Has, Timed
    <3>2. t \notin kk.sort
      BY <1>0, <3>1 DEF PlaceOK
    <3>3. a.status[t] = st \ {"READY", "PEND", "DELAY", "PEND_TIME"}
      BY <1>2, <2>2 DEF Has
    <3> QED BY <1>2, <3>1, <3>2, <3>3
  <2> QED BY <2>1, <2>2
<1> HIDE DEF b
<1>4. {"EXIT"} \in FlagSets /\ Harmless({}, {"EXIT"}) /\ KInv(b) /\ ~b.fault
  BY <1>3 DEF FlagSets, Flag, Harmless, SameBut
<1>5. /\ SameBut(r, b, t)
      /\ r.status[t] = (b.status[t] \ {}) \cup {"EXIT"}
      /\ r.sort = b.sort /\ r.prio = b.prio /\ r.list = b.list
  BY <1>1, <1>4, SetStatusStep
<1>6. SameBut(r, kk, t)
  BY <1>3, <1>5, SameButTrans DEF Becomes
<1>7. r.status[t] = (st \ {"READY", "PEND", "DELAY", "PEND_TIME"}) \cup {"EXIT"}
  BY <1>3, <1>5 DEF Becomes
<1>8. ~Linked(r, t)
  <2>1. r.status[t] \cap {"READY", "PEND", "UNUSED"} = {}
    BY <1>7
  <2> QED BY <1>6, <2>1, Unlinked DEF SameBut
<1> QED BY <1>3, <1>5, <1>6, <1>7, <1>8 DEF Becomes, Left

LEMMA SuspendSafe ==
    ASSUME NEW kk, Sane(kk), NEW t \in Tasks, "UNUSED" \notin kk.status[t],
           NEW r, r = OsSchedSuspend(kk, t)
    PROVE  /\ Sane(r) /\ SameWaiters(r, kk)
           /\ Becomes(r, kk, t, (kk.status[t] \ {"READY"}) \cup {"SUSPEND"}, kk.sort)
<1> DEFINE st == kk.status[t]
           d == OsSchedTaskDeQueue(kk, t)
<1>0. KInv(kk) /\ ~kk.fault /\ FlagsOK(st) /\ PlaceOK(kk, t) /\ t \in TCB
  BY SaneFacts
<1>1. Becomes(d, kk, t, st \ {"READY"}, kk.sort) /\ SameWaiters(d, kk)
  BY <1>0, DeQueueStep
<1>2. r = SetStatus(d, t, {}, {"SUSPEND"})
  BY DEF OsSchedSuspend
<1> HIDE DEF d
<1>3. {"SUSPEND"} \in FlagSets /\ Harmless({}, {"SUSPEND"}) /\ KInv(d) /\ ~d.fault
  BY <1>1 DEF FlagSets, Flag, Harmless, Becomes, SameBut
<1>4. /\ SameBut(r, d, t)
      /\ r.status[t] = (d.status[t] \ {}) \cup {"SUSPEND"}
      /\ r.sort = d.sort /\ r.prio = d.prio /\ r.list = d.list
  BY <1>2, <1>3, SetStatusStep
<1>5. SameBut(r, kk, t)
  BY <1>1, <1>4, SameButTrans DEF Becomes
<1>6. Becomes(r, kk, t, (st \ {"READY"}) \cup {"SUSPEND"}, kk.sort)
  BY <1>1, <1>4, <1>5 DEF Becomes
<1>7. TaskSane(r, t)
  <2>1. r.status[t] = (st \ {"READY"}) \cup {"SUSPEND"} /\ r.run = kk.run /\ r.sort = kk.sort
    BY <1>6 DEF Becomes, SameBut, SameCtl
  <2>2. FlagsOK(r.status[t])
    BY <1>0, <2>1 DEF FlagsOK, Timed
  <2>3. PlaceOK(r, t)
    BY <1>0, <2>1 DEF PlaceOK, Timed
  <2> QED BY <2>2, <2>3 DEF TaskSane
<1>8. SameWaiters(r, kk)
  BY <1>1, <1>4 DEF SameWaiters
<1> QED BY <1>5, <1>6, <1>7, <1>8, SameButSane

LEMMA ResumeSafe ==
    ASSUME NEW kk, Sane(kk), NEW t \in Tasks, t # kk.run,
           "SUSPEND" \in kk.status[t], "UNUSED" \notin kk.status[t],
           NEW r, r = OsSchedResume(kk, t)
    PROVE  /\ Sane(r) /\ SameWaiters(r, kk)
           /\ SameBut(r, kk, t) /\ r.sort = kk.sort /\ r.prio = kk.prio
           /\ r.status[t] = IF OsSchedResumeResult(kk, t)
                            THEN (kk.status[t] \ {"SUSPEND"}) \cup {"READY"}
                            ELSE kk.status[t] \ {"SUSPEND"}
<1> DEFINE st == kk.status[t]
           a == SetStatus(kk, t, {"SUSPEND"}, {})
<1>0. /\ KInv(kk) /\ ~kk.fault /\ FlagsOK(st) /\ PlaceOK(kk, t) /\ t \in TCB
      /\ {} \in FlagSets /\ Harmless({"SUSPEND"}, {})
  BY SaneFacts DEF FlagSets, Harmless
<1>1. /\ SameBut(a, kk, t)
      /\ a.status[t] = (kk.status[t] \ {"SUSPEND"}) \cup {}
      /\ a.sort = kk.sort /\ a.prio = kk.prio /\ a.list = kk.list
  BY <1>0, SetStatusStep
<1>2. r = IF OsSchedResumeResult(kk, t) THEN OsSchedTaskEnQueue(a, t) ELSE a
  BY DEF OsSchedResume
<1> HIDE DEF a
<1>3. "READY" \notin st
  BY <1>0 DEF FlagsOK, Blocked
<1>4. CASE OsSchedResumeResult(kk, t)
  <2>1. st \cap {"DELAY", "PEND", "PEND_TIME"} = {}
    BY <1>0, <1>4 DEF OsSchedResumeResult, Has, FlagsOK
  <2>2. a.status[t] \cap {"READY", "PEND", "UNUSED"} = {} /\ KInv(a) /\ ~a.fault
    BY <1>1, <1>3, <2>1 DEF SameBut
  <2>3. /\ SameBut(r, a, t) /\ r.sort = a.sort /\ r.prio = a.prio /\ SameWaiters(r, a)
        /\ r.status[t] = (a.status[t] \ {"SUSPEND", "DELAY", "PEND_TIME"}) \cup {"READY"}
    BY <1>2, <1>4, <2>2, EnQueueStep DEF Becomes
  <2>4. SameBut(r, kk, t)
    BY <1>1, <2>3, SameButTrans
  <2>5. r.status[t] = (st \ {"SUSPEND"}) \cup {"READY"} /\ r.run = kk.run
    BY <1>1, <2>1, <2>3, <2>4 DEF SameBut, SameCtl
  <2>6. TaskSane(r, t)
    <3>1. "EXIT" \notin st /\ "RUNNING" \notin st
      BY <1>0 DEF FlagsOK, PlaceOK
    <3>2. FlagsOK(r.status[t])
      BY <1>0, <2>1, <2>5, <3>1 DEF FlagsOK, Blocked, Timed
    <3>3. PlaceOK(r, t)
      BY <1>0, <1>1, <2>1, <2>3, <2>5, <3>1 DEF PlaceOK, Timed
    <3> QED BY <3>2, <3>3 DEF TaskSane
  <2> QED BY <1>1, <1>4, <2>3, <2>4, <2>5, <2>6, SameButSane DEF SameWaiters
<1>5. CASE ~OsSchedResumeResult(kk, t)
  <2>1. r = a /\ r.run = kk.run
    BY <1>1, <1>2, <1>5 DEF SameBut, SameCtl
  <2>2. TaskSane(r, t)
    <3>1. FlagsOK(r.status[t])
      BY <1>0, <1>1, <2>1 DEF FlagsOK, Blocked, Timed
    <3>2. PlaceOK(r, t)
      BY <1>0, <1>1, <2>1 DEF PlaceOK, Timed
    <3> QED BY <3>1, <3>2 DEF TaskSane
  <2> QED BY <1>1, <1>5, <2>1, <2>2, SameButSane DEF SameWaiters
<1> QED BY <1>4, <1>5

LEMMA SetPrioStep ==
    ASSUME NEW kk, KInv(kk), ~kk.fault, NEW t \in Tasks, "READY" \notin kk.status[t],
           NEW p \in Prio, NEW r, r = SetPrio(kk, t, p)
    PROVE  /\ SameBut(r, kk, t) /\ r.status = kk.status /\ r.sort = kk.sort
           /\ r.prio[t] = p /\ r.list = kk.list
<1>0. t \in TCB /\ kk \in KernelState /\ ~Has(kk, t, {"READY"})
  BY TasksAreTCBs DEF KInv, Has
<1>1. /\ r.status = kk.status /\ r.list = kk.list /\ r.fault = kk.fault
      /\ SameCtl(r, kk) /\ KInv(r)
  BY <1>0, SetPrioType
<1>2. r.prio = [kk.prio EXCEPT ![t] = p] /\ r.sort = kk.sort
  BY <1>0 DEF SetPrio, KernelState
<1>3. r.prio[t] = p /\ \A u \in TCB \ {t} : r.prio[u] = kk.prio[u]
  BY <1>0, <1>2 DEF KernelState
<1> QED BY <1>1, <1>2, <1>3 DEF SameBut, OthersStay, Where

LEMMA ModifySafe ==
    ASSUME NEW kk, Sane(kk), NEW t \in Tasks, NEW p \in Prio,
           NEW r, r = OsSchedModifyTaskSchedParam(kk, t, p)
    PROVE  /\ Sane(r) /\ SameWaiters(r, kk)
           /\ SameBut(r, kk, t) /\ r.status[t] = kk.status[t] /\ r.sort = kk.sort
           /\ r.prio[t] = p
<1> DEFINE st == kk.status[t]
<1>0. KInv(kk) /\ ~kk.fault /\ FlagsOK(st) /\ PlaceOK(kk, t) /\ t \in TCB
  BY SaneFacts
<1>1. /\ SameBut(r, kk, t) /\ r.status[t] = st /\ r.sort = kk.sort
      /\ r.prio[t] = p /\ SameWaiters(r, kk)
  <2>1. CASE "READY" \in st
    <3> DEFINE d == OsSchedTaskDeQueue(kk, t)
               s == SetPrio(d, t, p)
    <3>1. r = OsSchedTaskEnQueue(s, t)
      BY <2>1 DEF OsSchedModifyTaskSchedParam, Has
    <3>2. Becomes(d, kk, t, st \ {"READY"}, kk.sort) /\ SameWaiters(d, kk)
      BY <1>0, DeQueueStep
    <3> HIDE DEF d
    <3>3. KInv(d) /\ ~d.fault /\ "READY" \notin d.status[t]
      BY <3>2 DEF Becomes, SameBut
    <3>4. /\ SameBut(s, d, t) /\ s.status = d.status /\ s.sort = d.sort
          /\ s.prio[t] = p /\ s.list = d.list
      BY <3>3, SetPrioStep
    <3> HIDE DEF s
    <3>5. st \cap (Blocked \cup Timed \cup {"RUNNING"}) = {}
      BY <1>0, <2>1 DEF FlagsOK
    <3>6. s.status[t] \cap {"READY", "PEND", "UNUSED"} = {} /\ KInv(s) /\ ~s.fault
      BY <3>2, <3>4, <3>5 DEF Becomes, SameBut, Blocked
    <3>7. /\ SameBut(r, s, t) /\ r.sort = s.sort /\ r.prio = s.prio /\ SameWaiters(r, s)
          /\ r.status[t] = (s.status[t] \ {"SUSPEND", "DELAY", "PEND_TIME"}) \cup {"READY"}
      BY <3>1, <3>6, EnQueueStep DEF Becomes
    <3>8. SameBut(r, kk, t)
      BY <3>2, <3>4, <3>7, SameButTrans DEF Becomes
    <3>9. r.status[t] = st
      BY <2>1, <3>2, <3>4, <3>5, <3>7 DEF Becomes, Blocked, Timed
    <3>10. SameWaiters(r, kk)
      BY <3>2, <3>4, <3>7 DEF SameWaiters
    <3> QED BY <3>2, <3>4, <3>7, <3>8, <3>9, <3>10 DEF Becomes
  <2>2. CASE "READY" \notin st
    <3>1. r = SetPrio(kk, t, p)
      BY <2>2 DEF OsSchedModifyTaskSchedParam, Has
    <3> QED BY <1>0, <2>2, <3>1, SetPrioStep DEF SameWaiters
  <2> QED BY <2>1, <2>2
<1>2. TaskSane(r, t)
  BY <1>0, <1>1 DEF TaskSane, PlaceOK, SameBut, SameCtl
<1> QED BY <1>1, <1>2, SameButSane

\* The running task, which is not blocked, joins a list of waiting tasks.
MayWait(kk, t) == t = kk.run /\ kk.status[t] \cap (Blocked \cup {"DELAY"}) = {}

NowWaits(r, kk, t, h, timed) ==
    /\ Sane(r)
    /\ SameBut(r, kk, t) /\ r.sort = kk.sort /\ r.prio = kk.prio
    /\ r.status[t] = kk.status[t] \cup (IF timed THEN {"PEND", "PEND_TIME"} ELSE {"PEND"})
    /\ r.list[h] = Append(kk.list[h], t)
    /\ \A g \in Blockers : g # h => r.list[g] = kk.list[g]

LEMMA WaitSafe ==
    ASSUME NEW kk, Sane(kk), NEW t \in Tasks, MayWait(kk, t),
           NEW h \in Blockers, NEW timed \in BOOLEAN, NEW r, r = OsSchedTaskWait(kk, h, timed)
    PROVE  NowWaits(r, kk, t, h, timed)
<1> DEFINE st == kk.status[t]
           i == LOS_ListTailInsert(kk, h, t)
           on == IF timed THEN {"PEND", "PEND_TIME"} ELSE {"PEND"}
<1>0. /\ KInv(kk) /\ ~kk.fault /\ FlagsOK(st) /\ PlaceOK(kk, t) /\ t \in TCB
      /\ kk \in KernelState /\ on \in FlagSets /\ h \in Head_
      /\ \A g \in Head_ : NoDup(kk.list[g])
  BY SaneFacts, HeadsDiffer DEF FlagSets, Flag, Coherent
<1>1. st \cap {"READY", "PEND", "UNUSED", "EXIT", "SUSPEND", "DELAY", "PEND_TIME"} = {}
  BY <1>0 DEF FlagsOK, PlaceOK, Blocked, MayWait
<1>2. KInv(r) /\ SameCtl(r, kk)
  BY <1>0, TaskWaitInv DEF MayWait
<1>3. ~Linked(kk, t)
  BY <1>0, <1>1, Unlinked
<1>4. /\ i \in KernelState /\ SameTCBs(i, kk)
      /\ i.fault = (kk.fault \/ Linked(kk, t))
      /\ \A g \in Head_ : g # h => i.list[g] = kk.list[g]
  BY <1>0, ListInsertType
<1>5. \A u \in Tasks \ {t} : Where(i, u) = Where(kk, u)
  BY <1>0, <1>3, WhereAfterInsert
<1>6. i.list[h] = Append(kk.list[h], t)
  BY <1>0 DEF LOS_ListTailInsert, KernelState
<1>7. r = SetStatus(i, t, {}, on)
  BY DEF OsSchedTaskWait, MayWait
<1> HIDE DEF i, on
<1>8. /\ r.status[t] = (i.status[t] \ {}) \cup on
      /\ \A u \in TCB \ {t} : r.status[u] = i.status[u]
      /\ r.prio = i.prio /\ r.list = i.list /\ r.sort = i.sort /\ r.fault = i.fault
      /\ \A u \in Tasks : Where(r, u) = Where(i, u)
  BY <1>0, <1>4, <1>7, SetStatusType
<1>9. SameBut(r, kk, t) /\ r.status[t] = st \cup on /\ r.sort = kk.sort /\ r.prio = kk.prio
  BY <1>0, <1>2, <1>3, <1>4, <1>5, <1>8 DEF SameBut, SameTCBs, OthersStay
<1>10. TaskSane(r, t)
  <2>1. FlagsOK(r.status[t])
    BY <1>0, <1>1, <1>9 DEF FlagsOK, Timed, on
  <2>2. PlaceOK(r, t)
    BY <1>0, <1>1, <1>2, <1>9 DEF PlaceOK, SameCtl, on, MayWait
  <2> QED BY <2>1, <2>2 DEF TaskSane
<1>11. \A g \in Blockers : g # h => r.list[g] = kk.list[g]
  BY <1>4, <1>8, HeadsDiffer
<1> QED BY <1>6, <1>8, <1>9, <1>10, <1>11, SameButSane DEF on, NowWaits

\* A task that waits, which may be suspended or not switched out yet, is woken.
LEMMA WakeSafe ==
    ASSUME NEW kk, Sane(kk), NEW t \in Tasks, "PEND" \in kk.status[t],
           NEW r, r = OsSchedTaskWake(kk, t)
    PROVE  /\ Sane(r) /\ Left(r, kk, t)
           /\ SameBut(r, kk, t) /\ r.prio = kk.prio
           /\ r.status[t] = (kk.status[t] \ {"PEND", "PEND_TIME"})
                               \cup (IF Has(kk, t, {"SUSPEND", "RUNNING"}) THEN {} ELSE {"READY"})
<1> DEFINE st == kk.status[t]
           a == SetStatus(LOS_ListDelete(kk, t), t, {"PEND"}, {})
           d == OsDeleteSortLink(a, t)
           b == IF Has(a, t, {"PEND_TIME"}) THEN SetStatus(d, t, {"PEND_TIME"}, {}) ELSE a
<1>0. /\ KInv(kk) /\ ~kk.fault /\ FlagsOK(st) /\ PlaceOK(kk, t) /\ t \in TCB
      /\ st \in FlagSets /\ {} \in FlagSets /\ Harmless({"PEND_TIME"}, {})
  BY SaneFacts DEF FlagSets, Harmless
<1>1. st \cap {"READY", "UNUSED", "EXIT", "DELAY"} = {}
  BY <1>0 DEF FlagsOK, Blocked
<1>2. r = IF Has(b, t, {"SUSPEND", "RUNNING"}) THEN b ELSE OsSchedTaskEnQueue(b, t)
  BY DEF OsSchedTaskWake
<1>3. Becomes(a, kk, t, st \ {"PEND"}, kk.sort) /\ Left(a, kk, t)
  BY <1>0, UnpendStep DEF Left
<1> HIDE DEF a
<1>4. KInv(a) /\ ~a.fault /\ SameBut(a, kk, t) /\ a.prio = kk.prio
  BY <1>3 DEF Becomes, SameBut
<1>5. SameBut(b, kk, t) /\ b.status[t] = st \ {"PEND", "PEND_TIME"}
      /\ t \notin b.sort /\ b.prio = kk.prio /\ Left(b, kk, t)
  <2>1. CASE Has(a, t, {"PEND_TIME"})
    <3>1. b = SetStatus(d, t, {"PEND_TIME"}, {})
      BY <2>1
    <3>2. Becomes(d, a, t, a.status[t], a.sort \ {t}) /\ d.list = a.list
      BY <1>4, DeleteSortStep
    <3> HIDE DEF d
    <3>3. KInv(d) /\ ~d.fault
      BY <3>2 DEF Becomes, SameBut
    <3>4. /\ SameBut(b, d, t)
          /\ b.status[t] = (d.status[t] \ {"PEND_TIME"}) \cup {}
          /\ b.sort = d.sort /\ b.prio = d.prio /\ b.list = d.list
      BY <1>0, <3>1, <3>3, SetStatusStep
    <3>5. SameBut(b, kk, t)
      BY <1>4, <3>2, <3>4, SameButTrans DEF Becomes
    <3>6. b.status[t] = st \ {"PEND", "PEND_TIME"}
      BY <1>3, <3>2, <3>4 DEF Becomes
    <3> QED BY <1>3, <1>4, <3>2, <3>4, <3>5, <3>6 DEF Becomes, Left
  <2>2. CASE ~Has(a, t, {"PEND_TIME"})
    <3>1. b = a /\ "PEND_TIME" \notin st
      BY <1>3, <2>2 DEF Has, Becomes
    <3>2. t \notin kk.sort
      BY <1>0, <1>1, <3>1 DEF PlaceOK, Timed
    <3>3. a.status[t] = st \ {"PEND", "PEND_TIME"} /\ a.sort = kk.sort
      BY <1>3, <3>1 DEF Becomes
    <3> QED BY <1>3, <1>4, <3>1, <3>2, <3>3
  <2> QED BY <2>1, <2>2
<1> HIDE DEF b
<1>6. KInv(b) /\ ~b.fault /\ b.run = kk.run
  BY <1>5 DEF SameBut, SameCtl
<1>7. CASE Has(kk, t, {"SUSPEND", "RUNNING"})
  <2>1. r = b
    BY <1>2, <1>5, <1>7 DEF Has
  <2>2. TaskSane(r, t)
    <3>1. FlagsOK(r.status[t])
      BY <1>0, <1>1, <1>5, <2>1 DEF FlagsOK, Timed
    <3>2. PlaceOK(r, t)
      BY <1>0, <1>1, <1>5, <1>6, <2>1 DEF PlaceOK, Timed
    <3> QED BY <3>1, <3>2 DEF TaskSane
  <2> QED BY <1>5, <1>7, <2>1, <2>2, SameButSane
<1>8. CASE ~Has(kk, t, {"SUSPEND", "RUNNING"})
  <2>1. r = OsSchedTaskEnQueue(b, t)
    BY <1>2, <1>5, <1>8 DEF Has
  <2>2. b.status[t] \cap {"READY", "PEND", "UNUSED"} = {}
    BY <1>1, <1>5
  <2>3. /\ SameBut(r, b, t) /\ r.sort = b.sort /\ r.prio = b.prio /\ SameWaiters(r, b)
        /\ r.status[t] = (b.status[t] \ {"SUSPEND", "DELAY", "PEND_TIME"}) \cup {"READY"}
    BY <1>6, <2>1, <2>2, EnQueueStep DEF Becomes
  <2>4. SameBut(r, kk, t) /\ Left(r, kk, t) /\ r.prio = kk.prio
    BY <1>5, <2>3, SameButTrans DEF Left, SameWaiters
  <2>5. r.status[t] = (st \ {"PEND", "PEND_TIME"}) \cup {"READY"}
    BY <1>1, <1>5, <1>8, <2>3 DEF Has
  <2>6. TaskSane(r, t)
    <3>1. FlagsOK(r.status[t])
      BY <1>0, <1>1, <1>8, <2>5 DEF FlagsOK, Timed, Blocked, Has
    <3>2. PlaceOK(r, t)
      <4>1. r.run = kk.run /\ t # kk.run
        BY <1>0, <1>8, <2>4 DEF SameBut, SameCtl, PlaceOK, Has
      <4> QED BY <1>1, <1>5, <1>8, <2>3, <2>5, <4>1 DEF PlaceOK, Timed, Has
    <3> QED BY <3>1, <3>2 DEF TaskSane
  <2> QED BY <1>8, <2>4, <2>5, <2>6, SameButSane
<1> QED BY <1>7, <1>8

\* A timed wait that has become due.
LEMMA WakePendTimeSafe ==
    ASSUME NEW kk, Sane(kk), NEW t \in kk.sort, NEW r, r = OsSchedWakePendTimeTask(kk, t)
    PROVE  /\ Sane(r) /\ Left(r, kk, t) /\ t \in Tasks /\ t # kk.run
           /\ SameBut(r, kk, t) /\ r.prio = kk.prio
           /\ kk.status[t] \cap {"UNUSED", "EXIT", "READY"} = {}
           /\ kk.status[t] \cap {"PEND", "DELAY"} # {}
           /\ r.status[t] = (kk.status[t] \ {"PEND", "PEND_TIME", "DELAY"})
                               \cup (IF "PEND" \in kk.status[t] THEN {"TIMEOUT"} ELSE {})
                               \cup (IF "SUSPEND" \in kk.status[t] THEN {} ELSE {"READY"})
<1> DEFINE st == kk.status[t]
           pended == Has(kk, t, {"PEND"})
           s == OsDeleteSortLink(kk, t)
           off == {"PEND", "PEND_TIME", "DELAY"}
           on == IF pended THEN {"TIMEOUT"} ELSE {}
           a == SetStatus(s, t, off, on)
           b == IF pended THEN LOS_ListDelete(a, t) ELSE a
<1>t. t \in Tasks
  BY DEF Sane, KInv, KernelState
<1>0. /\ KInv(kk) /\ ~kk.fault /\ FlagsOK(st) /\ PlaceOK(kk, t) /\ t \in TCB
      /\ st \in FlagSets /\ on \in FlagSets
  BY <1>t, SaneFacts DEF FlagSets, Flag
<1>1. /\ st \cap {"READY", "UNUSED", "EXIT", "RUNNING"} = {} /\ t # kk.run
      /\ st \cap {"PEND", "DELAY"} # {} /\ st \cap Timed # {}
  BY <1>0 DEF FlagsOK, PlaceOK, Timed, Blocked
<1>2. r = IF Has(kk, t, {"SUSPEND"}) THEN b ELSE OsSchedTaskEnQueue(b, t)
  BY <1>1 DEF OsSchedWakePendTimeTask, Has
<1>3. Becomes(s, kk, t, st, kk.sort \ {t}) /\ s.list = kk.list
  BY <1>t, <1>0, DeleteSortStep
<1>4. s \in KernelState /\ KInv(s) /\ ~s.fault /\ Loose(s, t)
  <2>1. KInv(s) /\ ~s.fault
    BY <1>3 DEF Becomes, SameBut
  <2> QED BY <1>t, <2>1, InvIsLoose
<1> HIDE DEF s
<1>5. /\ a \in KernelState
      /\ a.status[t] = (s.status[t] \ off) \cup on
      /\ \A u \in TCB \ {t} : a.status[u] = s.status[u]
      /\ a.prio = s.prio /\ a.list = s.list /\ a.sort = s.sort /\ a.run = s.run
      /\ a.lock = s.lock /\ a.scheduled = s.scheduled
      /\ a.pendsv = s.pendsv /\ a.fault = s.fault
      /\ \A u \in Tasks : Where(a, u) = Where(s, u)
  BY <1>0, <1>4, SetStatusType
<1>6. Loose(a, t) /\ \A h \in Head_ : NoDup(a.list[h])
  <2>1. Loose(a, t)
    BY <1>0, <1>t, <1>4, SetStatusLoose
  <2> QED BY <2>1 DEF Loose
<1>7. PrioOK(a) /\ SpecialOK(a)
  BY <1>t, <1>4, <1>5, TasksAreTCBs DEF KInv, PrioOK, SpecialOK
<1> HIDE DEF a
<1>8. /\ b \in KernelState /\ ~b.fault /\ SameTCBs(b, a)
      /\ Loose(b, t) /\ Where(b, t) = {} /\ OthersStay(b, a, t)
      /\ Left(b, kk, t)
  <2>1. CASE pended
    <3>1. "PEND" \in st /\ b = LOS_ListDelete(a, t)
      BY <2>1 DEF Has
    <3>2. NodeOK(kk, t) /\ Linked(kk, t) /\ ~Has(kk, t, {"READY"})
      BY <1>t, <1>0, <1>1, <3>1, PenderLinked DEF KInv, Coherent, Has
    <3>3. Where(a, t) = Where(kk, t)
      BY <1>t, <1>3, <1>5 DEF Where
    <3>4. kk \in KernelState
      BY <1>0 DEF KInv
    <3>5. \A p \in Prio : Pri(p) \notin Where(a, t)
      BY <1>t, <3>2, <3>3, <3>4, NotReadyNotQueued
    <3>6. Loose(b, t) /\ Where(b, t) = {}
      BY <1>t, <1>5, <1>6, <3>1, <3>5, ListDeleteLoose
    <3>7. /\ b \in KernelState /\ SameTCBs(b, a)
          /\ b.fault = (a.fault \/ ~Linked(a, t))
          /\ b.list = [h \in Head_ |-> Without(a.list[h], t)]
      BY <1>t, <1>5, <3>1, ListDeleteType
    <3>8. OthersStay(b, a, t)
      BY <1>t, <1>5, <1>6, <3>1, WhereAfterDelete DEF OthersStay
    <3>9. ~b.fault
      BY <1>4, <1>5, <3>2, <3>3, <3>7 DEF Linked
    <3>10. Left(b, kk, t)
      BY <1>3, <1>5, <3>7, HeadsDiffer DEF Left
    <3> QED BY <3>6, <3>7, <3>8, <3>9, <3>10
  <2>2. CASE ~pended
    <3>1. "PEND" \notin st /\ b = a
      BY <2>2 DEF Has
    <3>2. ~Linked(kk, t)
      BY <1>t, <1>0, <1>1, <3>1, Unlinked
    <3>3. Where(a, t) = {}
      BY <1>t, <1>3, <1>5, <3>2 DEF Where, Linked
    <3>4. Left(a, kk, t)
      BY <1>t, <1>0, <1>3, <1>5, <3>1, LeftIsSame DEF Left
    <3> QED BY <1>4, <1>5, <1>6, <3>1, <3>3, <3>4 DEF SameTCBs, OthersStay
  <2> QED BY <2>1, <2>2
<1> HIDE DEF b
<1>9. b.status[t] = (st \ off) \cup on /\ b.prio = kk.prio /\ b.sort = kk.sort \ {t}
  BY <1>3, <1>5, <1>8 DEF SameTCBs, Becomes
<1>10. SameBut(b, kk, t)
  <2>1. b.status[t] \cap {"READY", "PEND"} = {}
    BY <1>1, <1>9
  <2>2. NodeOK(b, t)
    BY <1>8, <2>1 DEF NodeOK, Has
  <2>3. Coherent(b)
    BY <1>t, <1>8, <2>2, CoherentIsLoose
  <2>4. KInv(b)
    BY <1>7, <1>8, <2>3 DEF KInv, PrioOK, SpecialOK, SameTCBs
  <2>5. SameCtl(b, kk)
    BY <1>3, <1>5, <1>8 DEF SameTCBs, SameCtl, Becomes, SameBut
  <2>6. \A u \in TCB \ {t} : /\ b.status[u] = kk.status[u]
                             /\ b.prio[u] = kk.prio[u]
                             /\ u \in b.sort <=> u \in kk.sort
    BY <1>3, <1>5, <1>8, <1>9 DEF SameTCBs, Becomes, SameBut
  <2>7. OthersStay(b, kk, t)
    BY <1>3, <1>5, <1>8 DEF OthersStay, Where
  <2> QED BY <1>8, <2>4, <2>5, <2>6, <2>7 DEF SameBut
<1>11. CASE Has(kk, t, {"SUSPEND"})
  <2>1. r = b /\ "SUSPEND" \in st
    BY <1>2, <1>11 DEF Has
  <2>2. r.status[t] = (st \ off) \cup on /\ r.run = kk.run /\ t \notin r.sort
    BY <1>9, <1>10, <2>1 DEF SameBut, SameCtl
  <2>3. TaskSane(r, t)
    <3>1. FlagsOK(r.status[t])
      BY <1>0, <1>1, <2>2 DEF FlagsOK, Timed
    <3>2. PlaceOK(r, t)
      BY <1>1, <2>2 DEF PlaceOK, Timed
    <3> QED BY <3>1, <3>2 DEF TaskSane
  <2> QED BY <1>t, <1>1, <1>8, <1>9, <1>10, <2>1, <2>2, <2>3, SameButSane DEF Has
<1>12. CASE ~Has(kk, t, {"SUSPEND"})
  <2>1. r = OsSchedTaskEnQueue(b, t) /\ "SUSPEND" \notin st
    BY <1>2, <1>12 DEF Has
  <2>2. b.status[t] \cap {"READY", "PEND", "UNUSED"} = {} /\ KInv(b) /\ ~b.fault
    BY <1>1, <1>9, <1>10 DEF SameBut
  <2>3. /\ SameBut(r, b, t) /\ r.sort = b.sort /\ r.prio = b.prio /\ SameWaiters(r, b)
        /\ r.status[t] = (b.status[t] \ {"SUSPEND", "DELAY", "PEND_TIME"}) \cup {"READY"}
    BY <1>t, <2>1, <2>2, EnQueueStep DEF Becomes
  <2>4. SameBut(r, kk, t) /\ Left(r, kk, t) /\ r.prio = kk.prio /\ r.run = kk.run
        /\ t \notin r.sort
    <3>1. SameBut(r, kk, t)
      BY <1>t, <1>10, <2>3, SameButTrans
    <3> QED BY <1>8, <1>9, <2>3, <3>1 DEF Left, SameWaiters, SameBut, SameCtl
  <2>5. r.status[t] = (st \ off) \cup on \cup {"READY"}
    BY <1>9, <2>1, <2>3
  <2>6. TaskSane(r, t)
    <3>1. FlagsOK(r.status[t])
      BY <1>0, <1>1, <2>1, <2>5 DEF FlagsOK, Timed, Blocked
    <3>2. PlaceOK(r, t)
      BY <1>1, <2>4, <2>5 DEF PlaceOK, Timed
    <3> QED BY <3>1, <3>2 DEF TaskSane
  <2> QED BY <1>t, <1>1, <2>1, <2>4, <2>5, <2>6, SameButSane DEF Has
<1> QED BY <1>11, <1>12

-----------------------------------------------------------------------------
(***************************************************************************)
(* Switching.                                                              *)
(***************************************************************************)
\* OsGetTopTask finds a ready task that no other has precedence over, and the idle
\* task only when no task is ready.
LEMMA TopTask ==
    ASSUME NEW kk, KInv(kk), ~kk.fault, NEW new, new = OsGetTopTask(kk)
    PROVE  /\ new \in Tasks \cup {Idle}
           /\ new = Idle => \A u \in Tasks : "READY" \notin kk.status[u]
           /\ new \in Tasks => /\ "READY" \in kk.status[new]
                               /\ \A u \in Tasks : "READY" \in kk.status[u] =>
                                     kk.prio[new] <= kk.prio[u]
<1>0. /\ kk \in KernelState /\ PrioOK(kk) /\ BitmapOK(kk) /\ Idle \notin Tasks
      /\ \A u \in Tasks : NodeOK(kk, u)
  BY SchedAssumption DEF KInv, Coherent
<1>1. ASSUME NEW u \in Tasks, "READY" \in kk.status[u] PROVE kk.prio[u] \in kk.bitmap
  <2>1. kk.prio[u] \in Prio /\ Pri(kk.prio[u]) \in Head_ /\ Pri(kk.prio[u]) \in Where(kk, u)
    BY <1>0, <1>1, HeadsDiffer DEF NodeOK, Has, PrioOK
  <2>2. kk.list[Pri(kk.prio[u])] # << >>
    BY <2>1 DEF Where, Range
  <2> QED BY <1>0, <2>1, <2>2 DEF BitmapOK
<1>2. CASE kk.bitmap = {}
  BY <1>0, <1>1, <1>2 DEF OsGetTopTask
<1>3. CASE kk.bitmap # {}
  <2> DEFINE p == TopPrio(kk)
  <2>1. p \in kk.bitmap /\ p \in Prio /\ \A q \in kk.bitmap : p <= q
    BY <1>0, <1>3, TopPrioIsTop
  <2>2. new = kk.list[Pri(p)][1]
    BY <1>3 DEF OsGetTopTask
  <2> HIDE DEF p
  <2>3. Pri(p) \in Head_ /\ kk.list[Pri(p)] # << >> /\ kk.list[Pri(p)] \in Seq(Tasks)
    BY <1>0, <2>1, HeadsDiffer DEF BitmapOK, KernelState
  <2>4. new \in Tasks /\ Pri(p) \in Where(kk, new)
    BY <2>2, <2>3, FirstOfList DEF Where
  <2>5. Has(kk, new, {"READY"})
    BY <1>0, <2>1, <2>4, NotReadyNotQueued
  <2>6. kk.prio[new] = p
    BY <1>0, <2>1, <2>4, <2>5, HeadsDiffer DEF NodeOK, PrioOK
  <2> QED BY <1>0, <1>1, <2>1, <2>4, <2>5, <2>6 DEF Has
<1> QED BY <1>2, <1>3

\* The task that is given the core leaves its ready queue.
LEMMA DeQueueNew ==
    ASSUME NEW kk, KInv(kk), ~kk.fault, NEW t \in Tasks \cup {Idle},
           NEW r, r = OsSchedTaskDeQueue(kk, t)
    PROVE  /\ KInv(r) /\ ~r.fault /\ SameCtl(r, kk) /\ r.prio = kk.prio /\ r.sort = kk.sort
           /\ r.status[t] = kk.status[t] \ {"READY"}
           /\ \A u \in TCB \ {t} : r.status[u] = kk.status[u]
           /\ OthersStay(r, kk, t) /\ SameWaiters(r, kk)
<1>1. CASE t \in Tasks
  BY <1>1, DeQueueStep DEF Becomes, SameBut
<1>2. CASE t = Idle
  <2>0. t \in TCB /\ {} \in FlagSets /\ kk \in KernelState
    BY DEF TCB, FlagSets, KInv
  <2>1. KInv(r) /\ SameCtl(r, kk) /\ r.prio = kk.prio
        /\ r.status[t] = kk.status[t] \ {"READY"}
        /\ \A u \in TCB \ {t} : r.status[u] = kk.status[u]
    BY DeQueueInv
  <2>2. r.list = kk.list /\ r.sort = kk.sort /\ r.fault = kk.fault
    <3>1. CASE Has(kk, t, {"READY"})
      <4>1. r = SetStatus(kk, t, {"READY"}, {})
        BY <1>2, <3>1 DEF OsSchedTaskDeQueue
      <4> QED BY <2>0, <4>1, SetStatusType
    <3>2. CASE ~Has(kk, t, {"READY"})
      BY <3>2 DEF OsSchedTaskDeQueue
    <3> QED BY <3>1, <3>2
  <2> QED BY <2>1, <2>2 DEF OthersStay, SameWaiters, Where
<1> QED BY <1>1, <1>2

\* r differs from a in who runs: new is marked RUNNING and leaves its queue.
HandedTo(r, a, new) ==
    /\ KInv(r) /\ ~r.fault /\ r.run = new /\ r.lock = a.lock
    /\ r.prio = a.prio /\ r.sort = a.sort
    /\ OthersStay(r, a, new) /\ SameWaiters(r, a)
    /\ r.status[new] = (a.status[new] \cup {"RUNNING"}) \ {"READY"}

LEMMA SwitchToStep ==
    ASSUME NEW a, KInv(a), ~a.fault, NEW new \in Tasks \cup {Idle},
           new = a.run => "RUNNING" \in a.status[new], NEW r, r = SwitchTo(a, new)
    PROVE  /\ HandedTo(r, a, new) /\ r.scheduled = a.scheduled /\ ~r.pendsv
           /\ new # a.run => r.status[a.run] = a.status[a.run] \ {"RUNNING"}
           /\ \A u \in TCB \ {new, a.run} : r.status[u] = a.status[u]
<1> DEFINE s == SetStatus(a, a.run, {"RUNNING"}, {})
           n == SetStatus(s, new, {}, {"RUNNING"})
           b == IF new = a.run THEN a ELSE [n EXCEPT !.run = new]
           d == OsSchedTaskDeQueue(b, new)
<1>0. /\ a.run \in TCB /\ new \in TCB /\ {} \in FlagSets /\ {"RUNNING"} \in FlagSets
      /\ Harmless({"RUNNING"}, {}) /\ Harmless({}, {"RUNNING"})
      /\ Untimed({}) /\ Untimed({"RUNNING"}) /\ a \in KernelState
  BY DEF KInv, KernelState, TCB, FlagSets, Flag, Harmless, Untimed, Timed
<1>1. r = [d EXCEPT !.pendsv = FALSE]
  BY DEF SwitchTo
<1>2. /\ KInv(b) /\ ~b.fault /\ b.run = new /\ b.lock = a.lock /\ b.scheduled = a.scheduled
      /\ b.prio = a.prio /\ b.sort = a.sort /\ b.list = a.list
      /\ b.status[new] = a.status[new] \cup {"RUNNING"}
      /\ new # a.run => b.status[a.run] = a.status[a.run] \ {"RUNNING"}
      /\ \A u \in TCB \ {new, a.run} : b.status[u] = a.status[u]
  <2>1. CASE new = a.run
    BY <2>1
  <2>2. CASE new # a.run
    <3>1. KInv(s) /\ s \in KernelState
      BY <1>0, SetStatusInv DEF KInv
    <3>2. /\ s.status[a.run] = (a.status[a.run] \ {"RUNNING"}) \cup {}
          /\ \A u \in TCB \ {a.run} : s.status[u] = a.status[u]
          /\ s.prio = a.prio /\ s.list = a.list /\ s.bitmap = a.bitmap /\ s.sort = a.sort
          /\ s.lock = a.lock /\ s.scheduled = a.scheduled /\ s.fault = a.fault
      BY <1>0, SetStatusType
    <3> HIDE DEF s
    <3>3. KInv(n) /\ n \in KernelState
      BY <1>0, <3>1, SetStatusInv DEF KInv
    <3>4. /\ n.status[new] = (s.status[new] \ {}) \cup {"RUNNING"}
          /\ \A u \in TCB \ {new} : n.status[u] = s.status[u]
          /\ n.prio = s.prio /\ n.list = s.list /\ n.bitmap = s.bitmap /\ n.sort = s.sort
          /\ n.lock = s.lock /\ n.scheduled = s.scheduled /\ n.fault = s.fault
      BY <1>0, <3>1, SetStatusType
    <3> HIDE DEF n
    <3>5. b = [n EXCEPT !.run = new]
      BY <2>2
    <3>6. /\ b \in KernelState /\ b.run = new
          /\ b.status = n.status /\ b.prio = n.prio /\ b.list = n.list
          /\ b.bitmap = n.bitmap /\ b.fault = n.fault /\ b.sort = n.sort
          /\ b.lock = n.lock /\ b.scheduled = n.scheduled
      BY <1>0, <3>3, <3>5 DEF KernelState
    <3> HIDE DEF b
    <3>7. KInv(b)
      BY <3>3, <3>6, InvFrame
    <3>8. /\ b.status[new] = a.status[new] \cup {"RUNNING"}
          /\ b.status[a.run] = a.status[a.run] \ {"RUNNING"}
          /\ \A u \in TCB \ {new, a.run} : b.status[u] = a.status[u]
      BY <1>0, <2>2, <3>2, <3>4, <3>6
    <3> QED BY <3>2, <3>4, <3>6, <3>7, <3>8
  <2> QED BY <2>1, <2>2
<1> HIDE DEF b
<1>3. /\ KInv(d) /\ ~d.fault /\ SameCtl(d, b) /\ d.prio = b.prio /\ d.sort = b.sort
      /\ d.status[new] = b.status[new] \ {"READY"}
      /\ \A u \in TCB \ {new} : d.status[u] = b.status[u]
      /\ OthersStay(d, b, new) /\ SameWaiters(d, b)
  BY <1>2, DeQueueNew
<1> HIDE DEF d
<1>4. /\ r \in KernelState
      /\ r.status = d.status /\ r.prio = d.prio /\ r.list = d.list /\ r.sort = d.sort
      /\ r.bitmap = d.bitmap /\ r.fault = d.fault /\ r.run = d.run
      /\ r.lock = d.lock /\ r.scheduled = d.scheduled /\ r.pendsv = FALSE
  BY <1>1, <1>3 DEF KInv, KernelState
<1>5. KInv(r)
  BY <1>3, <1>4, InvFrame
<1>6. OthersStay(r, a, new) /\ SameWaiters(r, a)
  BY <1>2, <1>3, <1>4 DEF OthersStay, SameWaiters, Where
<1>7. r.status[new] = (a.status[new] \cup {"RUNNING"}) \ {"READY"}
  BY <1>2, <1>3, <1>4
<1>8. /\ new # a.run => r.status[a.run] = a.status[a.run] \ {"RUNNING"}
      /\ \A u \in TCB \ {new, a.run} : r.status[u] = a.status[u]
  BY <1>0, <1>2, <1>3, <1>4
<1>9. r.run = new /\ r.lock = a.lock /\ r.scheduled = a.scheduled /\ ~r.pendsv /\ ~r.fault
      /\ r.prio = a.prio /\ r.sort = a.sort
  BY <1>2, <1>3, <1>4 DEF SameCtl
<1> QED BY <1>5, <1>6, <1>7, <1>8, <1>9 DEF HandedTo

\* a is kk with the running task put back where its status says.
Back(a, kk) ==
    /\ KInv(a) /\ ~a.fault /\ SameCtl(a, kk) /\ a.prio = kk.prio
    /\ SameWaiters(a, kk) /\ OthersStay(a, kk, kk.run)
    /\ \A u \in TCB \ {kk.run} : a.status[u] = kk.status[u]
    /\ \/ a.status[kk.run] = kk.status[kk.run] /\ kk.run # Idle
       \/ /\ a.status[kk.run] = kk.status[kk.run] \cup {"READY"}
          /\ kk.status[kk.run] \cap (Blocked \cup Timed) = {}
    /\ \A u \in Tasks : u \in a.sort <=> kk.status[u] \cap Timed # {}

LEMMA PutBackSafe ==
    ASSUME NEW kk, Sane(kk), NEW a, a = PutBack(kk)
    PROVE  Back(a, kk)
<1> DEFINE t == kk.run
           st == kk.status[t]
<1>0. /\ KInv(kk) /\ ~kk.fault /\ kk \in KernelState /\ t \in TCB /\ Dummy # Idle
      /\ t \in Tasks \/ t = Idle \/ t = Dummy
      /\ \A u \in Tasks : PlaceOK(kk, u)
  BY TasksAreTCBs, SchedAssumption DEF Sane, KInv, KernelState, TaskSane
<1>1. Has(kk, t, {"PEND_TIME", "DELAY"}) <=> st \cap Timed # {}
  BY DEF Has, Timed
<1>2. Has(kk, t, Blocked) <=> st \cap Blocked # {}
  BY DEF Has
<1>3. SameCtl(kk, kk) /\ SameWaiters(kk, kk) /\ OthersStay(kk, kk, t)
  BY DEF SameCtl, SameWaiters, OthersStay
<1>4. CASE st \cap Timed # {}
  <2>1. t \in Tasks
    BY <1>0, <1>4 DEF KInv, SpecialOK
  <2>2. a = OsAdd2SortLink(kk, t)
    <3>1. /\ Has(kk, kk.run, {"PEND_TIME", "DELAY"})
          /\ Has(kk, kk.run, {"PEND_TIME", "DELAY"} \cup Blocked)
      BY <1>4 DEF Has, Timed
    <3> QED BY <3>1 DEF PutBack
  <2>3. t \notin kk.sort /\ t # Idle
    BY <1>0, <2>1, TasksAreTCBs DEF PlaceOK
  <2>4. /\ a.status = kk.status /\ a.prio = kk.prio /\ a.list = kk.list
        /\ a.fault = (kk.fault \/ t \in kk.sort) /\ a.sort = kk.sort \cup {t}
    BY <1>0, <2>1, <2>2 DEF OsAdd2SortLink, KernelState
  <2>5. KInv(a) /\ SameCtl(a, kk)
    BY <1>0, <2>1, <2>2, AddSortInv
  <2>6. \A u \in Tasks : u \in a.sort <=> kk.status[u] \cap Timed # {}
    BY <1>0, <1>4, <2>4 DEF PlaceOK
  <2>7. SameWaiters(a, kk) /\ OthersStay(a, kk, t)
    BY <2>4 DEF SameWaiters, OthersStay, Where
  <2> QED BY <1>0, <2>3, <2>4, <2>5, <2>6, <2>7 DEF Back
<1>5. CASE st \cap Timed = {} /\ st \cap Blocked # {}
  <2>1. a = kk
    <3>1. /\ ~Has(kk, kk.run, {"PEND_TIME", "DELAY"}) /\ Has(kk, kk.run, Blocked)
          /\ Has(kk, kk.run, {"PEND_TIME", "DELAY"} \cup Blocked)
      BY <1>5 DEF Has, Timed
    <3> QED BY <3>1 DEF PutBack
  <2>2. t # Idle
    BY <1>5 DEF Sane, IdleSane, Blocked
  <2>3. \A u \in Tasks : u \in kk.sort <=> kk.status[u] \cap Timed # {}
    BY <1>0, <1>5 DEF PlaceOK
  <2> QED BY <1>0, <1>3, <2>1, <2>2, <2>3 DEF Back
<1>6. CASE st \cap (Blocked \cup Timed) = {}
  <2>1. a = OsSchedTaskEnQueue(kk, t)
    <3>1. ~Has(kk, t, {"PEND_TIME", "DELAY"} \cup Blocked) /\ ~Has(kk, t, {"PEND_TIME", "DELAY"})
          /\ ~Has(kk, t, Blocked)
      BY <1>6 DEF Has, Timed
    <3> QED BY <3>1 DEF PutBack
  <2>2. \A u \in Tasks : u \in kk.sort <=> kk.status[u] \cap Timed # {}
    BY <1>0, <1>6 DEF PlaceOK
  <2>3. CASE t \in Tasks
    <3>1. st \cap {"READY", "PEND", "UNUSED", "SUSPEND", "DELAY", "PEND_TIME"} = {}
      BY <1>0, <1>6, <2>3, SaneFacts DEF PlaceOK, FlagsOK, Blocked, Timed
    <3>2. st \cap {"READY", "PEND", "UNUSED"} = {}
      BY <3>1
    <3>3. /\ SameBut(a, kk, t) /\ a.sort = kk.sort /\ a.prio = kk.prio /\ SameWaiters(a, kk)
          /\ a.status[t] = (st \ {"SUSPEND", "DELAY", "PEND_TIME"}) \cup {"READY"}
      BY <1>0, <2>1, <2>3, <3>2, EnQueueStep DEF Becomes
    <3>4. a.status[t] = st \cup {"READY"}
      BY <3>1, <3>3
    <3> QED BY <1>6, <2>2, <3>3, <3>4 DEF Back, SameBut
  <2>4. CASE t = Idle
    <3>1. st = {"RUNNING"}
      BY <2>4 DEF Sane, IdleSane
    <3>2. /\ a \in KernelState /\ SameRest(a, kk)
          /\ a.list = kk.list /\ a.bitmap = kk.bitmap
          /\ a.fault = (kk.fault \/ Has(kk, t, {"READY"}))
          /\ a.status[t] = (st \ {"PEND", "SUSPEND", "DELAY", "PEND_TIME"}) \cup {"READY"}
          /\ \A u \in TCB \ {t} : a.status[u] = kk.status[u]
      BY <1>0, <2>1, <2>4, EnQueueIdle
    <3>3. ~a.fault /\ a.status[t] = st \cup {"READY"}
      BY <1>0, <3>1, <3>2 DEF Has
    <3>4. KInv(a) /\ SameCtl(a, kk)
      BY <1>0, PutBackInv
    <3>5. OthersStay(a, kk, t) /\ SameWaiters(a, kk) /\ a.sort = kk.sort /\ a.prio = kk.prio
      BY <3>2 DEF OthersStay, SameWaiters, Where, SameRest
    <3> QED BY <1>6, <2>2, <3>2, <3>3, <3>4, <3>5 DEF Back
  <2>5. t # Dummy
    BY <1>0, <1>6 DEF KInv, SpecialOK, Blocked
  <2> QED BY <1>0, <2>3, <2>4, <2>5
<1> QED BY <1>4, <1>5, <1>6

\* The task that has been given the core may run, and no ready task has precedence
\* over it.
Picked(r) ==
    /\ r.run \in Tasks \cup {Idle}
    /\ r.run \in Tasks =>
          /\ r.status[r.run] \cap (Blocked \cup {"DELAY", "PEND_TIME", "READY"}) = {}
          /\ \A u \in Tasks : "READY" \in r.status[u] => r.prio[r.run] <= r.prio[u]

\* What a switch does to the tasks: whom it takes from the core or gives it to, and
\* nothing else.
Switched(r, kk) ==
    /\ r.prio = kk.prio /\ r.lock = kk.lock
    /\ SameWaiters(r, kk)
    /\ \A u \in Tasks :
          /\ r.status[u] \ {"READY", "RUNNING"} = kk.status[u] \ {"READY", "RUNNING"}
          /\ u # kk.run /\ "READY" \notin kk.status[u] =>
                r.status[u] = kk.status[u] /\ Where(r, u) = Where(kk, u)

LEMMA HandedSafe ==
    ASSUME NEW kk, Sane(kk), NEW a, Back(a, kk), NEW new, new = OsGetTopTask(a),
           NEW r, HandedTo(r, a, new),
           new # kk.run /\ kk.run # Dummy => r.status[kk.run] = a.status[kk.run] \ {"RUNNING"},
           \A u \in TCB \ {new, kk.run} : r.status[u] = a.status[u]
    PROVE  Sane(r) /\ Picked(r) /\ Switched(r, kk)
<1>0. /\ new \in Tasks \cup {Idle}
      /\ new \in Tasks => /\ "READY" \in a.status[new]
                          /\ \A u \in Tasks : "READY" \in a.status[u] => a.prio[new] <= a.prio[u]
  BY TopTask DEF Back
<1>1. /\ r.run = new /\ r.sort = a.sort /\ r.prio = kk.prio /\ r.lock = kk.lock
      /\ r.status[new] = (a.status[new] \cup {"RUNNING"}) \ {"READY"}
      /\ KInv(r) /\ ~r.fault /\ a.prio = kk.prio
  BY DEF HandedTo, Back, SameCtl
<1>2. /\ \A u \in TCB \ {kk.run} : a.status[u] = kk.status[u]
      /\ \/ a.status[kk.run] = kk.status[kk.run] /\ kk.run # Idle
         \/ /\ a.status[kk.run] = kk.status[kk.run] \cup {"READY"}
            /\ kk.status[kk.run] \cap (Blocked \cup Timed) = {}
      /\ \A u \in Tasks : u \in a.sort <=> kk.status[u] \cap Timed # {}
  BY DEF Back
<1>3. ASSUME NEW u \in Tasks
      PROVE  /\ TaskSane(r, u)
             /\ r.status[u] \ {"READY", "RUNNING"} = kk.status[u] \ {"READY", "RUNNING"}
             /\ u = new => r.status[u] \cap (Blocked \cup {"DELAY", "PEND_TIME", "READY"}) = {}
             /\ "READY" \in r.status[u] => "READY" \in a.status[u]
             /\ u # new /\ u # kk.run => r.status[u] = kk.status[u]
             /\ u # kk.run /\ "READY" \notin kk.status[u] => u # new
  <2> DEFINE st == kk.status[u]
  <2>0. FlagsOK(st) /\ PlaceOK(kk, u) /\ u \in TCB /\ u # Idle /\ u # Dummy
    BY <1>3, SaneFacts
  <2>1. CASE u = new /\ u = kk.run
    <3>1. "RUNNING" \in st /\ "READY" \notin st
      BY <2>0, <2>1 DEF FlagsOK, PlaceOK
    <3>2. st \cap (Blocked \cup Timed) = {}
      BY <1>0, <1>2, <2>0, <2>1, <3>1
    <3>3. r.status[u] = st
      BY <1>1, <1>2, <2>1, <3>1
    <3>4. PlaceOK(r, u)
      BY <1>1, <1>2, <2>1, <3>1, <3>2, <3>3 DEF PlaceOK, Blocked
    <3> QED BY <2>0, <2>1, <3>1, <3>2, <3>3, <3>4 DEF TaskSane, Timed
  <2>2. CASE u = new /\ u # kk.run
    <3>1. a.status[u] = st /\ "READY" \in st /\ st \cap (Blocked \cup Timed \cup {"RUNNING"}) = {}
      BY <1>0, <1>2, <2>0, <2>2 DEF FlagsOK
    <3>2. r.status[u] = (st \cup {"RUNNING"}) \ {"READY"}
      BY <1>1, <2>2, <3>1
    <3>3. FlagsOK(r.status[u])
      BY <2>0, <3>1, <3>2 DEF FlagsOK, Blocked, Timed
    <3>4. PlaceOK(r, u)
      BY <1>1, <1>2, <2>2, <3>1, <3>2 DEF PlaceOK, Blocked, Timed
    <3>5. r.status[u] \cap (Blocked \cup {"DELAY", "PEND_TIME", "READY"}) = {}
      BY <3>1, <3>2 DEF Blocked, Timed
    <3> QED BY <2>2, <3>1, <3>2, <3>3, <3>4, <3>5 DEF TaskSane
  <2>3. CASE u # new /\ u = kk.run
    <3>1. "RUNNING" \in st /\ "READY" \notin st
      BY <2>0, <2>3 DEF FlagsOK, PlaceOK
    <3>2. r.status[u] = a.status[u] \ {"RUNNING"}
      BY <2>0, <2>3
    <3>3. FlagsOK(r.status[u])
      BY <1>2, <2>0, <2>3, <3>2 DEF FlagsOK, Blocked, Timed
    <3>4. PlaceOK(r, u)
      BY <1>1, <1>2, <2>3, <3>1, <3>2 DEF PlaceOK, Timed
    <3>5. r.status[u] \ {"READY", "RUNNING"} = st \ {"READY", "RUNNING"}
      BY <1>2, <2>3, <3>2
    <3> QED BY <2>3, <3>2, <3>3, <3>4, <3>5 DEF TaskSane
  <2>4. CASE u # new /\ u # kk.run
    <3>1. r.status[u] = st /\ a.status[u] = st
      BY <1>2, <2>0, <2>4
    <3>2. PlaceOK(r, u)
      BY <1>1, <1>2, <2>0, <2>4, <3>1 DEF PlaceOK
    <3> QED BY <2>0, <2>4, <3>1, <3>2 DEF TaskSane
  <2> QED BY <2>1, <2>2, <2>3, <2>4
<1>4. IdleSane(r)
  <2>0. Idle \in TCB /\ Idle # Dummy /\ kk.status[Idle] = IF kk.run = Idle THEN {"RUNNING"} ELSE {"READY"}
    BY SchedAssumption DEF TCB, Sane, IdleSane
  <2>1. CASE new = Idle
    <3>1. a.status[Idle] \subseteq {"RUNNING", "READY"}
      BY <1>2, <2>0
    <3>2. r.status[Idle] = {"RUNNING"}
      BY <1>1, <2>1, <3>1
    <3> QED BY <1>1, <2>1, <3>2 DEF IdleSane
  <2>2. CASE new # Idle
    <3>1. CASE kk.run = Idle
      <4>1. a.status[Idle] = {"RUNNING", "READY"}
        BY <1>2, <2>0, <3>1
      <4>2. r.status[Idle] = {"READY"}
        BY <2>0, <2>2, <3>1, <4>1
      <4> QED BY <1>1, <2>2, <4>2 DEF IdleSane
    <3>2. CASE kk.run # Idle
      <4>1. r.status[Idle] = {"READY"}
        BY <1>2, <2>0, <2>2, <3>2
      <4> QED BY <1>1, <2>2, <4>1 DEF IdleSane
    <3> QED BY <3>1, <3>2
  <2> QED BY <2>1, <2>2
<1>5. Sane(r)
  BY <1>1, <1>3, <1>4 DEF Sane
<1>6. Picked(r)
  BY <1>0, <1>1, <1>3 DEF Picked
<1>7. Switched(r, kk)
  <2>1. SameWaiters(r, kk)
    BY DEF SameWaiters, HandedTo, Back
  <2>2. ASSUME NEW u \in Tasks, u # kk.run, "READY" \notin kk.status[u]
        PROVE  r.status[u] = kk.status[u] /\ Where(r, u) = Where(kk, u)
    <3>1. u # new
      BY <1>3, <2>2
    <3> QED BY <1>3, <2>2, <3>1 DEF OthersStay, HandedTo, Back
  <2> QED BY <1>1, <1>3, <2>1, <2>2 DEF Switched
<1> QED BY <1>5, <1>6, <1>7

-----------------------------------------------------------------------------
(***************************************************************************)
(* Switching, ticks and the calls that move no task.                       *)
(***************************************************************************)
\* The tasks of r are those of kk.
SameTasks(r, kk) ==
    /\ KInv(r) /\ ~r.fault /\ r.run = kk.run
    /\ r.status = kk.status /\ r.prio = kk.prio /\ r.sort = kk.sort /\ r.list = kk.list

LEMMA SaneFrame ==
    ASSUME NEW kk, Sane(kk), NEW r, SameTasks(r, kk)
    PROVE  Sane(r)
  BY DEF Sane, SameTasks, IdleSane, TaskSane, PlaceOK

LEMMA SliceSafe ==
    ASSUME NEW kk, Sane(kk), NEW t \in TCB, NEW s \in BOOLEAN,
           NEW r, r = [kk EXCEPT !.slice = [kk.slice EXCEPT ![t] = s]]
    PROVE  SameTasks(r, kk) /\ SameCtl(r, kk)
<1>1. kk \in KernelState /\ KInv(kk) /\ ~kk.fault
  BY DEF Sane, KInv
<1>2. KInv(r) /\ SameCtl(r, kk)
  BY <1>1, SliceInv
<1>3. /\ r.status = kk.status /\ r.prio = kk.prio /\ r.list = kk.list
      /\ r.fault = kk.fault /\ r.sort = kk.sort
  BY <1>1 DEF KernelState
<1> QED BY <1>1, <1>2, <1>3 DEF SameTasks, SameCtl

LEMMA SliceUpdateSafe ==
    ASSUME NEW kk, Sane(kk), NEW left \in BOOLEAN, NEW r, r = OsTimeSliceUpdate(kk, kk.run, left)
    PROVE  SameTasks(r, kk) /\ SameCtl(r, kk)
<1>0. kk.run \in TCB /\ KInv(kk) /\ ~kk.fault
  BY DEF Sane, KInv, KernelState
<1>1. CASE kk.run = Idle
  BY <1>0, <1>1 DEF OsTimeSliceUpdate, SameTasks, SameCtl
<1>2. CASE kk.run # Idle
  <2>1. (kk.slice[kk.run] /\ left) \in BOOLEAN
    OBVIOUS
  <2> QED BY <1>0, <1>2, <2>1, SliceSafe DEF OsTimeSliceUpdate
<1> QED BY <1>1, <1>2

LEMMA ScheduleSafe ==
    ASSUME NEW kk, Sane(kk), NEW r, r = LOS_ScheduleEffect(kk)
    PROVE  /\ SameTasks(r, kk) /\ r.lock = kk.lock /\ r.scheduled = kk.scheduled
           /\ r.pendsv = (kk.pendsv \/ (kk.scheduled /\ kk.lock = 0))
<1>1. kk \in KernelState /\ KInv(kk) /\ ~kk.fault
  BY DEF Sane, KInv
<1>2. KInv(r)
  BY <1>1, ScheduleInv
<1>3. /\ r.status = kk.status /\ r.prio = kk.prio /\ r.list = kk.list
      /\ r.fault = kk.fault /\ r.sort = kk.sort /\ r.run = kk.run
      /\ r.lock = kk.lock /\ r.scheduled = kk.scheduled
      /\ r.pendsv = (kk.pendsv \/ (kk.scheduled /\ LOS_CHECK_SCHEDULE(kk)))
  BY <1>1 DEF KernelState, LOS_ScheduleEffect
<1> QED BY <1>1, <1>2, <1>3 DEF SameTasks, LOS_CHECK_SCHEDULE

LEMMA LockSafe ==
    ASSUME NEW kk, Sane(kk), NEW n \in Nat, NEW r, r = [kk EXCEPT !.lock = n]
    PROVE  /\ SameTasks(r, kk) /\ r.lock = n /\ r.scheduled = kk.scheduled
           /\ r.pendsv = kk.pendsv
<1>1. kk \in KernelState /\ KInv(kk) /\ ~kk.fault
  BY DEF Sane, KInv
<1>2. /\ r \in KernelState
      /\ r.status = kk.status /\ r.prio = kk.prio /\ r.list = kk.list
      /\ r.bitmap = kk.bitmap /\ r.fault = kk.fault /\ r.sort = kk.sort /\ r.run = kk.run
      /\ r.lock = n /\ r.scheduled = kk.scheduled /\ r.pendsv = kk.pendsv
  BY <1>1 DEF KernelState
<1>3. KInv(r)
  BY <1>1, <1>2, InvFrame
<1> QED BY <1>1, <1>2, <1>3 DEF SameTasks

\* OsSchedTaskSwitch hands the core to the highest ready task.
LEMMA SwitchSafe ==
    ASSUME NEW kk, Sane(kk), NEW left \in BOOLEAN, NEW r, r = OsSchedTaskSwitch(kk, left)
    PROVE  /\ Sane(r) /\ Picked(r) /\ Switched(r, kk)
           /\ r.scheduled = kk.scheduled /\ ~r.pendsv
<1> DEFINE u == OsTimeSliceUpdate(kk, kk.run, left)
           a == PutBack(u)
           new == OsGetTopTask(a)
<1>1. r = IF StaleBit(a) THEN [a EXCEPT !.fault = TRUE] ELSE SwitchTo(a, new)
  BY DEF OsSchedTaskSwitch
<1>2. SameTasks(u, kk) /\ SameCtl(u, kk)
  BY SliceUpdateSafe
<1>3. Sane(u)
  BY <1>2, SaneFrame
<1> HIDE DEF u
<1>4. Back(a, u)
  BY <1>3, PutBackSafe
<1> HIDE DEF a
<1>5. KInv(a) /\ ~a.fault /\ SameCtl(a, u) /\ a.run = u.run
  BY <1>4 DEF Back, SameCtl
<1>6. r = SwitchTo(a, new)
  BY <1>1, <1>5, NoStaleBit
<1>7. /\ new \in Tasks \cup {Idle}
      /\ new = u.run => "RUNNING" \in a.status[new]
  <2>1. new \in Tasks \cup {Idle}
    BY <1>5, TopTask
  <2>2. ASSUME new = u.run PROVE "RUNNING" \in u.status[new]
    <3>1. CASE new \in Tasks
      BY <1>3, <2>2, <3>1, SaneFacts DEF PlaceOK
    <3>2. CASE new = Idle
      BY <1>3, <2>2, <3>2 DEF Sane, IdleSane
    <3> QED BY <2>1, <3>1, <3>2
  <2>3. u.status[u.run] \subseteq a.status[u.run]
    BY <1>4 DEF Back
  <2> QED BY <2>1, <2>2, <2>3
<1>8. /\ HandedTo(r, a, new) /\ r.scheduled = a.scheduled /\ ~r.pendsv
      /\ new # a.run => r.status[a.run] = a.status[a.run] \ {"RUNNING"}
      /\ \A v \in TCB \ {new, a.run} : r.status[v] = a.status[v]
  BY <1>5, <1>6, <1>7, SwitchToStep
<1>9. Sane(r) /\ Picked(r) /\ Switched(r, u)
  BY <1>3, <1>4, <1>5, <1>8, HandedSafe
<1>10. Switched(r, kk)
  BY <1>2, <1>9 DEF Switched, SameTasks, SameCtl, SameWaiters, Where
<1>11. r.scheduled = kk.scheduled
  BY <1>2, <1>5, <1>8 DEF SameCtl
<1> QED BY <1>8, <1>9, <1>10, <1>11

\* OsSchedStart hands the core from the boot code to the highest ready task.
LEMMA StartSafe ==
    ASSUME NEW kk, Sane(kk), kk.run = Dummy, NEW r, r = OsSchedStart(kk)
    PROVE  /\ Sane(r) /\ Picked(r) /\ Switched(r, kk)
           /\ r.scheduled /\ r.pendsv = kk.pendsv
<1> DEFINE new == OsGetTopTask(kk)
           s == SetStatus(kk, new, {}, {"RUNNING"})
           a == [s EXCEPT !.run = new]
           d == OsSchedTaskDeQueue(a, new)
<1>0. /\ KInv(kk) /\ ~kk.fault /\ kk \in KernelState /\ r = [d EXCEPT !.scheduled = TRUE]
      /\ Dummy # Idle /\ Dummy \notin Tasks /\ \A u \in Tasks : PlaceOK(kk, u)
  BY SchedAssumption DEF OsSchedStart, Sane, KInv, TaskSane
<1>1. new \in Tasks \cup {Idle}
  BY <1>0, TopTask
<1>2. Back(kk, kk)
  <2>1. SameCtl(kk, kk) /\ SameWaiters(kk, kk) /\ OthersStay(kk, kk, kk.run)
    BY DEF SameCtl, SameWaiters, OthersStay
  <2>2. \A u \in Tasks : u \in kk.sort <=> kk.status[u] \cap Timed # {}
    BY <1>0 DEF PlaceOK
  <2> QED BY <1>0, <2>1, <2>2 DEF Back
<1>3. /\ new \in TCB /\ {"RUNNING"} \in FlagSets
      /\ Harmless({}, {"RUNNING"}) /\ Untimed({"RUNNING"})
  BY <1>1 DEF TCB, FlagSets, Flag, Harmless, Untimed, Timed
<1>4. KInv(s)
  BY <1>0, <1>3, SetStatusInv
<1>5. /\ s.status[new] = (kk.status[new] \ {}) \cup {"RUNNING"}
      /\ \A u \in TCB \ {new} : s.status[u] = kk.status[u]
      /\ s.prio = kk.prio /\ s.list = kk.list /\ s.bitmap = kk.bitmap /\ s.sort = kk.sort
      /\ s.lock = kk.lock /\ s.pendsv = kk.pendsv /\ s.fault = kk.fault
  BY <1>0, <1>3, SetStatusType
<1> HIDE DEF s
<1>6. /\ a \in KernelState /\ a.run = new
      /\ a.status = s.status /\ a.prio = s.prio /\ a.list = s.list
      /\ a.bitmap = s.bitmap /\ a.fault = s.fault /\ a.sort = s.sort
      /\ a.lock = s.lock /\ a.pendsv = s.pendsv
  BY <1>3, <1>4 DEF KInv, KernelState
<1> HIDE DEF a
<1>7. KInv(a)
  BY <1>4, <1>6, InvFrame
<1>8. /\ KInv(d) /\ ~d.fault /\ SameCtl(d, a) /\ d.prio = a.prio /\ d.sort = a.sort
      /\ d.status[new] = a.status[new] \ {"READY"}
      /\ \A u \in TCB \ {new} : d.status[u] = a.status[u]
      /\ OthersStay(d, a, new) /\ SameWaiters(d, a)
  BY <1>0, <1>1, <1>5, <1>6, <1>7, DeQueueNew
<1> HIDE DEF d
<1>9. /\ r \in KernelState
      /\ r.status = d.status /\ r.prio = d.prio /\ r.list = d.list /\ r.sort = d.sort
      /\ r.bitmap = d.bitmap /\ r.fault = d.fault /\ r.run = d.run
      /\ r.lock = d.lock /\ r.scheduled = TRUE /\ r.pendsv = d.pendsv
  BY <1>0, <1>8 DEF KInv, KernelState
<1>10. KInv(r)
  BY <1>8, <1>9, InvFrame
<1>11. OthersStay(r, kk, new) /\ SameWaiters(r, kk)
  BY <1>5, <1>6, <1>8, <1>9 DEF OthersStay, SameWaiters, Where
<1>12. /\ r.status[new] = (kk.status[new] \cup {"RUNNING"}) \ {"READY"}
       /\ \A u \in TCB \ {new, kk.run} : r.status[u] = kk.status[u]
  BY <1>3, <1>5, <1>6, <1>8, <1>9
<1>13. HandedTo(r, kk, new) /\ r.pendsv = kk.pendsv /\ r.scheduled
  BY <1>5, <1>6, <1>8, <1>9, <1>10, <1>11, <1>12 DEF HandedTo, SameCtl
<1> HIDE DEF new
<1>14. Sane(r) /\ Picked(r) /\ Switched(r, kk)
  BY <1>2, <1>12, <1>13, HandedSafe DEF new
<1> QED BY <1>13, <1>14

\* A tick wakes at most one task, one whose wait is over, and asks for a switch; a
\* is the state between the two.
Ticked(r, a, kk, due) ==
    /\ Sane(a) /\ SameCtl(a, kk)
    /\ a = kk \/ \E t \in kk.sort : due = {t} /\ a = OsSchedWakePendTimeTask(kk, t)
    /\ Sane(r) /\ SameTasks(r, a)
    /\ r.lock = kk.lock /\ r.scheduled = kk.scheduled
    /\ r.pendsv = (kk.pendsv \/ (kk.scheduled /\ kk.lock = 0))

LEMMA TickSafe ==
    ASSUME NEW kk, Sane(kk), NEW due, due = {} \/ \E t \in kk.sort : due = {t},
           NEW left \in BOOLEAN, NEW r, r = LOS_SchedTickHandler(kk, due, left)
    PROVE  \E a : Ticked(r, a, kk, due)
<1> DEFINE a == IF due = {} THEN kk
                ELSE OsSchedWakePendTimeTask(kk, CHOOSE t \in due : TRUE)
           u == OsTimeSliceUpdate(a, a.run, left)
<1>1. r = LOS_ScheduleEffect(u)
  BY DEF LOS_SchedTickHandler
<1>2. /\ Sane(a) /\ SameCtl(a, kk)
      /\ \/ a = kk
         \/ \E t \in kk.sort : due = {t} /\ a = OsSchedWakePendTimeTask(kk, t)
  <2>1. CASE due = {}
    BY <2>1 DEF SameCtl
  <2>2. CASE due # {}
    <3>1. PICK t \in kk.sort : due = {t}
      BY <2>2
    <3>2. (CHOOSE x \in due : TRUE) = t
      BY <3>1
    <3>3. a = OsSchedWakePendTimeTask(kk, t)
      BY <2>2, <3>2
    <3>4. Sane(a) /\ SameBut(a, kk, t)
      BY <3>3, WakePendTimeSafe
    <3> QED BY <3>1, <3>3, <3>4 DEF SameBut
  <2> QED BY <2>1, <2>2
<1> HIDE DEF a
<1>3. SameTasks(u, a) /\ SameCtl(u, a)
  BY <1>2, SliceUpdateSafe
<1>4. Sane(u)
  BY <1>2, <1>3, SaneFrame
<1> HIDE DEF u
<1>5. /\ SameTasks(r, u) /\ r.lock = u.lock /\ r.scheduled = u.scheduled
      /\ r.pendsv = (u.pendsv \/ (u.scheduled /\ u.lock = 0))
  BY <1>1, <1>4, ScheduleSafe
<1>6. Sane(r) /\ SameTasks(r, a)
  BY <1>3, <1>4, <1>5, SaneFrame DEF SameTasks
<1>7. /\ r.lock = kk.lock /\ r.scheduled = kk.scheduled
      /\ r.pendsv = (kk.pendsv \/ (kk.scheduled /\ kk.lock = 0))
  BY <1>2, <1>3, <1>5 DEF SameCtl
<1>8. Ticked(r, a, kk, due)
  BY <1>2, <1>6, <1>7 DEF Ticked
<1> QED BY <1>8
=============================================================================
