------------------------------ MODULE PmProofs ------------------------------
(***************************************************************************)
(* Swtmr and Pm, which uses it, for every number of timers, lengths of the *)
(* handler queue, callers and names of locks.                              *)
(*                                                                         *)
(* Swtmr, unless a one-off timer that has expired is started again: no     *)
(* control block is lost or given out twice, and what is ticking is on the *)
(* sort link or waits for the timer task.  EachBlockOnce counts            *)
(* occurrences on the free list; the induction needs what the count stands *)
(* for, that the list has no repetition (FreeOK).  That a block is not     *)
(* freed twice needs to know which messages are on their way (TimerOK):    *)
(* none of a life that is still to come, none of an unused block, none of  *)
(* a one-off timer that is on the sort link.  And what is on the sort link *)
(* is ticking, or an unused block could expire.                            *)
(*                                                                         *)
(* Pm: types, the safety of the suspension (if the device is registered    *)
(* before the first one and stays, and other nodes come and go between     *)
(* suspensions only), the timers of delay locks, which are neither lost    *)
(* nor leaked nor freed twice, and, as long as no request finds it at its  *)
(* limit, the total of the locks.  The last two up to the first call that  *)
(* walks the list of locks from a node that has left it (Astray).  The     *)
(* suspension needs to know what each of its phases has made sure of       *)
(* (PhaseOK).  The timers need the invariant of Swtmr, of which the call LOS_SwtmrStart    *)
(* asks more than Pm checks: that the timer has not expired yet.  It has   *)
(* not, because an ID that a thread or a lock holds is never that of a     *)
(* later life (IdOK) and only its creator starts a timer.  The total needs *)
(* room for the requests that are on their way (TotalInv).                 *)
(***************************************************************************)
EXTENDS Pm, SequenceTheorems, FiniteSetTheorems, FunctionTheorems, WellFoundedInduction, TLAPS

-----------------------------------------------------------------------------
(***************************************************************************)
(* The free list.                                                          *)
(***************************************************************************)
OnFree(t) == \E i \in DOMAIN free : free[i] = t

\* The free list holds the blocks nobody has, each of them once.
FreeOK ==
    /\ \A i, j \in DOMAIN free : free[i] = free[j] => i = j
    /\ \A t \in Timers : OnFree(t) <=> cb[t].state = "UNUSED" /\ t \notin creating
    /\ \A t \in creating : cb[t].state = "UNUSED"

\* The messages of timer t that are on their way, and what its block looks like.
TimerOK(t) ==
    /\ cb[t].state = "UNUSED" => ~Pending(t)
    /\ ~OnFree(t) => IdUnused(t)
    /\ cb[t].mode = "ONCE" /\ cb[t].armed => ~Pending(t)
    /\ cb[t].armed => cb[t].state = "TICKING"
    /\ cb[t].state = "TICKING" /\ ~cb[t].armed
         => cb[t].mode = "ONCE" /\ (Pending(t) \/ t \in lost)

SwtmrIInv == SwtmrTypeOK /\ FreeOK /\ \A t \in Timers : TimerOK(t)

\* A list without repetition holds a block once or not at all.
LEMMA FreeCount ==
    ASSUME SwtmrIInv
    PROVE  EachBlockOnce
<1>1. ASSUME NEW t \in Timers
      PROVE  (IF cb[t].state = "UNUSED" /\ t \notin creating THEN 1 ELSE 0)
                 = Cardinality({i \in DOMAIN free : free[i] = t})
  <2> DEFINE S == {i \in DOMAIN free : free[i] = t}
  <2>1. CASE OnFree(t)
    <3>1. PICK i \in DOMAIN free : free[i] = t
      BY <2>1 DEF OnFree
    <3>2. S = {i}
      BY <3>1 DEF SwtmrIInv, FreeOK
    <3>3. Cardinality(S) = 1
      BY <3>2, FS_Singleton
    <3> QED BY <1>1, <2>1, <3>3 DEF SwtmrIInv, FreeOK
  <2>2. CASE ~OnFree(t)
    <3>1. S = {}
      BY <2>2 DEF OnFree
    <3>2. Cardinality(S) = 0
      BY <3>1, FS_EmptySet
    <3> QED BY <1>1, <2>2, <3>2 DEF SwtmrIInv, FreeOK
  <2> QED BY <2>1, <2>2
<1> QED BY <1>1 DEF EachBlockOnce, SwtmrIInv, FreeOK

\* OsSwtmrInit chains each block once: as many places as blocks, and every block in one.
LEMMA SwtmrInitOK == SwtmrInit => SwtmrIInv
<1> SUFFICES ASSUME SwtmrInit PROVE SwtmrIInv
  OBVIOUS
<1> DEFINE n == Cardinality(Timers)
<1>1. IsFiniteSet(Timers) /\ n \in Nat
  BY SwtmrAssumption, FS_CardinalityType
<1>2. free \in [1..n -> Timers] /\ \A t \in Timers : \E i \in DOMAIN free : free[i] = t
  BY DEF SwtmrInit
<1>3. IsFiniteSet(1..n) /\ Cardinality(1..n) = n
  <2>1. n < 1 \/ 1 <= n
    BY <1>1
  <2> QED BY <1>1, <2>1, FS_Interval
<1>4. free \in Injection(1..n, Timers)
  <2>1. free \in Surjection(1..n, Timers)
    BY <1>2 DEF Surjection
  <2> QED BY <1>3, <2>1, FS_SurjSameCardinalityImpliesInj
<1>5. \A i, j \in DOMAIN free : free[i] = free[j] => i = j
  BY <1>2, <1>4 DEF Injection, IsInjective
<1>6. free \in Seq(Timers)
  BY <1>1, <1>2, IsASeq
<1>7. PICK b : /\ \A t \in Timers : cb[t] = b
               /\ b \in Block /\ b.state = "UNUSED" /\ ~b.armed
  <2> DEFINE a == CHOOSE a \in HandlerArgs : TRUE
             b == [life |-> 0, state |-> "UNUSED", mode |-> "ONCE", arg |-> a, armed |-> FALSE]
  <2>1. a \in HandlerArgs
    BY SwtmrAssumption
  <2>2. cb \in [Timers -> {b}]
    BY DEF SwtmrInit
  <2> HIDE DEF a
  <2>3. 0 \in 0..(Lives - 1)
    BY SwtmrAssumption
  <2>4. b \in Block /\ b.state = "UNUSED" /\ ~b.armed
    BY <2>1, <2>3 DEF Block
  <2> QED BY <2>2, <2>4
<1>8. cb \in [Timers -> Block]
  BY <1>7 DEF SwtmrInit
<1>9. SwtmrTypeOK
  BY <1>6, <1>8, SwtmrAssumption DEF SwtmrInit, SwtmrTypeOK
<1>10. FreeOK
  BY <1>2, <1>5, <1>7 DEF SwtmrInit, FreeOK, OnFree
<1>11. Unchecked = {}
  BY DEF SwtmrInit, Unchecked
<1>12. \A t \in Timers : TimerOK(t)
  BY <1>7, <1>11 DEF TimerOK, Pending, IdUnused
<1> QED BY <1>9, <1>10, <1>12 DEF SwtmrIInv

-----------------------------------------------------------------------------
(***************************************************************************)
(* What the steps are made of.                                             *)
(***************************************************************************)
LEMMA LivesType ==
    /\ Lives \in Nat /\ Lives > 1
    /\ \A n \in 0..(Lives - 1) : NextLife(n) \in 0..(Lives - 1) /\ NextLife(n) # n
  BY SwtmrAssumption DEF NextLife

LEMMA BlockType ==
    ASSUME SwtmrTypeOK, NEW t \in Timers
    PROVE  /\ cb[t] \in Block
           /\ cb[t].life \in 0..(Lives - 1) /\ cb[t].arg \in HandlerArgs
           /\ cb[t].armed \in BOOLEAN
  BY DEF SwtmrTypeOK, Block

\* A step that touches neither the timer nor its messages.
LEMMA TimerFrame ==
    ASSUME NEW u \in Timers, TimerOK(u), cb'[u] = cb[u],
           u \in lost' <=> u \in lost, OnFree(u)' <=> OnFree(u),
           \A m : m.timer = u => (m \in Unchecked' <=> m \in Unchecked)
    PROVE  TimerOK(u)'
<1>1. Pending(u)' <=> Pending(u)
  BY DEF Pending
<1>2. IdUnused(u)' <=> IdUnused(u)
  BY DEF IdUnused
<1> QED BY <1>1, <1>2 DEF TimerOK

LEMMA UncheckedFrame ==
    ASSUME UNCHANGED <<expired, swtTask>>
    PROVE  Unchecked' = Unchecked
  BY DEF Unchecked

\* OsSwtmrDelete puts a block that is in use in front of the free list.
LEMMA DeleteFree ==
    ASSUME SwtmrTypeOK, FreeOK, NEW t \in Timers, cb[t].state # "UNUSED",
           NEW b \in Block, OsSwtmrDelete(t, b), creating' = creating
    PROVE  /\ cb' \in [Timers -> Block] /\ free' \in Seq(Timers) /\ lost' \subseteq Timers
           /\ FreeOK'
           /\ cb'[t] = [b EXCEPT !.life = NextLife(b.life), !.state = "UNUSED"]
           /\ \A u \in Timers : u # t => /\ cb'[u] = cb[u]
                                         /\ u \in lost' <=> u \in lost
                                         /\ OnFree(u)' <=> OnFree(u)
           /\ OnFree(t)' /\ t \notin lost'
<1> DEFINE d == [b EXCEPT !.life = NextLife(b.life), !.state = "UNUSED"]
<1>1. d \in Block /\ d.state = "UNUSED"
  <2>1. b.life \in 0..(Lives - 1)
    BY DEF Block
  <2>2. NextLife(b.life) \in 0..(Lives - 1)
    BY <2>1, LivesType
  <2> QED BY <2>2 DEF Block
<1>2. cb' = [cb EXCEPT ![t] = d] /\ free' = <<t>> \o free /\ lost' = lost \ {t}
  BY DEF OsSwtmrDelete
<1> HIDE DEF d
<1>3. /\ cb' \in [Timers -> Block] /\ lost' \subseteq Timers
      /\ cb'[t] = d /\ \A u \in Timers : u # t => cb'[u] = cb[u]
  BY <1>1, <1>2 DEF SwtmrTypeOK
<1>4. /\ Len(free) \in Nat /\ DOMAIN free = 1..Len(free) /\ free \in Seq(Timers)
      /\ \A i \in 1..Len(free) : free[i] \in Timers
  BY LenProperties, ElementOfSeq DEF SwtmrTypeOK
<1>5. /\ <<t>> \o free \in Seq(Timers)
      /\ Len(<<t>> \o free) = Len(free) + 1
      /\ (<<t>> \o free)[1] = t
      /\ \A i \in 1..(Len(free) + 1) : i # 1 => (<<t>> \o free)[i] = free[i - 1]
  <2>1. <<t>> \in Seq(Timers) /\ Len(<<t>>) = 1 /\ <<t>>[1] = t
    OBVIOUS
  <2> QED BY <1>4, <2>1, ConcatProperties
<1>6. /\ free' \in Seq(Timers) /\ DOMAIN free' = 1..(Len(free) + 1)
      /\ free'[1] = t
      /\ \A i \in 1..(Len(free) + 1) : i # 1 => free'[i] = free[i - 1]
  BY <1>2, <1>5, LenProperties
<1>7. ~OnFree(t)
  BY DEF FreeOK
<1>8. \A i \in 1..Len(free) : free[i] # t
  BY <1>4, <1>7 DEF OnFree
<1>9. ASSUME NEW u \in Timers PROVE OnFree(u)' <=> u = t \/ OnFree(u)
  <2>1. ASSUME OnFree(u) PROVE OnFree(u)'
    <3>1. PICK i \in 1..Len(free) : free[i] = u
      BY <1>4, <2>1 DEF OnFree
    <3>2. i + 1 \in 1..(Len(free) + 1) /\ free'[i + 1] = u
      BY <1>4, <1>6, <3>1
    <3> QED BY <1>6, <3>2 DEF OnFree
  <2>2. ASSUME OnFree(u)', u # t PROVE OnFree(u)
    <3>1. PICK i \in 1..(Len(free) + 1) : free'[i] = u
      BY <1>6, <2>2 DEF OnFree
    <3>2. i - 1 \in 1..Len(free) /\ free[i - 1] = u
      BY <1>4, <1>6, <2>2, <3>1
    <3> QED BY <1>4, <3>2 DEF OnFree
  <2>3. OnFree(t)'
    BY <1>4, <1>6 DEF OnFree
  <2> QED BY <2>1, <2>2, <2>3
<1>10. ASSUME NEW i \in 1..(Len(free) + 1), NEW j \in 1..(Len(free) + 1), free'[i] = free'[j]
       PROVE  i = j
  <2>1. CASE i = 1 /\ j = 1
    BY <2>1
  <2>2. CASE (i = 1 /\ j # 1) \/ (i # 1 /\ j = 1)
    BY <1>4, <1>6, <1>8, <1>10, <2>2
  <2>3. CASE i # 1 /\ j # 1
    <3>1. i - 1 \in 1..Len(free) /\ j - 1 \in 1..Len(free) /\ free[i - 1] = free[j - 1]
      BY <1>4, <1>6, <1>10, <2>3
    <3>2. i - 1 = j - 1
      BY <1>4, <3>1 DEF FreeOK
    <3> QED BY <3>2
  <2> QED BY <2>1, <2>2, <2>3
<1>11. FreeOK'
  <2>1. \A u \in Timers : OnFree(u)' <=> (cb'[u].state = "UNUSED" /\ u \notin creating')
    BY <1>1, <1>3, <1>9 DEF FreeOK
  <2>2. \A u \in creating' : cb'[u].state = "UNUSED"
    BY <1>1, <1>3 DEF FreeOK, SwtmrTypeOK
  <2> QED BY <1>6, <1>10, <2>1, <2>2 DEF FreeOK
<1> QED BY <1>2, <1>3, <1>6, <1>9, <1>11 DEF d

-----------------------------------------------------------------------------
(***************************************************************************)
(* The calls.                                                              *)
(***************************************************************************)
LEMMA CreateTakeOK ==
    ASSUME SwtmrIInv, SwtmrCreateTake, NEW t, t = Head(free)
    PROVE  /\ SwtmrIInv'
           /\ t \in Timers /\ cb[t].state = "UNUSED" /\ t \notin creating
           /\ \A u \in Timers : OnFree(u)' <=> u # t /\ OnFree(u)
<1>1. /\ free \in Seq(Timers) /\ free # << >> /\ free' = Tail(free) /\ IdUnused(t)
      /\ creating' = creating \cup {t} /\ cb' = cb /\ expired' = expired
      /\ swtTask' = swtTask /\ lost' = lost
  BY DEF SwtmrIInv, SwtmrTypeOK, SwtmrCreateTake
<1>2. /\ Len(free) \in Nat /\ Len(free) > 0 /\ DOMAIN free = 1..Len(free)
      /\ t = free[1] /\ t \in Timers
  BY <1>1, LenProperties, EmptySeq, ElementOfSeq, HeadTailProperties
<1>3. /\ free' \in Seq(Timers) /\ DOMAIN free' = 1..(Len(free) - 1)
      /\ \A i \in 1..(Len(free) - 1) : free'[i] = free[i + 1]
  BY <1>1, <1>2, HeadTailProperties, LenProperties
<1>4. \A i, j \in 1..Len(free) : free[i] = free[j] => i = j
  BY <1>2 DEF SwtmrIInv, FreeOK
<1>5. ASSUME NEW u \in Timers PROVE OnFree(u)' <=> u # t /\ OnFree(u)
  <2>1. ASSUME OnFree(u)' PROVE u # t /\ OnFree(u)
    <3>1. PICK i \in 1..(Len(free) - 1) : free'[i] = u
      BY <1>3, <2>1 DEF OnFree
    <3>2. i + 1 \in 1..Len(free) /\ 1 \in 1..Len(free) /\ i + 1 # 1 /\ free[i + 1] = u
      BY <1>2, <1>3, <3>1
    <3>3. u # t
      BY <1>2, <1>4, <3>2
    <3> QED BY <1>2, <3>2, <3>3 DEF OnFree
  <2>2. ASSUME OnFree(u), u # t PROVE OnFree(u)'
    <3>1. PICK i \in 1..Len(free) : free[i] = u
      BY <1>2, <2>2 DEF OnFree
    <3>2. i - 1 \in 1..(Len(free) - 1) /\ free'[i - 1] = u
      BY <1>2, <1>3, <2>2, <3>1
    <3> QED BY <1>3, <3>2 DEF OnFree
  <2> QED BY <2>1, <2>2
<1>6. SwtmrTypeOK'
  BY <1>1, <1>2, <1>3 DEF SwtmrIInv, SwtmrTypeOK
<1>7. cb[t].state = "UNUSED" /\ OnFree(t) /\ t \notin creating
  <2>1. OnFree(t)
    BY <1>2 DEF OnFree
  <2> QED BY <1>2, <2>1 DEF SwtmrIInv, FreeOK
<1>8. FreeOK'
  <2>1. ASSUME NEW i \in DOMAIN free', NEW j \in DOMAIN free', free'[i] = free'[j] PROVE i = j
    <3>1. i + 1 \in 1..Len(free) /\ j + 1 \in 1..Len(free) /\ free[i + 1] = free[j + 1]
      BY <1>2, <1>3, <2>1
    <3>2. i + 1 = j + 1
      BY <1>4, <3>1
    <3> QED BY <1>2, <1>3, <3>2
  <2>2. \A u \in Timers : OnFree(u)' <=> (cb'[u].state = "UNUSED" /\ u \notin creating')
    BY <1>1, <1>5 DEF SwtmrIInv, FreeOK
  <2>3. \A u \in creating' : cb'[u].state = "UNUSED"
    BY <1>1, <1>7 DEF SwtmrIInv, FreeOK
  <2> QED BY <2>1, <2>2, <2>3 DEF FreeOK
<1>9. Unchecked' = Unchecked
  BY <1>1, UncheckedFrame
<1>10. ASSUME NEW u \in Timers PROVE TimerOK(u)'
  <2>1. CASE u # t
    BY <1>1, <1>5, <1>9, <2>1, TimerFrame DEF SwtmrIInv
  <2>2. CASE u = t
    <3>1. TimerOK(t) /\ IdUnused(t)
      BY <1>1, <1>2 DEF SwtmrIInv
    <3>2. (Pending(t)' <=> Pending(t)) /\ IdUnused(t)'
      BY <1>1, <1>9, <3>1 DEF Pending, IdUnused
    <3> QED BY <1>1, <2>2, <3>1, <3>2 DEF TimerOK
  <2> QED BY <2>1, <2>2
<1> QED BY <1>2, <1>5, <1>6, <1>7, <1>8, <1>10 DEF SwtmrIInv

\* A step that changes nothing but block t, which stays in use or is being created.
LEMMA BlockStep ==
    ASSUME SwtmrIInv, NEW t \in Timers, NEW b \in Block, cb' = [cb EXCEPT ![t] = b],
           free' = free, creating' \subseteq creating, t \notin creating',
           \A u \in creating : u # t => u \in creating',
           b.state # "UNUSED", ~OnFree(t),
           b.life = cb[t].life
    PROVE  /\ cb' \in [Timers -> Block] /\ FreeOK'
           /\ cb'[t] = b /\ \A u \in Timers : u # t => cb'[u] = cb[u]
           /\ \A u \in Timers : OnFree(u)' <=> OnFree(u)
<1>1. cb' \in [Timers -> Block] /\ cb'[t] = b /\ \A u \in Timers : u # t => cb'[u] = cb[u]
  BY DEF SwtmrIInv, SwtmrTypeOK
<1>2. \A u \in Timers : OnFree(u)' <=> OnFree(u)
  BY DEF OnFree
<1>3. \A i, j \in DOMAIN free' : free'[i] = free'[j] => i = j
  BY DEF SwtmrIInv, FreeOK
<1>4. \A u \in Timers : OnFree(u)' <=> (cb'[u].state = "UNUSED" /\ u \notin creating')
  BY <1>1, <1>2 DEF SwtmrIInv, FreeOK
<1>5. \A u \in creating' : cb'[u].state = "UNUSED"
  BY <1>1 DEF SwtmrIInv, SwtmrTypeOK, FreeOK
<1> QED BY <1>1, <1>2, <1>3, <1>4, <1>5 DEF FreeOK

LEMMA CreateFillOK ==
    ASSUME SwtmrIInv, NEW t \in Timers, NEW mode \in {"ONCE", "PERIOD", "NO_SELFDELETE"},
           NEW arg \in HandlerArgs, SwtmrCreateFill(t, mode, arg)
    PROVE  SwtmrIInv'
<1> DEFINE b == [cb[t] EXCEPT !.state = "CREATED", !.mode = mode, !.arg = arg]
<1>1. /\ t \in creating /\ creating' = creating \ {t} /\ free' = free /\ expired' = expired
      /\ swtTask' = swtTask /\ lost' = lost
  BY DEF SwtmrCreateFill
<1>2. cb \in [Timers -> Block] /\ cb[t] \in Block
  BY DEF SwtmrIInv, SwtmrTypeOK
<1>3. cb' = [cb EXCEPT ![t] = b]
  BY <1>2 DEF SwtmrCreateFill, Block
<1>4. /\ b \in Block /\ b.state = "CREATED" /\ b.life = cb[t].life /\ b.armed = cb[t].armed
  BY <1>2 DEF Block
<1>5. cb[t].state = "UNUSED" /\ ~OnFree(t) /\ TimerOK(t)
  BY <1>1 DEF SwtmrIInv, FreeOK
<1> HIDE DEF b
<1>6. /\ cb' \in [Timers -> Block] /\ FreeOK'
      /\ cb'[t] = b /\ \A u \in Timers : u # t => cb'[u] = cb[u]
      /\ \A u \in Timers : OnFree(u)' <=> OnFree(u)
  BY <1>1, <1>3, <1>4, <1>5, BlockStep
<1>7. SwtmrTypeOK'
  BY <1>1, <1>6 DEF SwtmrIInv, SwtmrTypeOK
<1>8. Unchecked' = Unchecked
  BY <1>1, UncheckedFrame
<1>9. ASSUME NEW u \in Timers PROVE TimerOK(u)'
  <2>1. CASE u # t
    BY <1>1, <1>6, <1>8, <2>1, TimerFrame DEF SwtmrIInv
  <2>2. CASE u = t
    <3>1. (Pending(t)' <=> Pending(t)) /\ (IdUnused(t)' <=> IdUnused(t))
      BY <1>4, <1>6, <1>8 DEF Pending, IdUnused
    <3>2. cb'[t].state = "CREATED" /\ ~cb'[t].armed
      BY <1>4, <1>5, <1>6 DEF TimerOK
    <3> QED BY <1>5, <1>6, <2>2, <3>1, <3>2 DEF TimerOK
  <2> QED BY <2>1, <2>2
<1> QED BY <1>6, <1>7, <1>9 DEF SwtmrIInv

\* Starting a timer: no expiry of this life of a one-off timer may be on its way.
LEMMA StartTimerOK ==
    ASSUME SwtmrIInv, NEW t \in Timers, LOS_SwtmrStart(t),
           cb[t].mode # "ONCE" \/ cb[t].armed \/ ~Pending(t)
    PROVE  SwtmrIInv'
<1> DEFINE b == [cb[t] EXCEPT !.state = "TICKING", !.armed = TRUE]
<1>1. /\ cb[t].state # "UNUSED" /\ creating' = creating /\ free' = free /\ expired' = expired
      /\ swtTask' = swtTask /\ lost' = lost \ {t}
  BY DEF LOS_SwtmrStart, Created
<1>2. cb \in [Timers -> Block] /\ cb[t] \in Block
  BY DEF SwtmrIInv, SwtmrTypeOK
<1>3. cb' = [cb EXCEPT ![t] = b]
  BY <1>2 DEF LOS_SwtmrStart, OsSwtmrStart, OsSwtmrStop, Block
<1>4. /\ b \in Block /\ b.state = "TICKING" /\ b.life = cb[t].life /\ b.armed
      /\ b.mode = cb[t].mode
  BY <1>2 DEF Block
<1>5. ~OnFree(t) /\ TimerOK(t) /\ t \notin creating
  BY <1>1 DEF SwtmrIInv, FreeOK
<1> HIDE DEF b
<1>6. /\ cb' \in [Timers -> Block] /\ FreeOK'
      /\ cb'[t] = b /\ \A u \in Timers : u # t => cb'[u] = cb[u]
      /\ \A u \in Timers : OnFree(u)' <=> OnFree(u)
  BY <1>1, <1>3, <1>4, <1>5, BlockStep
<1>7. SwtmrTypeOK'
  BY <1>1, <1>6 DEF SwtmrIInv, SwtmrTypeOK
<1>8. Unchecked' = Unchecked
  BY <1>1, UncheckedFrame
<1>9. ASSUME NEW u \in Timers PROVE TimerOK(u)'
  <2>1. CASE u # t
    BY <1>1, <1>6, <1>8, <2>1, TimerFrame DEF SwtmrIInv
  <2>2. CASE u = t
    <3>1. (Pending(t)' <=> Pending(t)) /\ (IdUnused(t)' <=> IdUnused(t))
      BY <1>4, <1>6, <1>8 DEF Pending, IdUnused
    <3>2. cb[t].mode = "ONCE" => ~Pending(t)
      BY <1>5 DEF TimerOK
    <3> QED BY <1>4, <1>5, <1>6, <2>2, <3>1, <3>2 DEF TimerOK
  <2> QED BY <2>1, <2>2
<1> QED BY <1>6, <1>7, <1>9 DEF SwtmrIInv

LEMMA StopTimerOK ==
    ASSUME SwtmrIInv, NEW t \in Timers, LOS_SwtmrStop(t)
    PROVE  SwtmrIInv'
<1> DEFINE b == OsSwtmrStop(cb[t])
<1>1. /\ cb[t].state = "TICKING" /\ creating' = creating /\ free' = free /\ expired' = expired
      /\ swtTask' = swtTask /\ lost' = lost /\ cb' = [cb EXCEPT ![t] = b]
  BY DEF LOS_SwtmrStop
<1>2. cb[t] \in Block
  BY DEF SwtmrIInv, SwtmrTypeOK
<1>3. b \in Block /\ b.state = "CREATED" /\ b.life = cb[t].life /\ ~b.armed
  BY <1>2 DEF Block, OsSwtmrStop
<1>4. ~OnFree(t) /\ TimerOK(t) /\ t \notin creating
  BY <1>1 DEF SwtmrIInv, FreeOK
<1> HIDE DEF b
<1>5. /\ cb' \in [Timers -> Block] /\ FreeOK'
      /\ cb'[t] = b /\ \A u \in Timers : u # t => cb'[u] = cb[u]
      /\ \A u \in Timers : OnFree(u)' <=> OnFree(u)
  BY <1>1, <1>3, <1>4, BlockStep
<1>6. SwtmrTypeOK'
  BY <1>1, <1>5 DEF SwtmrIInv, SwtmrTypeOK
<1>7. Unchecked' = Unchecked
  BY <1>1, UncheckedFrame
<1>8. ASSUME NEW u \in Timers PROVE TimerOK(u)'
  <2>1. CASE u # t
    BY <1>1, <1>5, <1>7, <2>1, TimerFrame DEF SwtmrIInv
  <2>2. CASE u = t
    <3>1. (Pending(t)' <=> Pending(t)) /\ (IdUnused(t)' <=> IdUnused(t))
      BY <1>3, <1>5, <1>7 DEF Pending, IdUnused
    <3> QED BY <1>3, <1>4, <1>5, <2>2, <3>1 DEF TimerOK
  <2> QED BY <2>1, <2>2
<1> QED BY <1>5, <1>6, <1>8 DEF SwtmrIInv

\* OsSwtmrDelete of a block off the sort link, whose next life no message knows.
LEMMA DeleteStep ==
    ASSUME SwtmrIInv, NEW t \in Timers, cb[t].state # "UNUSED", NEW b \in Block,
           OsSwtmrDelete(t, b), b.life = cb[t].life, ~b.armed, creating' = creating,
           Unchecked' \subseteq Unchecked,
           \A m \in Unchecked : m.timer # t => m \in Unchecked'
    PROVE  /\ cb' \in [Timers -> Block] /\ free' \in Seq(Timers) /\ lost' \subseteq Timers
           /\ FreeOK'
           /\ \A u \in Timers : TimerOK(u)'
<1>1. /\ cb' \in [Timers -> Block] /\ free' \in Seq(Timers) /\ lost' \subseteq Timers
      /\ FreeOK'
      /\ cb'[t] = [b EXCEPT !.life = NextLife(b.life), !.state = "UNUSED"]
      /\ \A u \in Timers : u # t => /\ cb'[u] = cb[u]
                                    /\ u \in lost' <=> u \in lost
                                    /\ OnFree(u)' <=> OnFree(u)
      /\ OnFree(t)'
  BY DeleteFree DEF SwtmrIInv
<1>2. ASSUME NEW u \in Timers PROVE TimerOK(u)'
  <2>1. CASE u # t
    BY <1>1, <2>1, TimerFrame DEF SwtmrIInv
  <2>2. CASE u = t
    <3>1. IdUnused(t)
      BY DEF SwtmrIInv, FreeOK, TimerOK
    <3>2. cb'[t].life = NextLife(cb[t].life) /\ cb'[t].state = "UNUSED" /\ ~cb'[t].armed
      BY <1>1 DEF Block
    <3>3. ~Pending(t)'
      BY <3>1, <3>2 DEF Pending, IdUnused
    <3> QED BY <1>1, <2>2, <3>2, <3>3 DEF TimerOK
  <2> QED BY <2>1, <2>2
<1> QED BY <1>1, <1>2

LEMMA DeleteTimerOK ==
    ASSUME SwtmrIInv, NEW t \in Timers, LOS_SwtmrDelete(t)
    PROVE  SwtmrIInv'
<1> DEFINE b == IF cb[t].state = "TICKING" THEN OsSwtmrStop(cb[t]) ELSE cb[t]
<1>1. /\ cb[t].state # "UNUSED" /\ OsSwtmrDelete(t, b) /\ creating' = creating
      /\ expired' = expired /\ swtTask' = swtTask
  BY DEF LOS_SwtmrDelete, Created
<1>2. cb[t] \in Block /\ TimerOK(t)
  BY DEF SwtmrIInv, SwtmrTypeOK
<1>3. b \in Block /\ b.life = cb[t].life /\ ~b.armed
  BY <1>2 DEF Block, OsSwtmrStop, TimerOK
<1> HIDE DEF b
<1>4. Unchecked' = Unchecked
  BY <1>1, UncheckedFrame
<1>5. /\ cb' \in [Timers -> Block] /\ free' \in Seq(Timers) /\ lost' \subseteq Timers
      /\ FreeOK'
      /\ \A u \in Timers : TimerOK(u)'
  BY <1>1, <1>3, <1>4, DeleteStep
<1> QED BY <1>1, <1>5 DEF SwtmrIInv, SwtmrTypeOK

-----------------------------------------------------------------------------
(***************************************************************************)
(* Expiry and the timer task.                                              *)
(***************************************************************************)
LEMMA ScanOK ==
    ASSUME SwtmrIInv, NEW t \in Timers, OsSwtmrScan(t)
    PROVE  SwtmrIInv'
<1> DEFINE b == AfterExpiry(cb[t])
           m == [timer |-> t, life |-> cb[t].life, arg |-> cb[t].arg]
<1>1. /\ cb[t].armed /\ cb' = [cb EXCEPT ![t] = b] /\ free' = free /\ creating' = creating
      /\ swtTask' = swtTask
  BY DEF OsSwtmrScan
<1>2. cb[t] \in Block /\ TimerOK(t) /\ cb[t].life \in 0..(Lives - 1)
  BY DEF SwtmrIInv, SwtmrTypeOK, Block
<1>3. cb[t].state = "TICKING" /\ ~OnFree(t) /\ t \notin creating
  BY <1>1, <1>2 DEF TimerOK, SwtmrIInv, FreeOK
<1>4. /\ b \in Block /\ b.life = cb[t].life /\ b.mode = cb[t].mode /\ b.state # "UNUSED"
      /\ b.armed => b.state = "TICKING" /\ b.mode = "PERIOD"
      /\ b.state = "TICKING" /\ ~b.armed => b.mode = "ONCE"
  BY <1>2, <1>3 DEF Block, AfterExpiry, OsSwtmrStart
<1>5. m \in SwtmrHandlerItem /\ m.timer = t /\ m.life = cb[t].life
  BY <1>2 DEF SwtmrHandlerItem, Block
<1>6. expired \in Seq(SwtmrHandlerItem) /\ Len(expired) \in Nat
  BY LenProperties DEF SwtmrIInv, SwtmrTypeOK
<1>7. \/ /\ Len(expired) < HandleQueue /\ expired' = Append(expired, m) /\ lost' = lost \ {t}
      \/ lost' = lost \cup {t} /\ expired' = expired
  BY DEF OsSwtmrScan
<1> HIDE DEF b, m
<1>8. /\ cb' \in [Timers -> Block] /\ FreeOK'
      /\ cb'[t] = b /\ \A u \in Timers : u # t => cb'[u] = cb[u]
      /\ \A u \in Timers : OnFree(u)' <=> OnFree(u)
  BY <1>1, <1>3, <1>4, BlockStep
<1>9. /\ expired' \in Seq(SwtmrHandlerItem) /\ Len(expired') <= HandleQueue
      /\ \/ Unchecked' = Unchecked \cup {m}
         \/ Unchecked' = Unchecked /\ t \in lost'
  <2>1. CASE Len(expired) < HandleQueue /\ expired' = Append(expired, m)
    <3>1. /\ expired' \in Seq(SwtmrHandlerItem) /\ Len(expired') = Len(expired) + 1
          /\ DOMAIN expired = 1..Len(expired) /\ DOMAIN expired' = 1..(Len(expired) + 1)
          /\ \A i \in 1..Len(expired) : expired'[i] = expired[i]
          /\ expired'[Len(expired) + 1] = m
      BY <1>5, <1>6, <2>1, AppendProperties, LenProperties
    <3>2. {expired'[i] : i \in DOMAIN expired'} = {expired[i] : i \in DOMAIN expired} \cup {m}
      BY <1>6, <3>1
    <3>3. Len(expired') <= HandleQueue
      BY <1>6, <2>1, <3>1, SwtmrAssumption
    <3> QED BY <1>1, <3>1, <3>2, <3>3 DEF Unchecked
  <2>2. CASE lost' = lost \cup {t} /\ expired' = expired
    BY <1>1, <2>2, UncheckedFrame DEF SwtmrIInv, SwtmrTypeOK
  <2> QED BY <1>7, <2>1, <2>2
<1>10. SwtmrTypeOK'
  BY <1>1, <1>7, <1>8, <1>9 DEF SwtmrIInv, SwtmrTypeOK
<1>11. ASSUME NEW u \in Timers PROVE TimerOK(u)'
  <2>1. CASE u # t
    <3>1. \A x : x.timer = u => (x \in Unchecked' <=> x \in Unchecked)
      BY <1>5, <1>9, <2>1
    <3> QED BY <1>7, <1>8, <2>1, <3>1, TimerFrame DEF SwtmrIInv
  <2>2. CASE u = t
    <3>1. Pending(t)' \/ t \in lost'
      BY <1>4, <1>5, <1>8, <1>9 DEF Pending
    <3>2. IdUnused(t)'
      <4>1. IdUnused(t) /\ NextLife(cb[t].life) # cb[t].life
        BY <1>2, <1>3, LivesType DEF TimerOK
      <4> QED BY <1>4, <1>5, <1>8, <1>9, <4>1 DEF IdUnused
    <3> QED BY <1>4, <1>8, <2>2, <3>1, <3>2 DEF TimerOK
  <2> QED BY <2>1, <2>2
<1> QED BY <1>8, <1>10, <1>11 DEF SwtmrIInv

\* Reading takes a message from the queue into the task's hands: none is lost or made up.
LEMMA TaskReadOK ==
    ASSUME SwtmrIInv, SwtmrTaskRead
    PROVE  SwtmrIInv' /\ Unchecked' = Unchecked
<1>1. /\ swtTask.at = "read" /\ expired # << >> /\ expired' = Tail(expired)
      /\ swtTask' = [at |-> "check", item |-> Head(expired)]
      /\ cb' = cb /\ free' = free /\ creating' = creating /\ lost' = lost
      /\ expired \in Seq(SwtmrHandlerItem) /\ Len(expired) <= HandleQueue
  BY DEF SwtmrTaskRead, SwtmrIInv, SwtmrTypeOK
<1>2. /\ Len(expired) \in Nat /\ Len(expired) > 0 /\ DOMAIN expired = 1..Len(expired)
      /\ Head(expired) = expired[1] /\ expired[1] \in SwtmrHandlerItem
  BY <1>1, LenProperties, EmptySeq, ElementOfSeq, HeadTailProperties
<1>3. /\ expired' \in Seq(SwtmrHandlerItem) /\ Len(expired') = Len(expired) - 1
      /\ DOMAIN expired' = 1..(Len(expired) - 1)
      /\ \A i \in 1..(Len(expired) - 1) : expired'[i] = expired[i + 1]
  BY <1>1, <1>2, HeadTailProperties, LenProperties
<1>4. Unchecked' = Unchecked
  <2>1. Unchecked = {expired[i] : i \in 1..Len(expired)}
    BY <1>1, <1>2 DEF Unchecked
  <2>2. Unchecked' = {expired'[i] : i \in 1..(Len(expired) - 1)} \cup {expired[1]}
    BY <1>1, <1>2, <1>3 DEF Unchecked
  <2>3. ASSUME NEW x \in Unchecked PROVE x \in Unchecked'
    <3>1. PICK i \in 1..Len(expired) : x = expired[i]
      BY <2>1, <2>3
    <3>2. CASE i = 1
      BY <2>2, <3>1, <3>2
    <3>3. CASE i # 1
      <4>1. i - 1 \in 1..(Len(expired) - 1) /\ expired'[i - 1] = x
        BY <1>2, <1>3, <3>1, <3>3
      <4> QED BY <2>2, <4>1
    <3> QED BY <3>2, <3>3
  <2>4. ASSUME NEW x \in Unchecked' PROVE x \in Unchecked
    BY <1>2, <1>3, <2>1, <2>2, <2>4
  <2> QED BY <2>3, <2>4
<1>5. SwtmrTypeOK'
  <2>1. swtTask' \in [at : {"check", "handler"}, item : SwtmrHandlerItem]
    BY <1>1, <1>2
  <2>2. Len(expired') <= HandleQueue
    BY <1>1, <1>2, <1>3, SwtmrAssumption
  <2> QED BY <1>1, <1>3, <2>1, <2>2 DEF SwtmrIInv, SwtmrTypeOK
<1>6. FreeOK' /\ \A u \in Timers : OnFree(u)' <=> OnFree(u)
  BY <1>1 DEF SwtmrIInv, FreeOK, OnFree
<1>7. \A u \in Timers : TimerOK(u)'
  BY <1>1, <1>4, <1>6, TimerFrame DEF SwtmrIInv
<1> QED BY <1>4, <1>5, <1>6, <1>7 DEF SwtmrIInv

\* What the task has in its hands is a message until it has been checked.
LEMMA InHand ==
    ASSUME SwtmrTypeOK, swtTask.at = "check"
    PROVE  /\ swtTask.item \in SwtmrHandlerItem
           /\ swtTask.item.timer \in Timers
           /\ swtTask.item \in Unchecked
  BY DEF SwtmrTypeOK, SwtmrHandlerItem, Unchecked

LEMMA TaskStaleOK ==
    ASSUME SwtmrIInv, SwtmrTaskStale
    PROVE  SwtmrIInv'
<1> DEFINE x == swtTask.item
<1>1. /\ swtTask.at = "check" /\ swtTask' = [at |-> "read"]
      /\ cb' = cb /\ free' = free /\ creating' = creating /\ lost' = lost
      /\ expired' = expired /\ cb[x.timer].life # x.life
  BY DEF SwtmrTaskStale
<1>2. Unchecked' \subseteq Unchecked /\ Unchecked \subseteq Unchecked' \cup {x}
  BY <1>1 DEF Unchecked
<1>3. SwtmrTypeOK'
  BY <1>1 DEF SwtmrIInv, SwtmrTypeOK
<1>4. FreeOK' /\ \A u \in Timers : OnFree(u)' <=> OnFree(u)
  BY <1>1 DEF SwtmrIInv, FreeOK, OnFree
<1> HIDE DEF x
<1>5. ASSUME NEW u \in Timers PROVE TimerOK(u)'
  <2>1. Pending(u)' <=> Pending(u)
    BY <1>1, <1>2 DEF Pending
  <2>2. IdUnused(u) => IdUnused(u)'
    BY <1>1, <1>2 DEF IdUnused
  <2> QED BY <1>1, <1>4, <2>1, <2>2 DEF SwtmrIInv, TimerOK
<1> QED BY <1>3, <1>4, <1>5 DEF SwtmrIInv

\* The timer of a message of its present life is in use and off the sort link, if it is a
\* one-off timer: it is deleted once.
LEMMA TaskExpireOK ==
    ASSUME SwtmrIInv, SwtmrTaskExpire
    PROVE  SwtmrIInv' /\ Unchecked' \subseteq Unchecked
<1>1. PICK x : x = swtTask.item
  OBVIOUS
<1>2. PICK t : t = x.timer
  OBVIOUS
<1>3. /\ swtTask.at = "check" /\ cb[t].life = x.life /\ creating' = creating
      /\ swtTask' = [at |-> "handler", item |-> x] /\ expired' = expired
      /\ IF cb[t].mode = "ONCE" THEN OsSwtmrDelete(t, cb[t]) ELSE UNCHANGED <<cb, free, lost>>
  BY <1>1, <1>2 DEF SwtmrTaskExpire
<1>4. t \in Timers /\ x \in SwtmrHandlerItem /\ x \in Unchecked
  BY <1>1, <1>2, <1>3, InHand DEF SwtmrIInv
<1>5. Unchecked' \subseteq Unchecked /\ Unchecked \subseteq Unchecked' \cup {x}
  BY <1>1, <1>3 DEF Unchecked
<1>6. swtTask' \in [at : {"check", "handler"}, item : SwtmrHandlerItem]
  BY <1>3, <1>4
<1>7. TimerOK(t) /\ Pending(t) /\ cb[t] \in Block
  BY <1>2, <1>3, <1>4 DEF SwtmrIInv, SwtmrTypeOK, Pending
<1>8. cb[t].state # "UNUSED" /\ (cb[t].mode = "ONCE" => ~cb[t].armed)
  BY <1>7 DEF TimerOK
<1>9. CASE cb[t].mode = "ONCE"
  <2>1. \A m \in Unchecked : m.timer # t => m \in Unchecked'
    BY <1>2, <1>5
  <2>2. OsSwtmrDelete(t, cb[t])
    BY <1>3, <1>9
  <2>3. /\ cb' \in [Timers -> Block] /\ free' \in Seq(Timers) /\ lost' \subseteq Timers
        /\ FreeOK'
        /\ \A u \in Timers : TimerOK(u)'
    BY <1>3, <1>4, <1>5, <1>7, <1>8, <1>9, <2>1, <2>2, DeleteStep
  <2> QED BY <1>3, <1>5, <1>6, <2>3 DEF SwtmrIInv, SwtmrTypeOK
<1>10. CASE cb[t].mode # "ONCE"
  <2>1. cb' = cb /\ free' = free /\ lost' = lost
    BY <1>3, <1>10
  <2>2. FreeOK' /\ \A u \in Timers : OnFree(u)' <=> OnFree(u)
    BY <1>3, <2>1 DEF SwtmrIInv, FreeOK, OnFree
  <2>3. ASSUME NEW u \in Timers PROVE TimerOK(u)'
    <3>1. CASE u # t
      <4>1. Pending(u)' <=> Pending(u)
        BY <1>2, <1>5, <2>1, <3>1 DEF Pending
      <4>2. IdUnused(u) => IdUnused(u)'
        BY <1>5, <2>1 DEF IdUnused
      <4> QED BY <2>1, <2>2, <4>1, <4>2 DEF SwtmrIInv, TimerOK
    <3>2. CASE u = t
      <4>1. IdUnused(t) => IdUnused(t)'
        BY <1>5, <2>1 DEF IdUnused
      <4> QED BY <1>4, <1>7, <1>8, <1>10, <2>1, <2>2, <3>2, <4>1 DEF TimerOK
    <3> QED BY <3>1, <3>2
  <2>4. SwtmrTypeOK'
    BY <1>3, <1>6, <2>1 DEF SwtmrIInv, SwtmrTypeOK
  <2> QED BY <1>5, <2>2, <2>3, <2>4 DEF SwtmrIInv
<1> QED BY <1>9, <1>10

LEMMA TaskReturnOK ==
    ASSUME SwtmrIInv, SwtmrTaskReturn
    PROVE  SwtmrIInv' /\ Unchecked' = Unchecked
<1>1. /\ swtTask.at = "handler" /\ swtTask' = [at |-> "read"]
      /\ cb' = cb /\ free' = free /\ creating' = creating /\ lost' = lost
      /\ expired' = expired
  BY DEF SwtmrTaskReturn
<1>2. Unchecked' = Unchecked
  BY <1>1 DEF Unchecked
<1>3. SwtmrTypeOK'
  BY <1>1 DEF SwtmrIInv, SwtmrTypeOK
<1>4. FreeOK' /\ \A u \in Timers : OnFree(u)' <=> OnFree(u)
  BY <1>1 DEF SwtmrIInv, FreeOK, OnFree
<1>5. \A u \in Timers : TimerOK(u)'
  BY <1>1, <1>2, <1>4, TimerFrame DEF SwtmrIInv
<1> QED BY <1>2, <1>3, <1>4, <1>5 DEF SwtmrIInv

-----------------------------------------------------------------------------
(***************************************************************************)
(* The theorems.                                                           *)
(***************************************************************************)
LEMMA SwtmrFrame ==
    ASSUME SwtmrIInv, UNCHANGED swtmrVars
    PROVE  SwtmrIInv'
<1>1. /\ cb' = cb /\ free' = free /\ creating' = creating /\ lost' = lost
      /\ expired' = expired /\ swtTask' = swtTask
  BY DEF swtmrVars
<1> QED BY <1>1 DEF SwtmrIInv, SwtmrTypeOK, FreeOK, OnFree, TimerOK, Pending, IdUnused, Unchecked

LEMMA SwtmrStepOK == ~RestartOnce /\ SwtmrIInv /\ [SwtmrNext]_swtmrVars => SwtmrIInv'
<1> SUFFICES ASSUME ~RestartOnce, SwtmrIInv, [SwtmrNext]_swtmrVars PROVE SwtmrIInv'
  OBVIOUS
<1>1. CASE UNCHANGED swtmrVars
  BY <1>1, SwtmrFrame
<1>2. CASE SwtmrCreateTake
  BY <1>2, CreateTakeOK
<1>3. ASSUME NEW t \in Timers, NEW mode \in TimerModes, NEW arg \in HandlerArgs,
             SwtmrCreateFill(t, mode, arg)
      PROVE  SwtmrIInv'
  BY <1>3, CreateFillOK, SwtmrAssumption
<1>4. ASSUME NEW t \in Timers, MayStart(t), LOS_SwtmrStart(t) PROVE SwtmrIInv'
  BY <1>4, StartTimerOK DEF MayStart
<1>5. ASSUME NEW t \in Timers, LOS_SwtmrStop(t) \/ LOS_SwtmrDelete(t) \/ OsSwtmrScan(t)
      PROVE  SwtmrIInv'
  BY <1>5, StopTimerOK, DeleteTimerOK, ScanOK
<1>6. CASE SwtmrTaskStep
  BY <1>6, TaskReadOK, TaskStaleOK, TaskExpireOK, TaskReturnOK DEF SwtmrTaskStep
<1> QED BY <1>1, <1>2, <1>3, <1>4, <1>5, <1>6 DEF SwtmrNext

\* No control block of a software timer is lost or given out twice, and the handler queue
\* keeps to its length, for every number of timers: LOS_SwtmrCreate takes, LOS_SwtmrDelete and
\* OsSwtmrTask give back, in any interleaving with expiries.
THEOREM BlocksKept == ~RestartOnce => (SwtmrSpec => []SwtmrInv)
<1> SUFFICES ASSUME ~RestartOnce PROVE SwtmrSpec => []SwtmrInv
  OBVIOUS
<1>1. SwtmrIInv => SwtmrInv
  BY FreeCount DEF SwtmrIInv, SwtmrInv
<1>2. SwtmrIInv /\ [SwtmrNext]_swtmrVars => SwtmrIInv'
  BY SwtmrStepOK
<1> QED BY <1>1, <1>2, SwtmrInitOK, PTL DEF SwtmrSpec

\* "The software timer is timing" (OS_SWTMR_STATUS_TICKING), for every number of timers and
\* every length of the handler queue.
THEOREM StatusTrue == ~RestartOnce => (SwtmrSpec => []TickingIsTiming)
<1> SUFFICES ASSUME ~RestartOnce PROVE SwtmrSpec => []TickingIsTiming
  OBVIOUS
<1>1. SwtmrIInv => TickingIsTiming
  BY DEF SwtmrIInv, TimerOK, TickingIsTiming
<1>2. SwtmrIInv /\ [SwtmrNext]_swtmrVars => SwtmrIInv'
  BY SwtmrStepOK
<1> QED BY <1>1, <1>2, SwtmrInitOK, PTL DEF SwtmrSpec

-----------------------------------------------------------------------------
(***************************************************************************)
(* The suspension.                                                         *)
(***************************************************************************)
PmRecord == [lock : 0..OS_PM_LOCK_MAX, pmMode : {"NORMAL"} \cup Modes,
             sysMode : {"NORMAL"} \cup Modes, isWake : BOOLEAN, nodes : SUBSET Nodes]

SuspensionType ==
    /\ pm \in PmRecord
    /\ sleep \in {"awake", "prepare", "ready", "asleep"}
    /\ devDown \in BOOLEAN /\ fault \in BOOLEAN

\* What each phase of OsPmSuspendSleep can rely on.
PhaseOK ==
    /\ sleep \in {"awake", "prepare"} => ~devDown
    /\ sleep = "awake" => pm.sysMode = "NORMAL"
    /\ "DEVICE" \in pm.nodes
    /\ "SHUTDOWN" \in {pm.pmMode, pm.sysMode} => "SYSCTRL" \in pm.nodes

SuspensionInv == SuspensionType /\ PhaseOK /\ NoSleepWhileLocked /\ NodesThere

\* A step of the lock interface changes the total only.
LockStep ==
    /\ \E n \in 0..OS_PM_LOCK_MAX : pm' = [pm EXCEPT !.lock = n]
    /\ UNCHANGED <<sleep, devDown, fault>>

LEMMA LockStepOK ==
    ASSUME SuspensionType, LockStep
    PROVE  /\ SuspensionType'
           /\ SuspensionInv /\ Alone => SuspensionInv'
<1>1. PICK n \in 0..OS_PM_LOCK_MAX : pm' = [pm EXCEPT !.lock = n]
  BY DEF LockStep
<1>2. /\ pm' \in PmRecord /\ pm'.pmMode = pm.pmMode /\ pm'.sysMode = pm.sysMode
      /\ pm'.nodes = pm.nodes /\ pm'.isWake = pm.isWake
  BY <1>1 DEF SuspensionType, PmRecord
<1>3. sleep' = sleep /\ devDown' = devDown /\ fault' = fault
  BY DEF LockStep
<1> QED
  BY <1>2, <1>3 DEF SuspensionType, SuspensionInv, PhaseOK, NoSleepWhileLocked, NodesThere, Alone

LEMMA SameTotal ==
    ASSUME SuspensionType, UNCHANGED <<pm, sleep, devDown, fault>>
    PROVE  LockStep
<1>1. pm.lock \in 0..OS_PM_LOCK_MAX /\ pm = [pm EXCEPT !.lock = pm.lock]
  BY DEF SuspensionType, PmRecord
<1> QED BY <1>1 DEF LockStep

LEMMA RequestTotal ==
    ASSUME SuspensionType, NEW c, NEW n, NEW id, OsPmLockRequest(c, n, id),
           UNCHANGED <<sleep, devDown, fault>>
    PROVE  LockStep
<1>1. pm.lock \in 0..OS_PM_LOCK_MAX /\ OS_PM_LOCK_MAX \in Nat
  BY PmAssumption DEF SuspensionType, PmRecord
<1>2. Counted(n, id).lock \in 0..OS_PM_LOCK_MAX
  BY <1>1 DEF Counted
<1> QED BY <1>2 DEF LockStep, OsPmLockRequest

LEMMA ReleaseTotal ==
    ASSUME SuspensionType, NEW c, NEW n, PmLockRelease(c, n), UNCHANGED <<sleep, devDown, fault>>
    PROVE  LockStep
<1>1. pm.lock \in 0..OS_PM_LOCK_MAX /\ OS_PM_LOCK_MAX \in Nat
  BY PmAssumption DEF SuspensionType, PmRecord
<1>2. CASE UNCHANGED pm
  BY <1>2, SameTotal
<1>3. CASE pm' = [pm EXCEPT !.lock = IF @ > 0 THEN @ - 1 ELSE 0]
  <2> DEFINE m == IF pm.lock > 0 THEN pm.lock - 1 ELSE 0
  <2>1. m \in 0..OS_PM_LOCK_MAX
    BY <1>1
  <2>2. pm' = [pm EXCEPT !.lock = m]
    BY <1>3 DEF SuspensionType, PmRecord
  <2> QED BY <2>1, <2>2 DEF LockStep
<1> QED BY <1>2, <1>3 DEF PmLockRelease

\* Every call of the lock interface, the timer task and the expiries.
LEMMA CallsAreLockSteps ==
    ASSUME SuspensionType,
           \/ \E c \in Callers : ReadLockList(c)
           \/ \E c \in Callers, n \in Names : \/ LOS_PmLockRequest(c, n)
                                              \/ LOS_PmLockRelease(c, n)
                                              \/ PmTimeLockCreate(c, n)
           \/ \E c \in Threads : CallStep(c)
           \/ TimerTaskStep
           \/ \E t \in Timers : Expiry(t)
    PROVE  LockStep
<1>1. ASSUME NEW c, NEW n, LOS_PmLockRequest(c, n) PROVE LockStep
  BY <1>1, RequestTotal, SameTotal DEF LOS_PmLockRequest, Walk
<1>2. ASSUME NEW c, NEW n, LOS_PmLockRelease(c, n) PROVE LockStep
  BY <1>2, ReleaseTotal, SameTotal DEF LOS_PmLockRelease, Walk
<1>3. ASSUME NEW c, NEW n, PmTimeLockCreate(c, n) PROVE LockStep
  BY <1>3, SameTotal DEF PmTimeLockCreate
<1>4. ASSUME NEW c, CallStep(c) PROVE LockStep
  <2>1. CASE PmLockFree(c)
    BY <2>1, SameTotal DEF PmLockFree
  <2>2. CASE LOS_PmLockRelease(c, thr[c].name)
    BY <2>2, <1>2
  <2>3. CASE PmTimeLockRequest(c)
    <3>1. CASE UNCHANGED pm
      BY <2>3, <3>1, SameTotal DEF PmTimeLockRequest
    <3>2. CASE \E n, id : OsPmLockRequest(c, n, id)
      BY <2>3, <3>2, RequestTotal DEF PmTimeLockRequest
    <3> QED BY <2>3, <3>1, <3>2 DEF PmTimeLockRequest, Walk
  <2>4. CASE PmTimeLockUndo(c)
    BY <2>4, SameTotal DEF PmTimeLockUndo
  <2>5. CASE PmTimeLockStart(c)
    BY <2>5, SameTotal DEF PmTimeLockStart
  <2>6. CASE ReadLockList(c)
    BY <2>6, SameTotal DEF ReadLockList
  <2> QED BY <1>4, <2>1, <2>2, <2>3, <2>4, <2>5, <2>6 DEF CallStep
<1>5. ASSUME TimerTaskStep PROVE LockStep
  <2>1. CASE UNCHANGED pmVars
    BY <2>1, SameTotal DEF pmVars
  <2>2. CASE OsPmSwtmrHandler
    BY <2>2, ReleaseTotal, SameTotal DEF OsPmSwtmrHandler, Walk
  <2>3. CASE PmSwtmrHandlerReturn
    BY <2>3, SameTotal DEF PmSwtmrHandlerReturn
  <2>4. CASE ReadLockList(SwtTask)
    BY <2>4, SameTotal DEF ReadLockList
  <2> QED BY <1>5, <2>1, <2>2, <2>3, <2>4 DEF TimerTaskStep
<1>6. ASSUME NEW t \in Timers, Expiry(t) PROVE LockStep
  BY <1>6, SameTotal DEF Expiry, pmVars
<1>7. ASSUME NEW c, ReadLockList(c) PROVE LockStep
  BY <1>7, SameTotal DEF ReadLockList
<1> QED BY <1>1, <1>2, <1>3, <1>4, <1>5, <1>6, <1>7

\* LOS_PmRegister, LOS_PmUnregister, LOS_PmModeSet and LOS_PmWakeSet.
LEMMA NodesOK ==
    ASSUME SuspensionType, Alone,
           \/ \E type \in Nodes : LOS_PmRegister(type) \/ LOS_PmUnregister(type)
           \/ \E mode \in Modes \cup {"NORMAL"} : LOS_PmModeSet(mode)
           \/ LOS_PmWakeSet
    PROVE  SuspensionType' /\ (~Unregister /\ SuspensionInv => SuspensionInv')
<1> USE DEF SuspensionType, SuspensionInv, PhaseOK, NoSleepWhileLocked, NodesThere, Alone, PmRecord
<1>1. ASSUME NEW type \in Nodes, LOS_PmRegister(type)
      PROVE  SuspensionType' /\ (~Unregister /\ SuspensionInv => SuspensionInv')
  BY <1>1 DEF LOS_PmRegister, NodesFree
<1>2. ASSUME NEW type \in Nodes, LOS_PmUnregister(type)
      PROVE  SuspensionType' /\ (~Unregister /\ SuspensionInv => SuspensionInv')
  <2>1. PICK md \in {"NORMAL", pm.pmMode} :
           /\ pm' = [pm EXCEPT !.nodes = @ \ {type}, !.pmMode = md]
           /\ md # "NORMAL" => md = "LIGHT"
    BY <1>2 DEF LOS_PmUnregister
  <2>2. NodesFree(type) /\ sleep' = sleep /\ devDown' = devDown /\ fault' = fault
    BY <1>2 DEF LOS_PmUnregister
  <2> QED BY <2>1, <2>2 DEF NodesFree
<1>3. ASSUME NEW mode \in Modes \cup {"NORMAL"}, LOS_PmModeSet(mode)
      PROVE  SuspensionType' /\ (~Unregister /\ SuspensionInv => SuspensionInv')
  BY <1>3 DEF LOS_PmModeSet
<1>4. ASSUME LOS_PmWakeSet
      PROVE  SuspensionType' /\ (~Unregister /\ SuspensionInv => SuspensionInv')
  BY <1>4 DEF LOS_PmWakeSet
<1> QED BY <1>1, <1>2, <1>3, <1>4

\* The phases of OsPmSuspendSleep.
LEMMA SleepStepsOK ==
    ASSUME SuspensionType, PmSuspendCheck \/ SleepStep
    PROVE  SuspensionType' /\ (~Unregister /\ SuspensionInv => SuspensionInv')
<1> USE DEF SuspensionType, SuspensionInv, PhaseOK, NoSleepWhileLocked, NodesThere, PmRecord
<1>1. CASE PmSuspendCheck
  <2>1. CASE pm.lock > 0
    BY <1>1, <2>1 DEF PmSuspendCheck
  <2>2. CASE ~(pm.lock > 0)
    BY <1>1, <2>2 DEF PmSuspendCheck
  <2> QED BY <2>1, <2>2
<1>2. ASSUME NEW prepared \in BOOLEAN, PmExit(prepared), sleep # "awake",
             prepared \/ sleep = "prepare"
      PROVE  SuspensionType' /\ (~Unregister /\ SuspensionInv => SuspensionInv')
  <2>1. pm' = [pm EXCEPT !.sysMode = "NORMAL"] /\ sleep' = "awake"
    BY <1>2 DEF PmExit
  <2>2. CASE prepared
    <3>1. devDown' = FALSE /\ fault' = (fault \/ "DEVICE" \notin pm.nodes)
      BY <1>2, <2>2 DEF PmExit
    <3>2. fault' \in BOOLEAN
      BY <3>1
    <3> QED BY <1>2, <2>1, <3>1, <3>2
  <2>3. CASE ~prepared
    <3>1. devDown' = devDown /\ fault' = fault /\ sleep = "prepare"
      BY <1>2, <2>3 DEF PmExit
    <3> QED BY <2>1, <3>1
  <2> QED BY <2>2, <2>3
<1>3. CASE PmSuspendPrepare
  <2>1. CASE PmExit(FALSE)
    BY <1>2, <1>3, <2>1 DEF PmSuspendPrepare
  <2>2. CASE devDown' = TRUE /\ sleep' = "ready" /\ UNCHANGED <<pm, fault>>
    BY <1>3, <2>2 DEF PmSuspendPrepare
  <2> QED BY <1>3, <2>1, <2>2 DEF PmSuspendPrepare
<1>4. CASE PmSleep
  <2>1. CASE MustStay
    BY <1>2, <1>4, <2>1 DEF PmSleep
  <2>2. CASE ~MustStay
    <3>1. PICK m \in {pm.sysMode, pm.pmMode, "NORMAL"} :
             /\ pm' = [pm EXCEPT !.sysMode = m]
             /\ fault' = (fault \/ (m = "SHUTDOWN" /\ "SYSCTRL" \notin pm.nodes))
      BY <1>4, <2>2 DEF PmSleep
    <3>2. sleep = "ready" /\ sleep' = "asleep" /\ devDown' = devDown
      BY <1>4, <2>2 DEF PmSleep
    <3>3. pm.lock = 0 /\ ~pm.isWake
      BY <2>2, PmAssumption DEF MustStay
    <3> QED BY <3>1, <3>2, <3>3
  <2> QED BY <2>1, <2>2
<1>5. CASE PmWake
  BY <1>2, <1>5 DEF PmWake
<1> QED BY <1>1, <1>3, <1>4, <1>5 DEF SleepStep

LEMMA SuspensionInit == PmInit => SuspensionType /\ (~Unregister => SuspensionInv)
<1> SUFFICES ASSUME PmInit PROVE SuspensionType /\ (~Unregister => SuspensionInv)
  OBVIOUS
<1>1. pm \in PmRecord
  BY PmAssumption DEF PmInit, PmRecord
<1> QED BY <1>1 DEF PmInit, SuspensionInv, SuspensionType, PhaseOK, NoSleepWhileLocked, NodesThere

LEMMA SuspensionStep ==
    ASSUME SuspensionType, [PmNext]_vars
    PROVE  SuspensionType' /\ (~Unregister /\ SuspensionInv => SuspensionInv')
<1>1. CASE UNCHANGED vars
  BY <1>1 DEF vars, pmVars, SuspensionType, SuspensionInv, PhaseOK, NoSleepWhileLocked, NodesThere
<1>2. CASE SleepStep \/ PmSuspendCheck
  BY <1>2, SleepStepsOK
<1>3. CASE Alone /\ (\/ \E type \in Nodes : LOS_PmRegister(type) \/ LOS_PmUnregister(type)
                     \/ \E mode \in Modes \cup {"NORMAL"} : LOS_PmModeSet(mode)
                     \/ LOS_PmWakeSet)
  BY <1>3, NodesOK
<1>4. ASSUME Alone,
             \/ \E c \in Callers : ReadLockList(c)
             \/ \E c \in Callers, n \in Names : \/ LOS_PmLockRequest(c, n)
                                                \/ LOS_PmLockRelease(c, n)
                                                \/ PmTimeLockCreate(c, n)
             \/ \E c \in Threads : CallStep(c)
             \/ TimerTaskStep
             \/ \E t \in Timers : Expiry(t)
      PROVE  SuspensionType' /\ (~Unregister /\ SuspensionInv => SuspensionInv')
  BY <1>4, CallsAreLockSteps, LockStepOK
<1>5. TimerTaskStep => Alone
  BY DEF TimerTaskStep
<1>6. \A t \in Timers : Expiry(t) => Alone
  BY DEF Expiry
<1> QED BY <1>1, <1>2, <1>3, <1>4, <1>5, <1>6 DEF PmNext

\* A suspension sleeps only if nobody holds a lock or has asked to stay awake, resumes the
\* device it has suspended on every way out, and uses no node that is not registered, for
\* every number of callers and locks and whatever happens while its callbacks run; if the
\* device is registered before the first suspension and is never unregistered, and the other
\* nodes come and go between suspensions only.
THEOREM SleepIsSafe == ~Unregister => (PmSpec => []SuspensionSafe)
<1> SUFFICES ASSUME ~Unregister PROVE PmSpec => []SuspensionSafe
  OBVIOUS
<1>1. SuspensionInv => SuspensionSafe
  BY DEF SuspensionInv, SuspensionSafe, PhaseOK, DeviceResumed
<1>2. SuspensionInv /\ [PmNext]_vars => SuspensionInv'
  BY SuspensionStep DEF SuspensionInv
<1> QED BY <1>1, <1>2, SuspensionInit, PTL DEF PmSpec

-----------------------------------------------------------------------------
(***************************************************************************)
(* The timers of delay locks.                                              *)
(***************************************************************************)
TimerId == Timers \X (0..(Lives - 1))

LockEntry == {NoLock} \cup [count : 1..OS_PM_LOCK_MAX, id : {NoTimer} \cup TimerId]

ThrState ==
    [at : {"idle", "done"}] \cup
    [at : {"fill"}, name : Names, timer : Timers] \cup
    [at : {"undo", "free"}, id : TimerId] \cup
    [at : {"start"}, id : TimerId, name : Names] \cup
    [at : {"release"}, name : Names] \cup
    [at : {"astray"}, id : {NoTimer} \cup TimerId]

\* Thread c is to start or delete the timer with this ID, or has gone astray with it.
Holds(c, id) == thr[c].at \in {"free", "undo", "start", "astray"} /\ thr[c].id = id

LockHas(n, id) == locks[n] # NoLock /\ locks[n].id = id

Known(id) == (\E n \in Names : LockHas(n, id)) \/ (\E c \in Threads : Holds(c, id))

\* Who knows IDs of timer u: nobody one of a life to come, and somebody that of a
\* timer which is neither running nor unused.
IdOK(u) ==
    /\ cb[u].mode = "ONCE"
    /\ cb[u].state = "UNUSED" => ~Known(<<u, cb[u].life>>)
    /\ ~OnFree(u) => ~Known(<<u, NextLife(cb[u].life)>>)
    /\ cb[u].state = "CREATED" => \E c \in Threads : Holds(c, <<u, cb[u].life>>)

\* A timer somebody is about to fill in is his; one he is about to start, if it still
\* exists, has never run.
CallOK(c) ==
    /\ thr[c].at = "fill" => thr[c].timer \in creating
    /\ thr[c].at = "start" /\ ValidTimer(thr[c].id)
         => ~cb[thr[c].id[1]].armed /\ ~Pending(thr[c].id[1])

CallsApart ==
    \A c, d \in Threads :
        c # d => /\ ~(thr[c].at = "fill" /\ thr[d].at = "fill" /\ thr[c].timer = thr[d].timer)
                 /\ ~(thr[c].at = "start" /\ thr[d].at = "start" /\ thr[c].id = thr[d].id)

TimersType == locks \in [Names -> LockEntry] /\ thr \in [Threads -> ThrState]

TimersInv ==
    /\ SwtmrIInv /\ TimersType
    /\ \A u \in Timers : IdOK(u)
    /\ \A c \in Threads : CallOK(c)
    /\ CallsApart

LEMMA KnownChar ==
    ASSUME TimersType
    PROVE  \A id : id \in KnownIds <=> Known(id)
<1>1. DOMAIN thr = Threads
  BY DEF TimersType
<1> QED BY <1>1 DEF KnownIds, Known, Holds, LockHas

LEMMA ThrType ==
    ASSUME TimersType, NEW c \in Threads
    PROVE  /\ thr[c] \in ThrState
           /\ thr[c].at = "fill" => thr[c].name \in Names /\ thr[c].timer \in Timers
           /\ thr[c].at \in {"free", "undo", "start"} => thr[c].id \in TimerId
           /\ thr[c].at \in {"start", "release"} => thr[c].name \in Names
  BY DEF TimersType, ThrState

\* A valid ID is that of the block as it is.
LEMMA IdOfTimer ==
    ASSUME NEW id \in TimerId
    PROVE  /\ id[1] \in Timers /\ id = <<id[1], id[2]>> /\ id # NoTimer
           /\ ValidTimer(id) <=> cb[id[1]].state # "UNUSED" /\ id = <<id[1], cb[id[1]].life>>
<1>1. id[1] \in Timers /\ id = <<id[1], id[2]>> /\ id # NoTimer
  BY DEF TimerId, NoTimer
<1> QED BY <1>1 DEF ValidTimer, Created

\* A step that starts nothing and creates nothing: timers stay as they are or are deleted,
\* and a thread that moves did not have to take care of a timer that stays CREATED.
LEMMA StepBack ==
    ASSUME TimersInv, SwtmrIInv', TimersType', creating' = creating,
           Unchecked' \subseteq Unchecked,
           \A u \in Timers :
              \/ cb'[u] = cb[u] /\ (OnFree(u)' <=> OnFree(u))
              \/ /\ cb[u].state # "UNUSED" /\ cb'[u].state = "UNUSED"
                 /\ cb'[u].life = NextLife(cb[u].life) /\ cb'[u].mode = cb[u].mode /\ OnFree(u)',
           \A d \in Threads :
              \/ thr'[d] = thr[d]
              \/ /\ thr'[d].at \notin {"fill", "start"}
                 /\ \A u \in Timers : cb[u].state = "CREATED" /\ cb'[u] = cb[u]
                                        => ~Holds(d, <<u, cb[u].life>>),
           \A id \in TimerId : Known(id)' => Known(id)
    PROVE  TimersInv'
<1>1. \A u \in Timers : IdOK(u) /\ cb[u].life \in 0..(Lives - 1)
  BY BlockType DEF TimersInv, SwtmrIInv
<1>2. ASSUME NEW u \in Timers PROVE IdOK(u)'
  <2>1. /\ <<u, cb[u].life>> \in TimerId /\ <<u, NextLife(cb[u].life)>> \in TimerId
    BY <1>1, LivesType DEF TimerId
  <2>2. CASE cb'[u] = cb[u] /\ (OnFree(u)' <=> OnFree(u))
    <3>1. ASSUME cb[u].state = "CREATED"
          PROVE  \E c \in Threads : Holds(c, <<u, cb[u].life>>)'
      <4>1. PICK c \in Threads : Holds(c, <<u, cb[u].life>>)
        BY <1>1, <3>1 DEF IdOK
      <4>2. thr'[c] = thr[c]
        BY <2>2, <3>1, <4>1
      <4> QED BY <2>2, <4>1, <4>2 DEF Holds
    <3> QED BY <1>1, <2>1, <2>2, <3>1 DEF IdOK
  <2>3. CASE /\ cb[u].state # "UNUSED" /\ cb'[u].state = "UNUSED"
             /\ cb'[u].life = NextLife(cb[u].life) /\ cb'[u].mode = cb[u].mode /\ OnFree(u)'
    <3>1. ~OnFree(u)
      BY <2>3 DEF TimersInv, SwtmrIInv, FreeOK
    <3> QED BY <1>1, <2>1, <2>3, <3>1 DEF IdOK
  <2> QED BY <2>2, <2>3
<1>3. ASSUME NEW c \in Threads PROVE CallOK(c)'
  <2>1. ASSUME thr'[c].at = "fill" PROVE thr'[c].timer \in creating'
    BY <2>1 DEF TimersInv, CallOK
  <2>2. ASSUME thr'[c].at = "start", ValidTimer(thr[c].id)', thr'[c] = thr[c]
        PROVE  ~cb'[thr[c].id[1]].armed /\ ~Pending(thr[c].id[1])'
    <3>1. thr[c].id \in TimerId
      BY <2>2, ThrType DEF TimersInv
    <3>2. PICK t \in Timers : t = thr[c].id[1]
      BY <3>1, IdOfTimer
    <3>3. cb'[t].state # "UNUSED" /\ cb'[t].life = thr[c].id[2]
      BY <2>2, <3>2 DEF ValidTimer, Created
    <3>4. cb'[t] = cb[t]
      BY <3>3
    <3>5. ValidTimer(thr[c].id)
      BY <2>2, <3>2, <3>4 DEF ValidTimer, Created
    <3>6. ~cb[t].armed /\ ~Pending(t)
      BY <2>2, <3>2, <3>5 DEF TimersInv, CallOK
    <3>7. ~Pending(t)'
      BY <3>4, <3>6 DEF Pending
    <3> QED BY <2>2, <3>2, <3>4, <3>6, <3>7 DEF Pending
  <2> QED BY <2>1, <2>2 DEF CallOK
<1>4. CallsApart'
  BY DEF TimersInv, CallsApart
<1> QED BY <1>2, <1>3, <1>4 DEF TimersInv

\* OsPmLockRequest changes the entry of the name, to one with the ID it had or with the
\* new one.
LEMMA RequestEntry ==
    ASSUME TimersType, NEW n \in Names, NEW c, NEW id \in {NoTimer} \cup TimerId,
           OsPmLockRequest(c, n, id)
    PROVE  /\ locks' \in [Names -> LockEntry]
           /\ \A m \in Names : \A i : LockHas(m, i)' => LockHas(m, i) \/ i = id
<1>1. locks[n] \in LockEntry /\ OS_PM_LOCK_MAX \in Nat /\ OS_PM_LOCK_MAX > 0
  BY PmAssumption DEF TimersType
<1>2. PICK e : e = Counted(n, id).entry
  OBVIOUS
<1>3. e \in LockEntry /\ (e.id = id \/ (locks[n] # NoLock /\ e.id = locks[n].id))
  BY <1>1, <1>2 DEF LockEntry, NoLock, Counted
<1>4. locks' = [locks EXCEPT ![n] = e]
  BY <1>2 DEF OsPmLockRequest
<1> QED BY <1>3, <1>4 DEF TimersType, LockHas

\* A walk without a timer at hand goes astray.
LEMMA StrayTimers ==
    ASSUME TimersInv, NEW c \in Threads, thr[c].at \in {"idle", "release"},
           UNCHANGED <<swtmrVars, locks>>, thr' = [thr EXCEPT ![c] = [at |-> "astray", id |-> NoTimer]]
    PROVE  TimersInv'
<1>1. PICK v : v = [at |-> "astray", id |-> NoTimer]
  OBVIOUS
<1>2. v \in ThrState /\ v.at = "astray" /\ v.id = NoTimer
  BY <1>1 DEF ThrState
<1>3. TimersType' /\ thr'[c] = v /\ \A d \in Threads : d # c => thr'[d] = thr[d]
  BY <1>1, <1>2 DEF TimersInv, TimersType
<1>4. SwtmrIInv'
  BY SwtmrFrame DEF TimersInv
<1>5. cb' = cb /\ free' = free /\ creating' = creating /\ Unchecked' = Unchecked
  BY DEF swtmrVars, Unchecked
<1>6. \A u \in Timers : OnFree(u)' <=> OnFree(u)
  BY <1>5 DEF OnFree
<1>7. \A id \in TimerId : Known(id)' => Known(id)
  BY <1>2, <1>3, IdOfTimer DEF Known, Holds, LockHas
<1>8. \A id : ~Holds(c, id)
  BY DEF Holds
<1> QED BY <1>2, <1>3, <1>4, <1>5, <1>6, <1>7, <1>8, StepBack

LEMMA LockRequestTimers ==
    ASSUME TimersInv, NEW c \in Callers, NEW n \in Names, LOS_PmLockRequest(c, n)
    PROVE  TimersInv'
<1>0. CASE /\ UNCHANGED <<swtmrVars, locks>>
           /\ thr' = [thr EXCEPT ![c] = [at |-> "astray", id |-> NoTimer]]
  <2>1. c \in Threads /\ thr[c].at = "idle"
    BY DEF LOS_PmLockRequest, Idle, Threads
  <2> QED BY <1>0, <2>1, StrayTimers
<1> SUFFICES ASSUME OsPmLockRequest(c, n, NoTimer), thr' = thr, UNCHANGED swtmrVars
             PROVE  TimersInv'
  BY <1>0 DEF LOS_PmLockRequest, Walk
<1>1. OsPmLockRequest(c, n, NoTimer) /\ thr' = thr /\ UNCHANGED swtmrVars
  OBVIOUS
<1>2. /\ locks' \in [Names -> LockEntry]
      /\ \A m \in Names : \A i : LockHas(m, i)' => LockHas(m, i) \/ i = NoTimer
  BY <1>1, RequestEntry DEF TimersInv
<1>3. SwtmrIInv'
  BY <1>1, SwtmrFrame DEF TimersInv
<1>4. /\ cb' = cb /\ free' = free /\ creating' = creating /\ Unchecked' = Unchecked
  BY <1>1 DEF swtmrVars, Unchecked
<1>5. \A u \in Timers : OnFree(u)' <=> OnFree(u)
  BY <1>4 DEF OnFree
<1>6. TimersType'
  BY <1>1, <1>2 DEF TimersInv, TimersType
<1>7. \A id \in TimerId : Known(id)' => Known(id)
  BY <1>1, <1>2, IdOfTimer DEF Known, Holds
<1> QED BY <1>1, <1>3, <1>4, <1>5, <1>6, <1>7, StepBack

\* The first section of LOS_PmLockRelease: the ID goes from the lock to the thread.
LEMMA ReleaseTimers ==
    ASSUME TimersInv, NEW c \in Threads, NEW n \in Names, PmLockRelease(c, n),
           thr[c].at \in {"idle", "release"}, UNCHANGED swtmrVars
    PROVE  TimersInv'
<1>1. SwtmrIInv'
  BY SwtmrFrame DEF TimersInv
<1>2. /\ cb' = cb /\ free' = free /\ creating' = creating /\ Unchecked' = Unchecked
  BY DEF swtmrVars, Unchecked
<1>3. \A u \in Timers : OnFree(u)' <=> OnFree(u)
  BY <1>2 DEF OnFree
<1>4. locks[n] \in LockEntry /\ OS_PM_LOCK_MAX \in Nat /\ locks \in [Names -> LockEntry]
  BY PmAssumption DEF TimersInv, TimersType
<1>5. PICK e, v : /\ locks' = [locks EXCEPT ![n] = e] /\ thr' = [thr EXCEPT ![c] = v]
                  /\ e \in LockEntry /\ v \in ThrState
                  /\ e = NoLock \/ (locks[n] # NoLock /\ e.id = locks[n].id)
                  /\ v.at \in {"idle", "done", "free"}
                  /\ v.at = "free" => locks[n] # NoLock /\ v.id = locks[n].id
  <2>1. End(c) \in ThrState /\ End(c).at \in {"idle", "done"}
    BY DEF End, ThrState
  <2>2. CASE Found(c, n) = NoLock
    <3>1. locks' = [locks EXCEPT ![n] = locks[n]] /\ thr' = [thr EXCEPT ![c] = End(c)]
      BY <1>4, <2>2 DEF PmLockRelease
    <3> QED BY <1>4, <2>1, <3>1
  <2>3. CASE Found(c, n) # NoLock
    <3>0. Found(c, n) = locks[n] /\ locks[n] # NoLock
      BY <2>3 DEF Found
    <3> DEFINE gone == locks[n].count = 1
               id == IF gone THEN locks[n].id ELSE NoTimer
               e == IF gone THEN NoLock ELSE [locks[n] EXCEPT !.count = @ - 1]
               v == IF id = NoTimer THEN End(c) ELSE [at |-> "free", id |-> id]
    <3>1. locks' = [locks EXCEPT ![n] = e] /\ thr' = [thr EXCEPT ![c] = v]
      <4>1. locks' = [locks EXCEPT ![n] = e]
        BY <3>0, Zenon DEF PmLockRelease
      <4>2. thr' = [thr EXCEPT ![c] = v]
        BY <3>0, Zenon DEF PmLockRelease
      <4> QED BY <4>1, <4>2
    <3>2. locks[n] \in [count : 1..OS_PM_LOCK_MAX, id : {NoTimer} \cup TimerId]
      BY <1>4, <3>0 DEF LockEntry
    <3>3. e \in LockEntry /\ (e = NoLock \/ e.id = locks[n].id)
      BY <1>4, <3>2 DEF LockEntry
    <3>4. id = NoTimer \/ (id \in TimerId /\ id = locks[n].id)
      BY <3>2
    <3>5. v \in ThrState /\ v.at \in {"idle", "done", "free"} /\ (v.at = "free" => v.id = locks[n].id)
      BY <2>1, <3>4 DEF ThrState
    <3> HIDE DEF e, v
    <3> QED BY <3>0, <3>1, <3>3, <3>5
  <2> QED BY <2>2, <2>3
<1>6. TimersType'
  BY <1>5 DEF TimersInv, TimersType
<1>7. thr'[c] = v /\ \A d \in Threads : d # c => thr'[d] = thr[d]
  BY <1>5 DEF TimersInv, TimersType
<1>8. \A id, u : ~Holds(c, id)
  BY DEF Holds
<1>9. locks'[n] = e /\ \A m \in Names : m # n => locks'[m] = locks[m]
  BY <1>4, <1>5
<1>10. ASSUME NEW id \in TimerId, Known(id)' PROVE Known(id)
  <2>1. ASSUME NEW m \in Names, LockHas(m, id)' PROVE LockHas(m, id)
    BY <1>5, <1>9, <2>1 DEF LockHas
  <2>2. ASSUME NEW d \in Threads, Holds(d, id)' PROVE Known(id)
    BY <1>5, <1>7, <2>2 DEF Holds, Known, LockHas
  <2> QED BY <1>10, <2>1, <2>2 DEF Known
<1>11. \A d \in Threads :
          \/ thr'[d] = thr[d]
          \/ /\ thr'[d].at \notin {"fill", "start"}
             /\ \A u \in Timers : cb[u].state = "CREATED" /\ cb'[u] = cb[u]
                                    => ~Holds(d, <<u, cb[u].life>>)
  BY <1>5, <1>7, <1>8
<1> QED BY <1>1, <1>2, <1>3, <1>6, <1>10, <1>11, StepBack

\* A thread ends its call with a timer: deletes it, or finds that it is gone.
LEMMA EndTimers ==
    ASSUME TimersInv, NEW c \in Threads, thr[c].at \in {"free", "undo"}, locks' = locks,
           thr' = [thr EXCEPT ![c] = End(c)],
           IF ValidTimer(thr[c].id) THEN LOS_SwtmrDelete(thr[c].id[1]) ELSE UNCHANGED swtmrVars
    PROVE  TimersInv'
<1>1. End(c) \in ThrState /\ End(c).at \in {"idle", "done"}
  BY DEF End, ThrState
<1>2. TimersType' /\ thr'[c] = End(c) /\ \A d \in Threads : d # c => thr'[d] = thr[d]
  BY <1>1 DEF TimersInv, TimersType
<1>3. thr[c].id \in TimerId
  BY ThrType DEF TimersInv
<1>4. PICK t \in Timers : t = thr[c].id[1]
  BY <1>3, IdOfTimer
<1>5. \A id \in TimerId : Known(id)' => Known(id)
  BY <1>1, <1>2 DEF Known, LockHas, Holds
<1>6. \A u \in Timers : cb[u].state = "CREATED" /\ Holds(c, <<u, cb[u].life>>)
                          => u = t /\ ValidTimer(thr[c].id)
  BY <1>3, <1>4, IdOfTimer DEF Holds
<1>7. CASE ValidTimer(thr[c].id)
  <2>1. LOS_SwtmrDelete(t)
    BY <1>4, <1>7
  <2>2. SwtmrIInv' /\ Unchecked' = Unchecked
    BY <2>1, DeleteTimerOK, UncheckedFrame DEF TimersInv, LOS_SwtmrDelete
  <2>3. PICK b : b = IF cb[t].state = "TICKING" THEN OsSwtmrStop(cb[t]) ELSE cb[t]
    OBVIOUS
  <2>4. /\ cb[t].state # "UNUSED" /\ OsSwtmrDelete(t, b) /\ creating' = creating
    BY <2>1, <2>3 DEF LOS_SwtmrDelete, Created
  <2>5. cb[t] \in Block
    BY DEF TimersInv, SwtmrIInv, SwtmrTypeOK
  <2>6. b \in Block /\ b.life = cb[t].life /\ b.mode = cb[t].mode
    BY <2>3, <2>5 DEF Block, OsSwtmrStop
  <2>7. /\ cb'[t] = [b EXCEPT !.life = NextLife(b.life), !.state = "UNUSED"]
        /\ \A u \in Timers : u # t => cb'[u] = cb[u] /\ (OnFree(u)' <=> OnFree(u))
        /\ OnFree(t)'
    BY <2>4, <2>6, DeleteFree DEF TimersInv, SwtmrIInv
  <2>8. /\ cb'[t].state = "UNUSED" /\ cb'[t].life = NextLife(cb[t].life)
        /\ cb'[t].mode = cb[t].mode
    BY <2>6, <2>7 DEF Block
  <2>9. cb'[t] # cb[t]
    BY <2>4, <2>8
  <2> QED BY <1>1, <1>2, <1>5, <1>6, <2>2, <2>4, <2>7, <2>8, <2>9, StepBack
<1>8. CASE ~ValidTimer(thr[c].id)
  <2>1. SwtmrIInv' /\ cb' = cb /\ free' = free /\ creating' = creating /\ Unchecked' = Unchecked
    BY <1>8, SwtmrFrame, UncheckedFrame DEF TimersInv, swtmrVars
  <2>2. \A u \in Timers : OnFree(u)' <=> OnFree(u)
    BY <2>1 DEF OnFree
  <2> QED BY <1>1, <1>2, <1>5, <1>6, <1>8, <2>1, <2>2, StepBack
<1> QED BY <1>7, <1>8

\* LOS_SwtmrCreate takes a block: with an ID to come that nobody knows.
LEMMA CreateTimers ==
    ASSUME TimersInv, NEW c \in Callers, NEW n \in Names, PmTimeLockCreate(c, n)
    PROVE  TimersInv'
<1>1. PICK t : t = Head(free)
  OBVIOUS
<1>2. /\ thr[c] = Idle /\ SwtmrCreateTake /\ <<t, NextLife(cb[t].life)>> \notin KnownIds
      /\ thr' = [thr EXCEPT ![c] = [at |-> "fill", name |-> n, timer |-> t]] /\ locks' = locks
  BY <1>1 DEF PmTimeLockCreate
<1>3. /\ SwtmrIInv'
      /\ t \in Timers /\ cb[t].state = "UNUSED" /\ t \notin creating
      /\ \A u \in Timers : OnFree(u)' <=> u # t /\ OnFree(u)
  BY <1>1, <1>2, CreateTakeOK DEF TimersInv
<1>4. cb' = cb /\ creating' = creating \cup {t} /\ Unchecked' = Unchecked
  BY <1>1, <1>2, UncheckedFrame DEF SwtmrCreateTake
<1>5. c \in Threads /\ [at |-> "fill", name |-> n, timer |-> t] \in ThrState
  BY <1>3 DEF Threads, ThrState
<1>6. /\ TimersType' /\ \A d \in Threads : d # c => thr'[d] = thr[d]
      /\ thr'[c] = [at |-> "fill", name |-> n, timer |-> t]
  BY <1>2, <1>5 DEF TimersInv, TimersType
<1>7. ~Known(<<t, NextLife(cb[t].life)>>)
  BY <1>2, KnownChar DEF TimersInv
<1>8. \A id : /\ \A d \in Threads : Holds(d, id)' <=> Holds(d, id)
              /\ Known(id)' <=> Known(id)
  <2>1. \A id : \A d \in Threads : Holds(d, id)' <=> Holds(d, id)
    BY <1>2, <1>6 DEF Holds, Idle
  <2> QED BY <1>2, <2>1 DEF Known, LockHas
<1>9. ASSUME NEW u \in Timers PROVE IdOK(u)'
  <2>1. IdOK(u)
    BY DEF TimersInv
  <2>3. Known(<<u, cb[u].life>>)' <=> Known(<<u, cb[u].life>>)
    BY <1>4, <1>8 DEF Known, LockHas, Holds
  <2>4. Known(<<u, NextLife(cb[u].life)>>)' <=> Known(<<u, NextLife(cb[u].life)>>)
    BY <1>4, <1>8 DEF Known, LockHas, Holds
  <2>5. \A d \in Threads : Holds(d, <<u, cb[u].life>>) => Holds(d, <<u, cb[u].life>>)'
    BY <1>4, <1>8 DEF Holds
  <2>6. ~OnFree(u)' => u = t \/ ~OnFree(u)
    BY <1>3
  <2> QED BY <1>4, <1>7, <2>1, <2>3, <2>4, <2>5, <2>6 DEF IdOK
<1>10. ASSUME NEW d \in Threads PROVE CallOK(d)'
  <2>1. CASE d = c
    BY <1>4, <1>6, <2>1 DEF CallOK
  <2>2. CASE d # c
    <3>1. CallOK(d) /\ thr'[d] = thr[d]
      BY <1>6, <2>2 DEF TimersInv
    <3> QED BY <1>4, <3>1 DEF CallOK, ValidTimer, Created, Pending
  <2> QED BY <2>1, <2>2
<1>11. CallsApart'
  BY <1>3, <1>6 DEF TimersInv, CallOK, CallsApart
<1> QED BY <1>3, <1>6, <1>9, <1>10, <1>11 DEF TimersInv

\* LOS_SwtmrCreate fills in the block, and OsPmLockRequest makes its ID known.
LEMMA FillTimers ==
    ASSUME TimersInv, NEW c \in Threads, PmTimeLockRequest(c)
    PROVE  TimersInv'
<1>1. thr[c].at = "fill" /\ thr[c].name \in Names /\ thr[c].timer \in Timers
  BY ThrType DEF TimersInv, PmTimeLockRequest
<1>2. PICK n \in Names, t \in Timers : n = thr[c].name /\ t = thr[c].timer
  BY <1>1
<1>3. PICK id : id = <<t, cb[t].life>>
  OBVIOUS
<1>4. /\ SwtmrCreateFill(t, "ONCE", n)
      /\ \/ thr' = [thr EXCEPT ![c] = [at |-> "undo", id |-> id]] /\ locks' = locks
         \/ thr' = [thr EXCEPT ![c] = [at |-> "astray", id |-> id]] /\ locks' = locks
         \/ /\ OsPmLockRequest(c, n, id)
            /\ \/ thr' = [thr EXCEPT ![c] = [at |-> "start", id |-> id, name |-> n]]
               \/ thr' = [thr EXCEPT ![c] = [at |-> "undo", id |-> id]]
  BY <1>2, <1>3 DEF PmTimeLockRequest, Walk
<1>5. SwtmrIInv'
  BY <1>4, CreateFillOK, PmAssumption DEF TimersInv
<1>6. /\ creating' = creating \ {t} /\ free' = free /\ Unchecked' = Unchecked
      /\ t \in creating /\ cb[t].state = "UNUSED" /\ ~OnFree(t)
  BY <1>4, UncheckedFrame DEF SwtmrCreateFill, TimersInv, SwtmrIInv, FreeOK
<1>7. /\ \A u \in Timers : u # t => cb'[u] = cb[u]
      /\ cb'[t].state = "CREATED" /\ cb'[t].mode = "ONCE" /\ cb'[t].life = cb[t].life
      /\ cb'[t].armed = cb[t].armed
  BY <1>4 DEF SwtmrCreateFill, TimersInv, SwtmrIInv, SwtmrTypeOK, Block
<1>8. \A u \in Timers : OnFree(u)' <=> OnFree(u)
  BY <1>6 DEF OnFree
<1>9. cb[t].life \in 0..(Lives - 1) /\ id \in TimerId /\ NextLife(cb[t].life) # cb[t].life
  BY <1>3, BlockType, LivesType DEF TimersInv, SwtmrIInv, TimerId
<1>10. ~cb[t].armed /\ ~Pending(t)
  BY <1>6 DEF TimersInv, SwtmrIInv, TimerOK
<1>11. ~Known(id)
  BY <1>3, <1>6 DEF TimersInv, IdOK
<1>12. PICK v : /\ thr' = [thr EXCEPT ![c] = v] /\ v \in ThrState
                /\ v.at \in {"undo", "start", "astray"} /\ v.id = id
  <2> DEFINE a == [at |-> "undo", id |-> id]
             b == [at |-> "start", id |-> id, name |-> n]
             e == [at |-> "astray", id |-> id]
  <2>1. /\ a \in ThrState /\ a.at = "undo" /\ a.id = id
        /\ b \in ThrState /\ b.at = "start" /\ b.id = id
        /\ e \in ThrState /\ e.at = "astray" /\ e.id = id
    BY <1>9 DEF ThrState
  <2>2. \/ thr' = [thr EXCEPT ![c] = a] \/ thr' = [thr EXCEPT ![c] = b]
        \/ thr' = [thr EXCEPT ![c] = e]
    BY <1>4
  <2> HIDE DEF a, b, e
  <2> QED BY <2>1, <2>2
<1>13. /\ locks' \in [Names -> LockEntry]
       /\ \A m \in Names : \A i : LockHas(m, i)' => LockHas(m, i) \/ i = id
  <2>1. CASE locks' = locks
    BY <2>1 DEF TimersInv, TimersType, LockHas
  <2>2. CASE OsPmLockRequest(c, n, id)
    BY <1>9, <2>2, RequestEntry DEF TimersInv
  <2> QED BY <1>4, <2>1, <2>2
<1>14. TimersType' /\ thr'[c] = v /\ \A d \in Threads : d # c => thr'[d] = thr[d]
  BY <1>12, <1>13 DEF TimersInv, TimersType
<1>15. \A i : /\ \A d \in Threads : Holds(d, i)' <=> Holds(d, i) \/ (d = c /\ i = id)
              /\ Known(i)' => Known(i) \/ i = id
  <2>1. \A i : \A d \in Threads : Holds(d, i)' <=> Holds(d, i) \/ (d = c /\ i = id)
    BY <1>1, <1>12, <1>14 DEF Holds
  <2> QED BY <1>13, <2>1 DEF Known
<1>16. ASSUME NEW u \in Timers PROVE IdOK(u)'
  <2>1. CASE u # t
    <3>1. cb'[u] = cb[u] /\ IdOK(u) /\ (OnFree(u)' <=> OnFree(u))
      BY <1>7, <1>8, <2>1 DEF TimersInv
    <3>2. \A x : <<u, x>> # id
      BY <1>3, <2>1
    <3>3. PICK i, j : i = <<u, cb[u].life>> /\ j = <<u, NextLife(cb[u].life)>>
      OBVIOUS
    <3>4. (Known(i)' => Known(i)) /\ (Known(j)' => Known(j))
      BY <1>15, <3>2, <3>3
    <3>5. \A d \in Threads : Holds(d, i) => Holds(d, i)'
      BY <1>15
    <3>6. /\ (cb[u].state = "UNUSED" => ~Known(i)) /\ (~OnFree(u) => ~Known(j))
          /\ cb[u].state = "CREATED" => \E d \in Threads : Holds(d, i)
      BY <3>1, <3>3 DEF IdOK
    <3>7. /\ i = <<u, cb'[u].life>> /\ j = <<u, NextLife(cb'[u].life)>>
      BY <3>1, <3>3
    <3> QED BY <3>1, <3>4, <3>5, <3>6, <3>7 DEF IdOK
  <2>2. CASE u = t
    <3>1. PICK j : j = <<t, NextLife(cb[t].life)>>
      OBVIOUS
    <3>2. j # id /\ ~Known(j)
      BY <1>3, <1>6, <1>9, <3>1 DEF TimersInv, IdOK
    <3>3. ~Known(j)' /\ Holds(c, id)'
      BY <1>15, <3>2
    <3>4. id = <<t, cb'[t].life>> /\ j = <<t, NextLife(cb'[t].life)>>
      BY <1>3, <1>7, <3>1
    <3> QED BY <1>7, <2>2, <3>3, <3>4 DEF IdOK
  <2> QED BY <2>1, <2>2
<1>17. ASSUME NEW d \in Threads, thr'[d].at = "start", d # c
       PROVE  thr[d].at = "start" /\ thr[d].id \in TimerId /\ thr[d].id # id
  <2>1. thr[d].at = "start" /\ thr[d].id \in TimerId
    BY <1>14, <1>17, ThrType DEF TimersInv
  <2> QED BY <1>11, <2>1 DEF Known, Holds
<1>18. ASSUME NEW d \in Threads PROVE CallOK(d)'
  <2>1. CASE d = c
    <3>1. thr'[d].at # "fill" /\ thr'[d].id = id /\ id[1] = t
      BY <1>3, <1>12, <1>14, <2>1
    <3>2. ~cb'[t].armed
      BY <1>7, <1>10
    <3>3. ~Pending(t)'
      BY <1>6, <1>7, <1>10 DEF Pending
    <3> QED BY <3>1, <3>2, <3>3 DEF CallOK, Pending
  <2>2. CASE d # c
    <3>1. CallOK(d) /\ thr'[d] = thr[d]
      BY <1>14, <2>2 DEF TimersInv
    <3>2. thr[d].at = "fill" => thr[d].timer \in creating'
      BY <1>1, <1>2, <1>6, <2>2, <3>1 DEF CallOK, TimersInv, CallsApart
    <3>3. ASSUME thr[d].at = "start", ValidTimer(thr[d].id)'
          PROVE  ~cb'[thr[d].id[1]].armed /\ ~Pending(thr[d].id[1])'
      <4>1. thr[d].id \in TimerId /\ thr[d].id # id
        BY <1>17, <2>2, <3>1, <3>3
      <4>2. PICK u \in Timers : u = thr[d].id[1] /\ thr[d].id = <<u, thr[d].id[2]>>
        BY <4>1, IdOfTimer
      <4>3. cb'[u].life = thr[d].id[2] /\ cb'[u].state # "UNUSED"
        BY <3>1, <3>3, <4>2 DEF ValidTimer, Created
      <4>4. u # t
        BY <1>3, <1>7, <4>1, <4>2, <4>3
      <4>5. cb'[u] = cb[u]
        BY <1>7, <4>4
      <4>6. ValidTimer(thr[d].id)
        BY <4>1, <4>2, <4>3, <4>5, IdOfTimer
      <4>7. ~cb[u].armed /\ ~Pending(u)
        BY <3>1, <3>3, <4>2, <4>6 DEF CallOK
      <4>8. ~Pending(u)'
        BY <1>6, <4>5, <4>7 DEF Pending
      <4> QED BY <3>1, <4>2, <4>5, <4>7, <4>8 DEF Pending
    <3> QED BY <3>1, <3>2, <3>3 DEF CallOK
  <2> QED BY <2>1, <2>2
<1>19. CallsApart'
  <2> SUFFICES ASSUME NEW d \in Threads, NEW e \in Threads, d # e
               PROVE  /\ ~(thr'[d].at = "fill" /\ thr'[e].at = "fill" /\ thr'[d].timer = thr'[e].timer)
                      /\ ~(thr'[d].at = "start" /\ thr'[e].at = "start" /\ thr'[d].id = thr'[e].id)
    BY DEF CallsApart
  <2>1. CASE d # c /\ e # c
    BY <1>14, <2>1 DEF TimersInv, CallsApart
  <2>2. CASE d = c \/ e = c
    BY <1>12, <1>14, <1>17, <2>2
  <2> QED BY <2>1, <2>2
<1> QED BY <1>5, <1>14, <1>16, <1>18, <1>19 DEF TimersInv

\* The creator starts the timer: nobody else has, or will.
LEMMA StartTimers ==
    ASSUME TimersInv, NEW c \in Threads, PmTimeLockStart(c)
    PROVE  TimersInv'
<1>1. thr[c].at = "start" /\ thr[c].id \in TimerId /\ thr[c].name \in Names /\ locks' = locks
  BY ThrType DEF TimersInv, PmTimeLockStart
<1>2. PICK t \in Timers : t = thr[c].id[1] /\ thr[c].id = <<t, thr[c].id[2]>>
  BY <1>1, IdOfTimer
<1>3. PICK v : /\ thr' = [thr EXCEPT ![c] = v] /\ v \in ThrState
               /\ v.at \in {"idle", "done", "release"}
  <2>1. End(c) \in ThrState /\ End(c).at \in {"idle", "done"}
    BY DEF End, ThrState
  <2> DEFINE r == [at |-> "release", name |-> thr[c].name]
  <2>2. r \in ThrState /\ r.at = "release"
    BY <1>1 DEF ThrState
  <2>3. thr' = [thr EXCEPT ![c] = End(c)] \/ thr' = [thr EXCEPT ![c] = r]
    BY DEF PmTimeLockStart
  <2> HIDE DEF r
  <2> QED BY <2>1, <2>2, <2>3
<1>4. TimersType' /\ thr'[c] = v /\ \A d \in Threads : d # c => thr'[d] = thr[d]
  BY <1>1, <1>3 DEF TimersInv, TimersType
<1>5. \A i : /\ \A d \in Threads : Holds(d, i)' <=> Holds(d, i) /\ d # c
             /\ Known(i)' => Known(i)
  <2>1. \A i : \A d \in Threads : Holds(d, i)' <=> Holds(d, i) /\ d # c
    BY <1>3, <1>4 DEF Holds
  <2> QED BY <1>1, <2>1 DEF Known, LockHas
<1>6. CASE ~ValidTimer(thr[c].id)
  <2>1. UNCHANGED swtmrVars
    BY <1>6 DEF PmTimeLockStart
  <2>2. SwtmrIInv' /\ cb' = cb /\ free' = free /\ creating' = creating /\ Unchecked' = Unchecked
    BY <2>1, SwtmrFrame, UncheckedFrame DEF TimersInv, swtmrVars
  <2>3. \A u \in Timers : OnFree(u)' <=> OnFree(u)
    BY <2>2 DEF OnFree
  <2>4. \A u \in Timers : cb[u].state = "CREATED" => ~Holds(c, <<u, cb[u].life>>)
    BY <1>1, <1>6, IdOfTimer DEF Holds
  <2> QED BY <1>3, <1>4, <1>5, <2>2, <2>3, <2>4, StepBack
<1>7. CASE ValidTimer(thr[c].id)
  <2>1. LOS_SwtmrStart(t)
    BY <1>2, <1>7 DEF PmTimeLockStart
  <2>2. thr[c].id = <<t, cb[t].life>>
    BY <1>1, <1>2, <1>7, IdOfTimer
  <2>3. ~Pending(t)
    BY <1>1, <1>2, <1>7 DEF TimersInv, CallOK
  <2>4. SwtmrIInv'
    BY <2>1, <2>3, StartTimerOK DEF TimersInv
  <2>5. /\ free' = free /\ creating' = creating /\ Unchecked' = Unchecked
        /\ cb[t].state # "UNUSED"
    BY <2>1, UncheckedFrame DEF LOS_SwtmrStart, Created
  <2>6. /\ \A u \in Timers : u # t => cb'[u] = cb[u]
        /\ cb'[t].state = "TICKING" /\ cb'[t].mode = cb[t].mode /\ cb'[t].life = cb[t].life
    BY <2>1 DEF LOS_SwtmrStart, OsSwtmrStart, OsSwtmrStop, TimersInv, SwtmrIInv, SwtmrTypeOK, Block
  <2>7. \A u \in Timers : OnFree(u)' <=> OnFree(u)
    BY <2>5 DEF OnFree
  <2>8. ASSUME NEW u \in Timers PROVE IdOK(u)'
    <3>1. IdOK(u)
      BY DEF TimersInv
    <3>2. PICK i, j : i = <<u, cb[u].life>> /\ j = <<u, NextLife(cb[u].life)>>
      OBVIOUS
    <3>3. i = <<u, cb'[u].life>> /\ j = <<u, NextLife(cb'[u].life)>>
      BY <2>6, <3>2
    <3>4. (Known(i)' => Known(i)) /\ (Known(j)' => Known(j))
      BY <1>5
    <3>5. u # t => ((\E d \in Threads : Holds(d, i)) => (\E d \in Threads : Holds(d, i)'))
      BY <1>2, <1>5, <3>2 DEF Holds
    <3>6. /\ (cb[u].state = "UNUSED" => ~Known(i)) /\ (~OnFree(u) => ~Known(j))
          /\ cb[u].mode = "ONCE"
          /\ cb[u].state = "CREATED" => \E d \in Threads : Holds(d, i)
      BY <3>1, <3>2 DEF IdOK
    <3> QED BY <2>5, <2>6, <2>7, <3>3, <3>4, <3>5, <3>6 DEF IdOK
  <2>9. ASSUME NEW d \in Threads PROVE CallOK(d)'
    <3>1. CASE d = c
      BY <1>3, <1>4, <3>1 DEF CallOK
    <3>2. CASE d # c
      <4>1. CallOK(d) /\ thr'[d] = thr[d]
        BY <1>4, <3>2 DEF TimersInv
      <4>2. ASSUME thr[d].at = "start", ValidTimer(thr[d].id)'
            PROVE  ~cb'[thr[d].id[1]].armed /\ ~Pending(thr[d].id[1])'
        <5>1. thr[d].id \in TimerId /\ thr[d].id # thr[c].id
          BY <1>1, <3>2, <4>2, ThrType DEF TimersInv, CallsApart
        <5>2. PICK u \in Timers : u = thr[d].id[1] /\ thr[d].id = <<u, thr[d].id[2]>>
          BY <5>1, IdOfTimer
        <5>3. cb'[u].life = thr[d].id[2] /\ cb'[u].state # "UNUSED"
          BY <4>1, <4>2, <5>2 DEF ValidTimer, Created
        <5>4. u # t
          BY <2>2, <2>6, <5>1, <5>2, <5>3
        <5>5. cb'[u] = cb[u]
          BY <2>6, <5>4
        <5>6. ValidTimer(thr[d].id)
          BY <5>1, <5>2, <5>3, <5>5, IdOfTimer
        <5>7. ~cb[u].armed /\ ~Pending(u)
          BY <4>1, <4>2, <5>2, <5>6 DEF CallOK
        <5>8. ~Pending(u)'
          BY <2>5, <5>5, <5>7 DEF Pending
        <5> QED BY <4>1, <5>2, <5>5, <5>7, <5>8 DEF Pending
      <4> QED BY <2>5, <4>1, <4>2 DEF CallOK
    <3> QED BY <3>1, <3>2
  <2>10. CallsApart'
    BY <1>3, <1>4 DEF TimersInv, CallsApart
  <2> QED BY <1>4, <2>4, <2>8, <2>9, <2>10 DEF TimersInv
<1> QED BY <1>6, <1>7

\* A timer that expires is running, so nobody is about to start it.
LEMMA ExpiryTimers ==
    ASSUME TimersInv, NEW t \in Timers, Expiry(t)
    PROVE  TimersInv'
<1>1. OsSwtmrScan(t) /\ locks' = locks /\ thr' = thr
  BY DEF Expiry, pmVars
<1>2. SwtmrIInv' /\ cb[t].armed /\ free' = free /\ creating' = creating /\ swtTask' = swtTask
  BY <1>1, ScanOK DEF TimersInv, OsSwtmrScan
<1>3. /\ \A u \in Timers : u # t => cb'[u] = cb[u]
      /\ cb'[t].state = cb[t].state /\ cb'[t].mode = cb[t].mode /\ cb'[t].life = cb[t].life
  <2>1. cb[t].mode = "ONCE" /\ cb[t] \in Block /\ cb \in [Timers -> Block]
    BY DEF TimersInv, IdOK, SwtmrIInv, SwtmrTypeOK
  <2>2. cb' = [cb EXCEPT ![t] = [cb[t] EXCEPT !.armed = FALSE]]
    BY <1>1, <2>1 DEF OsSwtmrScan, AfterExpiry
  <2> QED BY <2>1, <2>2 DEF Block
<1>4. \A m \in Unchecked' : m.timer # t => m \in Unchecked
  <2>1. CASE expired' = expired
    BY <1>2, <2>1, UncheckedFrame
  <2>2. PICK x : x = [timer |-> t, life |-> cb[t].life, arg |-> cb[t].arg]
    OBVIOUS
  <2>3. CASE expired' = Append(expired, x)
    <3>1. expired \in Seq(SwtmrHandlerItem) /\ x.timer = t
      BY <2>2 DEF TimersInv, SwtmrIInv, SwtmrTypeOK
    <3>2. x \in SwtmrHandlerItem
      BY <2>2, BlockType DEF TimersInv, SwtmrIInv, SwtmrHandlerItem
    <3>3. \A i \in DOMAIN expired' : expired'[i] = x \/ (i \in DOMAIN expired /\ expired'[i] = expired[i])
      BY <2>3, <3>1, <3>2, AppendProperties, LenProperties
    <3> QED BY <1>2, <3>1, <3>3 DEF Unchecked
  <2> QED BY <1>1, <2>1, <2>2, <2>3 DEF OsSwtmrScan
<1>5. ASSUME NEW u \in Timers PROVE IdOK(u)'
  <2>1. cb'[u].state = cb[u].state /\ cb'[u].mode = cb[u].mode /\ cb'[u].life = cb[u].life
    BY <1>3
  <2> QED BY <1>1, <1>2, <2>1 DEF TimersInv, IdOK, OnFree, Known, Holds, LockHas
<1>6. ASSUME NEW d \in Threads PROVE CallOK(d)'
  <2>1. ASSUME thr[d].at = "start", ValidTimer(thr[d].id)'
        PROVE  ~cb'[thr[d].id[1]].armed /\ ~Pending(thr[d].id[1])'
    <3>1. thr[d].id \in TimerId
      BY <2>1, ThrType DEF TimersInv
    <3>2. PICK u \in Timers : u = thr[d].id[1]
      BY <3>1, IdOfTimer
    <3>3. ValidTimer(thr[d].id)
      BY <1>1, <1>3, <2>1, <3>2 DEF ValidTimer, Created
    <3>4. ~cb[u].armed /\ ~Pending(u)
      BY <2>1, <3>2, <3>3 DEF TimersInv, CallOK
    <3>5. u # t /\ cb'[u] = cb[u]
      BY <1>2, <1>3, <3>4
    <3>6. ~Pending(u)'
      BY <1>4, <3>4, <3>5 DEF Pending
    <3> QED BY <1>1, <3>2, <3>4, <3>5, <3>6 DEF Pending
  <2> QED BY <1>1, <1>2, <2>1 DEF TimersInv, CallOK
<1>7. CallsApart' /\ TimersType'
  BY <1>1 DEF TimersInv, CallsApart, TimersType
<1> QED BY <1>2, <1>5, <1>6, <1>7 DEF TimersInv

LEMMA TimersFrame ==
    ASSUME TimersInv, UNCHANGED <<swtmrVars, locks, thr>>
    PROVE  TimersInv'
<1>1. /\ SwtmrIInv' /\ Unchecked' = Unchecked
      /\ cb' = cb /\ free' = free /\ creating' = creating /\ locks' = locks /\ thr' = thr
  BY SwtmrFrame, UncheckedFrame DEF TimersInv, swtmrVars
<1> QED BY <1>1, StepBack DEF TimersInv, TimersType, OnFree, Known, Holds, LockHas

\* The timer task reads a message, drops it, or deletes its timer and calls the handler.
LEMMA TaskTimers ==
    ASSUME TimersInv, TimerTaskStep
    PROVE  TimersInv'
<1>1. SwtTask \in Threads
  BY DEF Threads
<1>2. CASE SwtmrTaskRead /\ UNCHANGED pmVars
  <2>1. /\ SwtmrIInv' /\ Unchecked' = Unchecked
        /\ cb' = cb /\ free' = free /\ creating' = creating /\ locks' = locks /\ thr' = thr
    BY <1>2, TaskReadOK DEF TimersInv, SwtmrTaskRead, pmVars
  <2> QED BY <2>1, StepBack DEF TimersInv, TimersType, OnFree, Known, Holds, LockHas
<1>3. CASE SwtmrTaskStale /\ UNCHANGED pmVars
  <2>1. /\ SwtmrIInv' /\ Unchecked' \subseteq Unchecked
        /\ cb' = cb /\ free' = free /\ creating' = creating /\ locks' = locks /\ thr' = thr
    BY <1>3, TaskStaleOK DEF TimersInv, SwtmrTaskStale, pmVars, Unchecked
  <2> QED BY <2>1, StepBack DEF TimersInv, TimersType, OnFree, Known, Holds, LockHas
<1>4. CASE SwtmrTaskExpire /\ UNCHANGED pmVars
  <2>1. /\ SwtmrIInv' /\ Unchecked' \subseteq Unchecked /\ creating' = creating
        /\ locks' = locks /\ thr' = thr
    BY <1>4, TaskExpireOK DEF TimersInv, SwtmrTaskExpire, pmVars
  <2>2. swtTask.item \in Unchecked /\ swtTask.item.timer \in Timers
    BY <1>4, InHand DEF SwtmrTaskExpire, TimersInv, SwtmrIInv
  <2>3. PICK t \in Timers : t = swtTask.item.timer
    BY <2>2
  <2>4. cb[t].mode = "ONCE" /\ cb[t].life = swtTask.item.life /\ OsSwtmrDelete(t, cb[t])
    BY <1>4, <2>3 DEF TimersInv, IdOK, SwtmrTaskExpire
  <2>5. cb[t].state # "UNUSED" /\ cb[t] \in Block
    BY <2>2, <2>3, <2>4 DEF Pending, TimersInv, SwtmrIInv, SwtmrTypeOK, TimerOK
  <2>6. /\ cb'[t] = [cb[t] EXCEPT !.life = NextLife(cb[t].life), !.state = "UNUSED"]
        /\ \A u \in Timers : u # t => cb'[u] = cb[u] /\ (OnFree(u)' <=> OnFree(u))
        /\ OnFree(t)'
    BY <2>1, <2>4, <2>5, DeleteFree DEF TimersInv, SwtmrIInv
  <2>7. /\ cb'[t].state = "UNUSED" /\ cb'[t].life = NextLife(cb[t].life)
        /\ cb'[t].mode = cb[t].mode
    BY <2>5, <2>6 DEF Block
  <2>8. TimersType' /\ \A id : Known(id)' => Known(id)
    BY <2>1 DEF TimersInv, TimersType, Known, Holds, LockHas
  <2> QED BY <2>1, <2>5, <2>6, <2>7, <2>8, StepBack
<1>5. CASE OsPmSwtmrHandler
  <2>1. swtTask.item.arg \in Names
    BY <1>5, PmAssumption DEF OsPmSwtmrHandler, TimersInv, SwtmrIInv, SwtmrTypeOK, SwtmrHandlerItem
  <2>2. thr[SwtTask].at = "idle" /\ UNCHANGED swtmrVars
    BY <1>5 DEF OsPmSwtmrHandler, Idle
  <2>3. CASE PmLockRelease(SwtTask, swtTask.item.arg)
    BY <1>1, <2>1, <2>2, <2>3, ReleaseTimers
  <2>4. CASE locks' = locks /\ thr' = [thr EXCEPT ![SwtTask] = [at |-> "astray", id |-> NoTimer]]
    BY <1>1, <2>2, <2>4, StrayTimers
  <2> QED BY <1>5, <2>3, <2>4 DEF OsPmSwtmrHandler, Walk
<1>6. CASE PmSwtmrHandlerReturn
  <2>1. /\ SwtmrIInv' /\ Unchecked' = Unchecked
        /\ cb' = cb /\ free' = free /\ creating' = creating /\ locks' = locks
        /\ thr' = [thr EXCEPT ![SwtTask] = Idle] /\ thr[SwtTask].at = "done"
    BY <1>6, TaskReturnOK DEF TimersInv, PmSwtmrHandlerReturn, SwtmrTaskReturn
  <2>2. Idle \in ThrState
    BY DEF Idle, ThrState
  <2>3. TimersType' /\ thr'[SwtTask] = Idle /\ \A d \in Threads : d # SwtTask => thr'[d] = thr[d]
    BY <1>1, <2>1, <2>2 DEF TimersInv, TimersType
  <2>4. \A id \in TimerId : Known(id)' => Known(id)
    BY <2>1, <2>3 DEF Known, Holds, LockHas, Idle
  <2>5. \A id : ~Holds(SwtTask, id)
    BY <2>1 DEF Holds
  <2>6. \A u \in Timers : OnFree(u)' <=> OnFree(u)
    BY <2>1 DEF OnFree
  <2>7. Idle.at = "idle"
    BY DEF Idle
  <2> QED BY <2>1, <2>3, <2>4, <2>5, <2>6, <2>7, StepBack
<1>7. CASE ReadLockList(SwtTask)
  BY <1>7, TimersFrame DEF ReadLockList
<1> QED BY <1>2, <1>3, <1>4, <1>5, <1>6, <1>7 DEF TimerTaskStep

LEMMA TimersInit == PmInit => TimersInv
<1> SUFFICES ASSUME PmInit PROVE TimersInv
  OBVIOUS
<1>1. SwtmrIInv
  BY SwtmrInitOK DEF PmInit
<1>2. TimersType
  <2>1. NoLock \in LockEntry /\ Idle \in ThrState
    BY DEF LockEntry, Idle, ThrState
  <2> QED BY <2>1 DEF PmInit, TimersType, Threads
<1>3. \A c \in Threads : thr[c].at = "idle"
  BY DEF PmInit, Threads, Idle
<1>4. \A id : ~Known(id)
  BY <1>3 DEF PmInit, Known, Holds, LockHas
<1>5. \A u \in Timers : cb[u].mode = "ONCE" /\ cb[u].state = "UNUSED"
  BY DEF PmInit, SwtmrInit
<1> QED BY <1>1, <1>2, <1>3, <1>4, <1>5 DEF TimersInv, IdOK, CallOK, CallsApart

LEMMA TimersStep == TimersInv /\ [PmNext]_vars => TimersInv'
<1> SUFFICES ASSUME TimersInv, [PmNext]_vars PROVE TimersInv'
  OBVIOUS
<1>1. \A c \in Callers : c \in Threads
  BY DEF Threads
<1>2. CASE UNCHANGED vars
  BY <1>2, TimersFrame DEF vars, pmVars
<1>3. ASSUME NEW c \in Callers, NEW n \in Names, LOS_PmLockRequest(c, n) PROVE TimersInv'
  BY <1>3, LockRequestTimers
<1>4. ASSUME NEW c \in Threads, NEW n \in Names, LOS_PmLockRelease(c, n) PROVE TimersInv'
  <2>1. thr[c].at \in {"idle", "release"} /\ UNCHANGED swtmrVars
    BY <1>4 DEF LOS_PmLockRelease, Idle
  <2>2. CASE PmLockRelease(c, n)
    BY <2>1, <2>2, ReleaseTimers
  <2>3. CASE locks' = locks /\ thr' = [thr EXCEPT ![c] = [at |-> "astray", id |-> NoTimer]]
    BY <2>1, <2>3, StrayTimers
  <2> QED BY <1>4, <2>2, <2>3 DEF LOS_PmLockRelease, Walk
<1>5. ASSUME NEW c \in Callers, NEW n \in Names, PmTimeLockCreate(c, n) PROVE TimersInv'
  BY <1>5, CreateTimers
<1>6. ASSUME NEW c \in Threads, CallStep(c) PROVE TimersInv'
  <2>1. CASE PmLockFree(c)
    BY <2>1, EndTimers DEF PmLockFree
  <2>2. CASE thr[c].at = "release" /\ LOS_PmLockRelease(c, thr[c].name)
    <3>1. thr[c].name \in Names
      BY <2>2, ThrType DEF TimersInv
    <3> QED BY <1>4, <2>2, <3>1
  <2>3. CASE PmTimeLockRequest(c)
    BY <2>3, FillTimers
  <2>4. CASE PmTimeLockUndo(c)
    BY <2>4, EndTimers DEF PmTimeLockUndo
  <2>5. CASE PmTimeLockStart(c)
    BY <2>5, StartTimers
  <2>6. CASE ReadLockList(c)
    BY <2>6, TimersFrame DEF ReadLockList
  <2> QED BY <1>6, <2>1, <2>2, <2>3, <2>4, <2>5, <2>6 DEF CallStep
<1>7. CASE UNCHANGED <<swtmrVars, locks, thr>>
  BY <1>7, TimersFrame
<1>8. ASSUME NEW type, LOS_PmRegister(type) \/ LOS_PmUnregister(type) PROVE TimersInv'
  BY <1>7, <1>8 DEF LOS_PmRegister, LOS_PmUnregister
<1>9. ASSUME NEW mode, LOS_PmModeSet(mode) PROVE TimersInv'
  BY <1>7, <1>9 DEF LOS_PmModeSet
<1>10. CASE LOS_PmWakeSet \/ PmSuspendCheck \/ SleepStep
  BY <1>7, <1>10 DEF LOS_PmWakeSet, PmSuspendCheck, SleepStep, PmSuspendPrepare, PmSleep, PmWake
<1>11. ASSUME NEW c, ReadLockList(c) PROVE TimersInv'
  BY <1>7, <1>11 DEF ReadLockList
<1> QED
  BY <1>1, <1>2, <1>3, <1>4, <1>5, <1>6, <1>8, <1>9, <1>10, <1>11, TaskTimers, ExpiryTimers DEF PmNext, Threads

\* What has been read of the list of locks.
SeenOK == seen \in [Threads -> {"unread", "head", "node", "deleted"}]

LEMMA SeenStep == SeenOK /\ [PmNext]_vars => SeenOK'
<1> SUFFICES ASSUME SeenOK, [PmNext]_vars PROVE SeenOK'
  OBVIOUS
<1>1. CASE UNCHANGED seen
  BY <1>1 DEF SeenOK
<1>2. ASSUME NEW c, ReadLockList(c) PROVE SeenOK'
  BY <1>2 DEF SeenOK, ReadLockList
<1>3. ASSUME NEW c, NEW deleted, WalkEnds(c, deleted) PROVE SeenOK'
  BY <1>3 DEF SeenOK, WalkEnds
<1>4. ASSUME NEW c, NEW n, NEW id, OsPmLockRequest(c, n, id) PROVE SeenOK'
  BY <1>3, <1>4 DEF OsPmLockRequest
<1>5. ASSUME NEW c, NEW n, PmLockRelease(c, n) PROVE SeenOK'
  BY <1>3, <1>5 DEF PmLockRelease
<1>6. ASSUME NEW c, NEW n, LOS_PmLockRequest(c, n) PROVE SeenOK'
  BY <1>3, <1>4, <1>6 DEF LOS_PmLockRequest, Walk
<1>7. ASSUME NEW c, NEW n, LOS_PmLockRelease(c, n) PROVE SeenOK'
  BY <1>3, <1>5, <1>7 DEF LOS_PmLockRelease, Walk
<1>8. ASSUME NEW c, NEW n, PmTimeLockCreate(c, n) PROVE SeenOK'
  BY <1>1, <1>8 DEF PmTimeLockCreate
<1>9. ASSUME NEW c, CallStep(c) PROVE SeenOK'
  <2>1. CASE PmTimeLockRequest(c)
    BY <1>3, <1>4, <2>1 DEF PmTimeLockRequest, Walk
  <2>2. CASE PmLockFree(c) \/ PmTimeLockUndo(c) \/ PmTimeLockStart(c)
    BY <1>1, <2>2 DEF PmLockFree, PmTimeLockUndo, PmTimeLockStart
  <2> QED BY <1>2, <1>7, <1>9, <2>1, <2>2 DEF CallStep
<1>10. CASE TimerTaskStep
  <2>1. CASE OsPmSwtmrHandler
    BY <1>3, <1>5, <2>1 DEF OsPmSwtmrHandler, Walk
  <2>2. CASE UNCHANGED pmVars \/ PmSwtmrHandlerReturn
    BY <1>1, <2>2 DEF pmVars, PmSwtmrHandlerReturn
  <2> QED BY <1>2, <1>10, <2>1, <2>2 DEF TimerTaskStep
<1>11. ASSUME NEW t, Expiry(t) PROVE SeenOK'
  BY <1>1, <1>11 DEF Expiry, pmVars
<1>12. ASSUME NEW type, LOS_PmRegister(type) \/ LOS_PmUnregister(type) PROVE SeenOK'
  BY <1>1, <1>12 DEF LOS_PmRegister, LOS_PmUnregister
<1>13. ASSUME NEW mode, LOS_PmModeSet(mode) PROVE SeenOK'
  BY <1>1, <1>13 DEF LOS_PmModeSet
<1>14. CASE LOS_PmWakeSet \/ PmSuspendCheck \/ SleepStep
  BY <1>1, <1>14 DEF LOS_PmWakeSet, PmSuspendCheck, SleepStep, PmSuspendPrepare, PmSleep, PmWake
<1>15. CASE UNCHANGED vars
  BY <1>1, <1>15 DEF vars, pmVars
<1> QED
  BY <1>2, <1>6, <1>7, <1>8, <1>9, <1>10, <1>11, <1>12, <1>13, <1>14, <1>15 DEF PmNext

\* Types of the power management: the counts of locks stay within 16 bits, and whatever a
\* thread, a lock or a message refers to exists.
THEOREM PmTyped == PmSpec => []PmTypeOK
<1> DEFINE Inv == SuspensionType /\ TimersInv /\ SeenOK
<1>1. PmInit => Inv
  BY SuspensionInit, TimersInit DEF PmInit, SeenOK
<1>2. Inv /\ [PmNext]_vars => Inv'
  BY SuspensionStep, TimersStep, SeenStep
<1>3. Inv => PmTypeOK
  <2> SUFFICES ASSUME Inv PROVE PmTypeOK
    OBVIOUS
  <2>1. LockEntry \subseteq {NoLock} \cup
                  [count : 1..OS_PM_LOCK_MAX, id : {NoTimer} \cup (Timers \X (0..Lives))]
    BY SwtmrAssumption DEF LockEntry, TimerId
  <2> QED BY <2>1 DEF PmTypeOK, SuspensionType, PmRecord, TimersInv, TimersType, SwtmrIInv, SeenOK
<1> HIDE DEF Inv
<1> QED BY <1>1, <1>2, <1>3, PTL DEF PmSpec

\* The timers of delay locks are neither lost nor leaked nor freed twice, for every number
\* of callers, names and timers: requests that fail half way, releases that come before
\* the timer is started, and expiries in any order.
THEOREM DelayTimersKept == PmSpec => []TimersKept
<1>1. TimersInv => TimersKept
  <2> SUFFICES ASSUME TimersInv PROVE TimersKept
    OBVIOUS
  <2>1. EachBlockOnce
    BY FreeCount DEF TimersInv
  <2>2. ASSUME NEW t \in Timers, cb[t].state = "CREATED"
        PROVE  \E c \in Threads :
                  thr[c].at \in {"undo", "start", "free", "astray"} /\ thr[c].id # NoTimer /\ thr[c].id[1] = t
    <3>1. PICK c \in Threads : Holds(c, <<t, cb[t].life>>)
      BY <2>2 DEF TimersInv, IdOK
    <3> QED BY <3>1 DEF Holds, NoTimer
  <2> QED BY <2>1, <2>2 DEF TimersKept, NoStrayTimer, Threads
<1> QED BY <1>1, TimersInit, TimersStep, PTL DEF PmSpec

-----------------------------------------------------------------------------
(***************************************************************************)
(* The total of the locks.  LockTotal folds over the names, one by one in  *)
(* an order that CHOOSE fixes; what a change of one count does to the fold *)
(* is shown by induction on the size of the set, as the absence of a       *)
(* smallest counterexample.                                                *)
(***************************************************************************)
LEMMA SmallestNat ==
    ASSUME NEW T, T \subseteq Nat, T # {}
    PROVE  \E x \in T : \A y \in T : x <= y
<1>1. IsWellFoundedOn(OpToRel(<, Nat), Nat)
  BY NatLessThanWellFounded
<1>2. PICK x \in T : \A y \in T : ~(<<y, x>> \in OpToRel(<, Nat))
  BY <1>1, WFMin
<1>3. \A y \in T : ~(y < x)
  BY <1>2 DEF OpToRel
<1> QED BY <1>3

Total(f) == FoldFunctionOnSet(LAMBDA l, sum : l.count + sum, 0, f, Names)

Choice(s) == CHOOSE x \in s : TRUE

\* The sets of at most n names, and the fold over them.
Small(n) == {s \in SUBSET Names : Cardinality(s) <= n}

Sums(g, f, D) ==
    g = [s \in D |-> IF s = {} THEN 0 ELSE f[Choice(s)].count + g[s \ {Choice(s)}]]

LEMMA OneLess ==
    ASSUME NEW s \in SUBSET Names
    PROVE  /\ IsFiniteSet(s) /\ Cardinality(s) \in Nat /\ (Cardinality(s) = 0 <=> s = {})
           /\ s # {} => /\ Choice(s) \in s /\ s \ {Choice(s)} \in SUBSET Names
                        /\ Cardinality(s \ {Choice(s)}) = Cardinality(s) - 1
<1>1. IsFiniteSet(s) /\ Cardinality(s) \in Nat
  BY PmAssumption, FS_Subset, FS_CardinalityType
<1>2. Cardinality(s) = 0 <=> s = {}
  BY <1>1, FS_EmptySet
<1>3. s # {} => Choice(s) \in s
  BY DEF Choice
<1>4. \A x \in s : Cardinality(s \ {x}) = Cardinality(s) - 1
  BY <1>1, FS_RemoveElement
<1> QED BY <1>1, <1>2, <1>3, <1>4

LEMMA SumsExist ==
    ASSUME NEW f, NEW n \in Nat
    PROVE  \E g : Sums(g, f, Small(n))
<1> DEFINE T == {m \in Nat : ~ \E g : Sums(g, f, Small(m))}
<1> SUFFICES ASSUME T # {} PROVE FALSE
  OBVIOUS
<1>1. PICK m \in T : \A y \in T : m <= y
  <2>1. T \subseteq Nat
    OBVIOUS
  <2> HIDE DEF T
  <2> QED BY <2>1, SmallestNat
<1>2. CASE m = 0
  <2> DEFINE g == [s \in Small(0) |-> 0]
  <2>1. \A s \in Small(0) : s = {}
    <3>1. ASSUME NEW s \in Small(0) PROVE s = {}
      <4>1. s \in SUBSET Names /\ Cardinality(s) <= 0
        BY DEF Small
      <4>2. Cardinality(s) \in Nat /\ (Cardinality(s) = 0 <=> s = {})
        BY <4>1, OneLess
      <4> QED BY <4>1, <4>2
    <3> QED BY <3>1
  <2>2. Sums(g, f, Small(0))
    BY <2>1 DEF Sums
  <2> QED BY <1>1, <1>2, <2>2
<1>3. CASE m # 0
  <2>1. m - 1 \in Nat /\ m - 1 \notin T
    BY <1>1, <1>3
  <2>2. PICK g : Sums(g, f, Small(m - 1))
    BY <2>1
  <2> DEFINE Next_(s) == f[Choice(s)].count + g[s \ {Choice(s)}]
             h == [s \in Small(m) |-> IF s = {} THEN 0 ELSE Next_(s)]
  <2>3. ASSUME NEW s \in Small(m), s # {}
        PROVE  s \ {Choice(s)} \in Small(m - 1) /\ s \ {Choice(s)} \in Small(m)
    <3>1. s \in SUBSET Names /\ Cardinality(s) <= m
      BY DEF Small
    <3>2. /\ s \ {Choice(s)} \in SUBSET Names /\ Cardinality(s \ {Choice(s)}) = Cardinality(s) - 1
          /\ Cardinality(s) \in Nat
      BY <2>3, <3>1, OneLess
    <3>3. Cardinality(s \ {Choice(s)}) <= m - 1 /\ Cardinality(s \ {Choice(s)}) <= m
      BY <1>1, <3>1, <3>2
    <3> QED BY <3>2, <3>3 DEF Small
  <2>4. \A s \in Small(m) : s \in Small(m - 1) => h[s] = g[s]
    BY <2>2 DEF Sums
  <2>5. \A s \in Small(m) : h[s] = IF s = {} THEN 0 ELSE f[Choice(s)].count + h[s \ {Choice(s)}]
    BY <2>3, <2>4
  <2>6. h = [s \in Small(m) |-> IF s = {} THEN 0 ELSE f[Choice(s)].count + h[s \ {Choice(s)}]]
    BY <2>5
  <2> HIDE DEF h
  <2>7. Sums(h, f, Small(m))
    BY <2>6 DEF Sums
  <2> QED BY <1>1, <2>7
<1> QED BY <1>2, <1>3

LEMMA TotalIs ==
    ASSUME NEW f
    PROVE  \E g : Sums(g, f, SUBSET Names) /\ Total(f) = g[Names]
<1> DEFINE g == CHOOSE h : Sums(h, f, SUBSET Names)
<1>1. \E h : Sums(h, f, SUBSET Names)
  <2>1. PICK n \in Nat : n = Cardinality(Names)
    BY PmAssumption, FS_CardinalityType
  <2>2. \A s \in SUBSET Names : Cardinality(s) <= n
    BY <2>1, PmAssumption, FS_Subset
  <2>3. Small(n) = SUBSET Names
    BY <2>2 DEF Small
  <2>4. PICK h : Sums(h, f, Small(n))
    BY SumsExist
  <2>5. Sums(h, f, SUBSET Names)
    BY <2>3, <2>4
  <2> QED BY <2>5
<1>2. Sums(g, f, SUBSET Names)
  BY <1>1
<1>3. Total(f) = g[Names]
  BY DEF Total, FoldFunctionOnSet, MapThenFoldSet, Sums, Choice
<1> QED BY <1>2, <1>3

\* The two folds over s, of counts that differ at n at most.
Balanced(g, f, h, e, n, s) ==
    /\ g[s] \in Nat /\ h[s] \in Nat
    /\ n \notin s => g[s] = h[s]
    /\ n \in s => g[s] + e[n].count = h[s] + f[n].count /\ f[n].count <= g[s]
    /\ (\A x \in Names : f[x].count = 0) => g[s] = 0

LEMMA SumsBalance ==
    ASSUME NEW f, NEW e, NEW g, NEW h, Sums(g, f, SUBSET Names), Sums(h, e, SUBSET Names),
           \A x \in Names : f[x].count \in Nat /\ e[x].count \in Nat,
           NEW n \in Names, \A x \in Names : x # n => e[x].count = f[x].count
    PROVE  \A s \in SUBSET Names : Balanced(g, f, h, e, n, s)
<1> DEFINE T == {m \in Nat : \E s \in SUBSET Names : Cardinality(s) = m /\ ~Balanced(g, f, h, e, n, s)}
<1>1. T = {}
  <2> SUFFICES ASSUME T # {} PROVE FALSE
    OBVIOUS
  <2>1. PICK m \in T : \A y \in T : m <= y
    <3>1. T \subseteq Nat
      OBVIOUS
    <3> HIDE DEF T
    <3> QED BY <3>1, SmallestNat
  <2>2. PICK s \in SUBSET Names : Cardinality(s) = m /\ ~Balanced(g, f, h, e, n, s)
    BY <2>1
  <2>3. CASE s = {}
    <3>1. g[s] = 0 /\ h[s] = 0
      BY <2>3 DEF Sums
    <3> QED BY <2>2, <2>3, <3>1 DEF Balanced
  <2>4. CASE s # {}
    <3>1. PICK x, r : x = Choice(s) /\ r = s \ {x}
      OBVIOUS
    <3>2. /\ x \in s /\ r \in SUBSET Names /\ x \in Names /\ Cardinality(r) = m - 1
          /\ Cardinality(r) \in Nat /\ m \in Nat
      <4>1. /\ Choice(s) \in s /\ s \ {Choice(s)} \in SUBSET Names
            /\ Cardinality(s \ {Choice(s)}) = Cardinality(s) - 1 /\ Cardinality(s) \in Nat
        BY <2>4, OneLess
      <4>2. r \in SUBSET Names
        BY <3>1, <4>1
      <4>3. Cardinality(r) \in Nat
        BY <4>2, OneLess
      <4> QED BY <2>2, <3>1, <4>1, <4>2, <4>3
    <3>3. m - 1 \in Nat /\ ~(m <= m - 1)
      BY <3>2
    <3>4. m - 1 \notin T
      <4> HIDE DEF T
      <4> QED BY <2>1, <3>3
    <3>5. Balanced(g, f, h, e, n, r)
      BY <3>2, <3>3, <3>4
    <3>6. g[s] = f[x].count + g[r] /\ h[s] = e[x].count + h[r]
      BY <2>4, <3>1 DEF Sums
    <3>7. /\ f[x].count \in Nat /\ e[x].count \in Nat /\ f[n].count \in Nat /\ e[n].count \in Nat
          /\ g[r] \in Nat /\ h[r] \in Nat
      BY <3>2, <3>5 DEF Balanced
    <3>8. g[s] \in Nat /\ h[s] \in Nat /\ ((\A y \in Names : f[y].count = 0) => g[s] = 0)
      BY <3>2, <3>5, <3>6, <3>7 DEF Balanced
    <3>9. CASE x = n
      <4>1. n \in s /\ g[r] = h[r]
        BY <3>1, <3>2, <3>5, <3>9 DEF Balanced
      <4>2. g[s] + e[n].count = h[s] + f[n].count /\ f[n].count <= g[s]
        BY <3>6, <3>7, <3>9, <4>1
      <4> QED BY <2>2, <3>8, <4>1, <4>2 DEF Balanced
    <3>10. CASE x # n
      <4>1. f[x].count = e[x].count /\ (n \in s <=> n \in r)
        BY <3>1, <3>2, <3>10
      <4>2. n \notin s => g[s] = h[s]
        BY <3>5, <3>6, <4>1 DEF Balanced
      <4>3. n \in s => g[s] + e[n].count = h[s] + f[n].count /\ f[n].count <= g[s]
        BY <3>5, <3>6, <3>7, <4>1 DEF Balanced
      <4> QED BY <2>2, <3>8, <4>2, <4>3 DEF Balanced
    <3> QED BY <3>9, <3>10
  <2> QED BY <2>3, <2>4
<1>2. ASSUME NEW s \in SUBSET Names PROVE Balanced(g, f, h, e, n, s)
  <2>1. Cardinality(s) \in Nat
    BY OneLess
  <2>2. Cardinality(s) \notin T
    <3> HIDE DEF T
    <3> QED BY <1>1
  <2> QED BY <2>1, <2>2
<1> QED BY <1>2

\* A change of one count changes the total by as much.
LEMMA TotalChange ==
    ASSUME NEW f, NEW e, \A x \in Names : f[x].count \in Nat /\ e[x].count \in Nat,
           NEW n \in Names, \A x \in Names : x # n => e[x].count = f[x].count
    PROVE  /\ Total(f) \in Nat /\ Total(e) \in Nat /\ f[n].count <= Total(f)
           /\ Total(f) + e[n].count = Total(e) + f[n].count
           /\ (\A x \in Names : f[x].count = 0) => Total(f) = 0
<1>1. PICK g : Sums(g, f, SUBSET Names) /\ Total(f) = g[Names]
  BY TotalIs
<1>2. PICK h : Sums(h, e, SUBSET Names) /\ Total(e) = h[Names]
  BY TotalIs
<1>3. Balanced(g, f, h, e, n, Names)
  BY <1>1, <1>2, SumsBalance
<1> QED BY <1>1, <1>2, <1>3 DEF Balanced

LEMMA NoNames ==
    ASSUME NEW f, Names = {}
    PROVE  Total(f) = 0
<1>1. PICK g : Sums(g, f, SUBSET Names) /\ Total(f) = g[Names]
  BY TotalIs
<1> QED BY <1>1 DEF Sums

\* Callers that have taken a timer and have not requested their lock yet: RoomForLock leaves
\* room for them, so that no request finds the total at its limit.
Fillers == {c \in Callers : thr[c].at = "fill"}

TotalInv ==
    /\ pm.lock = Total(locks)
    /\ pm.lock + Cardinality(Fillers) <= OS_PM_LOCK_MAX
    /\ thr[SwtTask].at # "fill"

LEMMA FillersCount ==
    /\ IsFiniteSet(Fillers) /\ Cardinality(Fillers) \in Nat
    /\ \A c \in Fillers : Cardinality(Fillers \ {c}) = Cardinality(Fillers) - 1
    /\ \A c : c \notin Fillers => Cardinality(Fillers \cup {c}) = Cardinality(Fillers) + 1
    /\ \A S \in SUBSET Fillers : Cardinality(S) <= Cardinality(Fillers) /\ Cardinality(S) \in Nat
<1>1. Fillers \in SUBSET Callers
  BY DEF Fillers
<1>2. IsFiniteSet(Fillers) /\ Cardinality(Fillers) \in Nat
  BY <1>1, PmAssumption, FS_Subset, FS_CardinalityType
<1>3. \A c \in Fillers : Cardinality(Fillers \ {c}) = Cardinality(Fillers) - 1
  BY <1>2, FS_RemoveElement
<1>4. \A c : c \notin Fillers => Cardinality(Fillers \cup {c}) = Cardinality(Fillers) + 1
  BY <1>2, FS_AddElement
<1>5. \A S \in SUBSET Fillers : Cardinality(S) <= Cardinality(Fillers) /\ Cardinality(S) \in Nat
  BY <1>2, FS_Subset, FS_CardinalityType
<1> QED BY <1>2, <1>3, <1>4, <1>5

LEMMA EntryCount ==
    ASSUME TimersType
    PROVE  \A x \in Names : /\ locks[x].count \in Nat
                            /\ locks[x] = NoLock <=> locks[x].count = 0
                            /\ locks[x] # NoLock => locks[x] = [count |-> locks[x].count, id |-> locks[x].id]
  BY PmAssumption DEF TimersType, LockEntry, NoLock

\* The entry of one name changes, and the total with it.
LEMMA EntryChanges ==
    ASSUME TimersType, TimersType', NEW n \in Names, \A x \in Names : x # n => locks'[x] = locks[x],
           pm.lock = Total(locks), pm.lock + locks'[n].count = pm'.lock + locks[n].count, pm'.lock \in Nat
    PROVE  pm'.lock = Total(locks')
<1>1. \A x \in Names : locks[x].count \in Nat /\ locks'[x].count \in Nat
  BY EntryCount, PmAssumption DEF TimersType, LockEntry, NoLock
<1>2. PICK f, e : f = locks /\ e = locks'
  OBVIOUS
<1>3. Total(f) + e[n].count = Total(e) + f[n].count /\ Total(f) \in Nat /\ Total(e) \in Nat
  <2>1. \A x \in Names : f[x].count \in Nat /\ e[x].count \in Nat
    BY <1>1, <1>2
  <2>2. \A x \in Names : x # n => e[x].count = f[x].count
    BY <1>2
  <2> QED BY <2>1, <2>2, TotalChange
<1>4. f[n].count \in Nat /\ e[n].count \in Nat
  BY <1>1, <1>2
<1>5. Total(f) = pm.lock /\ pm.lock + e[n].count = pm'.lock + f[n].count
  BY <1>2
<1>6. pm'.lock = Total(e)
  BY <1>3, <1>4, <1>5
<1> QED BY <1>2, <1>6

\* No name has more locks than there are.
LEMMA EntryInTotal ==
    ASSUME TimersType, pm.lock = Total(locks), NEW n \in Names
    PROVE  locks[n].count \in Nat /\ locks[n].count <= pm.lock /\ pm.lock \in Nat
<1>1. \A x \in Names : locks[x].count \in Nat
  BY EntryCount
<1>2. Total(locks) \in Nat /\ locks[n].count <= Total(locks)
  BY <1>1, TotalChange
<1> QED BY <1>1, <1>2

LEMMA RequestCounts ==
    ASSUME TimersType, TimersType', SuspensionType, NEW n \in Names, NEW c, NEW id,
           OsPmLockRequest(c, n, id), pm.lock = Total(locks), pm.lock < OS_PM_LOCK_MAX
    PROVE  pm'.lock = Total(locks') /\ pm'.lock \in Nat /\ pm'.lock <= pm.lock + 1
<1>0. /\ locks[n].count \in Nat /\ locks[n].count <= pm.lock /\ pm.lock \in Nat
      /\ OS_PM_LOCK_MAX \in Nat /\ locks[n].count < OS_PM_LOCK_MAX
  BY EntryInTotal, PmAssumption
<1>1. /\ pm'.lock = Counted(n, id).lock /\ locks'[n] = Counted(n, id).entry
      /\ \A x \in Names : x # n => locks'[x] = locks[x]
  BY DEF OsPmLockRequest, SuspensionType, PmRecord, TimersType
<1>2. CASE locks[n] = NoLock
  <2>1. locks[n].count = 0
    BY <1>2, EntryCount
  <2>2. Counted(n, id).lock = pm.lock + 1 /\ Counted(n, id).entry = [count |-> 1, id |-> id]
    BY <1>0, <1>2 DEF Counted
  <2>3. pm'.lock = pm.lock + 1 /\ locks'[n].count = 1
    BY <1>1, <2>2
  <2> QED BY <1>0, <1>1, <2>1, <2>3, EntryChanges
<1>3. CASE locks[n] # NoLock
  <2>1. PICK m, i : m = locks[n].count /\ locks[n] = [count |-> m, id |-> i]
    BY <1>3, EntryCount
  <2>2. [locks[n] EXCEPT !.count = @ + 1] = [count |-> m + 1, id |-> i]
    BY <2>1
  <2>3. CASE i # NoTimer /\ m + 1 > 1
    <3>1. /\ Counted(n, id).lock = pm.lock
          /\ Counted(n, id).entry = [[count |-> m + 1, id |-> i] EXCEPT !.count = @ - 1]
      BY <1>0, <1>3, <2>1, <2>2, <2>3 DEF Counted
    <3>2. pm'.lock = pm.lock /\ locks'[n].count = m
      BY <1>0, <1>1, <2>1, <3>1
    <3> QED BY <1>0, <1>1, <2>1, <3>2, EntryChanges
  <2>4. CASE ~(i # NoTimer /\ m + 1 > 1)
    <3>1. Counted(n, id).lock = pm.lock + 1 /\ Counted(n, id).entry = [count |-> m + 1, id |-> i]
      BY <1>0, <1>3, <2>1, <2>2, <2>4 DEF Counted
    <3>2. pm'.lock = pm.lock + 1 /\ locks'[n].count = m + 1
      BY <1>1, <3>1
    <3> QED BY <1>0, <1>1, <2>1, <3>2, EntryChanges
  <2> QED BY <2>3, <2>4
<1> QED BY <1>2, <1>3

LEMMA ReleaseCounts ==
    ASSUME TimersType, TimersType', SuspensionType, NEW c, NEW n \in Names, PmLockRelease(c, n),
           pm.lock = Total(locks)
    PROVE  pm'.lock = Total(locks') /\ pm'.lock \in Nat /\ pm'.lock <= pm.lock
<1>0. locks[n].count \in Nat /\ locks[n].count <= pm.lock /\ pm.lock \in Nat
  BY EntryInTotal
<1>1. CASE Found(c, n) = NoLock
  <2>1. pm' = pm /\ locks' = locks
    BY <1>1 DEF PmLockRelease
  <2> QED BY <1>0, <2>1
<1>2. CASE Found(c, n) # NoLock
  <2>00. Found(c, n) = locks[n] /\ locks[n] # NoLock
    BY <1>2 DEF Found
  <2>0. locks[n].count # 0
    BY <2>00, EntryCount
  <2>1. PICK m, i : m = locks[n].count /\ locks[n] = [count |-> m, id |-> i]
    BY <2>00, EntryCount
  <2>2. m # 0 /\ m \in Nat /\ m <= pm.lock /\ pm.lock > 0
    <3>1. m # 0 /\ m \in Nat /\ m <= pm.lock /\ pm.lock \in Nat
      BY <1>0, <2>0, <2>1
    <3> QED BY <3>1
  <2>3. pm' = [pm EXCEPT !.lock = IF @ > 0 THEN @ - 1 ELSE 0]
    BY <2>00 DEF PmLockRelease
  <2>4. pm'.lock = pm.lock - 1
    BY <2>2, <2>3 DEF SuspensionType, PmRecord
  <2>5. /\ locks' = [locks EXCEPT ![n] = IF m = 1 THEN NoLock ELSE [locks[n] EXCEPT !.count = @ - 1]]
    BY <2>00, <2>1 DEF PmLockRelease
  <2>6. locks'[n] = IF m = 1 THEN NoLock ELSE [count |-> m - 1, id |-> i]
    BY <2>1, <2>5 DEF TimersType
  <2>7. locks'[n].count = m - 1
    BY <2>2, <2>6 DEF NoLock
  <2>8. \A x \in Names : x # n => locks'[x] = locks[x]
    BY <2>5 DEF TimersType
  <2>9. pm.lock + locks'[n].count = pm'.lock + locks[n].count /\ pm'.lock \in Nat /\ pm'.lock <= pm.lock
    BY <1>0, <2>1, <2>2, <2>4, <2>7
  <2> QED BY <2>8, <2>9, EntryChanges
<1> QED BY <1>1, <1>2

\* A step that leaves the locks alone and in which nobody begins to fill in a timer.
LEMMA TotalFrame ==
    ASSUME TotalInv, SuspensionType, pm'.lock = pm.lock, locks' = locks,
           \A c \in Callers : thr'[c].at = "fill" => thr[c].at = "fill", thr'[SwtTask].at # "fill"
    PROVE  TotalInv'
<1>1. PICK S \in SUBSET Fillers : S = Fillers'
  BY DEF Fillers
<1>2. Cardinality(S) <= Cardinality(Fillers) /\ Cardinality(S) \in Nat /\ Cardinality(Fillers) \in Nat
  BY FillersCount
<1>3. pm.lock \in Nat /\ OS_PM_LOCK_MAX \in Nat /\ Cardinality(Fillers)' = Cardinality(S)
  BY <1>1, PmAssumption DEF SuspensionType, PmRecord
<1>4. pm.lock + Cardinality(Fillers) <= OS_PM_LOCK_MAX /\ pm.lock = Total(locks)
  BY DEF TotalInv
<1>5. pm'.lock + Cardinality(Fillers)' <= OS_PM_LOCK_MAX
  BY <1>2, <1>3, <1>4
<1>6. pm'.lock = Total(locks')
  BY <1>4
<1> QED BY <1>5, <1>6 DEF TotalInv

\* A request, with or without a timer: c is no longer filling in.
LEMMA TotalRequest ==
    ASSUME TotalInv, SuspensionType, TimersType, TimersType', NEW n \in Names, NEW d, NEW id,
           OsPmLockRequest(d, n, id), thr'[SwtTask].at # "fill",
           \/ RoomForLock /\ ~Overfull /\ Fillers' = Fillers
           \/ \E c \in Fillers : Fillers' = Fillers \ {c}
    PROVE  TotalInv'
<1>0. /\ pm.lock \in Nat /\ OS_PM_LOCK_MAX \in Nat /\ Cardinality(Fillers) \in Nat
      /\ pm.lock + Cardinality(Fillers) <= OS_PM_LOCK_MAX /\ pm.lock = Total(locks)
  BY PmAssumption, FillersCount DEF SuspensionType, PmRecord, TotalInv
<1>1. PICK S : S = Fillers'
  OBVIOUS
<1>2. Cardinality(S) \in Nat /\ pm.lock < OS_PM_LOCK_MAX /\ pm.lock + 1 + Cardinality(S) <= OS_PM_LOCK_MAX
  <2>1. CASE RoomForLock /\ ~Overfull /\ S = Fillers
    <3>1. pm.lock + Cardinality(Fillers) < OS_PM_LOCK_MAX
      BY <2>1 DEF RoomForLock, Fillers
    <3> QED BY <1>0, <2>1, <3>1
  <2>2. ASSUME NEW c \in Fillers, S = Fillers \ {c}
        PROVE  /\ Cardinality(S) \in Nat /\ pm.lock < OS_PM_LOCK_MAX
               /\ pm.lock + 1 + Cardinality(S) <= OS_PM_LOCK_MAX
    <3>1. Cardinality(S) = Cardinality(Fillers) - 1 /\ Cardinality(S) \in Nat
      BY <2>2, FillersCount
    <3> QED BY <1>0, <3>1
  <2> QED BY <1>1, <2>1, <2>2
<1>3. pm'.lock = Total(locks') /\ pm'.lock \in Nat /\ pm'.lock <= pm.lock + 1
  BY <1>0, <1>2, RequestCounts
<1>4. Cardinality(Fillers)' = Cardinality(S)
  BY <1>1
<1>5. pm'.lock + Cardinality(Fillers)' <= OS_PM_LOCK_MAX
  BY <1>0, <1>2, <1>3, <1>4
<1> QED BY <1>3, <1>5 DEF TotalInv

LEMMA TotalRelease ==
    ASSUME TotalInv, SuspensionType, TimersType, TimersType', NEW c \in Threads, NEW n \in Names,
           PmLockRelease(c, n)
    PROVE  TotalInv'
<1>0. /\ pm.lock \in Nat /\ OS_PM_LOCK_MAX \in Nat /\ Cardinality(Fillers) \in Nat
      /\ pm.lock + Cardinality(Fillers) <= OS_PM_LOCK_MAX /\ pm.lock = Total(locks)
      /\ thr[SwtTask].at # "fill"
  BY PmAssumption, FillersCount DEF SuspensionType, PmRecord, TotalInv
<1>1. pm'.lock = Total(locks') /\ pm'.lock \in Nat /\ pm'.lock <= pm.lock
  BY <1>0, ReleaseCounts
<1>2. PICK x : thr' = [thr EXCEPT ![c] = x] /\ x.at # "fill"
  <2>1. End(c).at # "fill"
    BY DEF End
  <2>2. CASE Found(c, n) = NoLock
    <3>1. thr' = [thr EXCEPT ![c] = End(c)]
      BY <2>2 DEF PmLockRelease
    <3> QED BY <2>1, <3>1
  <2>3. CASE Found(c, n) # NoLock
    <3>1. PICK i : thr' = [thr EXCEPT ![c] = IF i = NoTimer THEN End(c) ELSE [at |-> "free", id |-> i]]
      BY <2>3 DEF PmLockRelease
    <3>2. CASE i = NoTimer
      <4>1. thr' = [thr EXCEPT ![c] = End(c)]
        BY <3>1, <3>2
      <4> QED BY <2>1, <4>1
    <3>3. CASE i # NoTimer
      <4> DEFINE y == [at |-> "free", id |-> i]
      <4>1. thr' = [thr EXCEPT ![c] = y] /\ y.at # "fill"
        BY <3>1, <3>3
      <4> QED BY <4>1
    <3> QED BY <3>2, <3>3
  <2> QED BY <2>2, <2>3
<1>3. \A d \in Threads : thr'[d].at = "fill" => thr[d].at = "fill"
  BY <1>2 DEF TimersType
<1>4. PICK S \in SUBSET Fillers : S = Fillers'
  BY <1>3 DEF Fillers, Threads
<1>5. Cardinality(S) <= Cardinality(Fillers) /\ Cardinality(S) \in Nat
  BY FillersCount
<1>6. Cardinality(Fillers)' = Cardinality(S)
  BY <1>4
<1>7. pm'.lock + Cardinality(Fillers)' <= OS_PM_LOCK_MAX
  BY <1>0, <1>1, <1>5, <1>6
<1>8. thr'[SwtTask].at # "fill"
  BY <1>0, <1>3 DEF Threads
<1> QED BY <1>1, <1>7, <1>8 DEF TotalInv

LEMMA TotalCreate ==
    ASSUME TotalInv, SuspensionType, TimersType, NEW c \in Callers, NEW n \in Names,
           PmTimeLockCreate(c, n), ~Overfull
    PROVE  TotalInv'
<1>0. /\ pm.lock \in Nat /\ OS_PM_LOCK_MAX \in Nat /\ Cardinality(Fillers) \in Nat
      /\ pm.lock = Total(locks) /\ thr[SwtTask].at # "fill" /\ RoomForLock /\ thr[c] = Idle
      /\ pm' = pm /\ locks' = locks /\ c # SwtTask /\ c \in Threads
  BY PmAssumption, FillersCount DEF SuspensionType, PmRecord, TotalInv, PmTimeLockCreate, Threads
<1>1. PICK x : thr' = [thr EXCEPT ![c] = x] /\ x.at = "fill"
  <2> DEFINE y == [at |-> "fill", name |-> n, timer |-> Head(free)]
  <2>1. thr' = [thr EXCEPT ![c] = y] /\ y.at = "fill"
    BY DEF PmTimeLockCreate
  <2> QED BY <2>1
<1>2. thr'[c].at = "fill" /\ \A d \in Threads : d # c => thr'[d] = thr[d]
  BY <1>0, <1>1 DEF TimersType
<1>3. c \notin Fillers
  BY <1>0 DEF Fillers, Idle
<1>4. PICK S : S = Fillers' /\ S = Fillers \cup {c}
  BY <1>2 DEF Fillers, Threads
<1>5. Cardinality(S) = Cardinality(Fillers) + 1
  BY <1>3, <1>4, FillersCount
<1>6. pm.lock + Cardinality(Fillers) < OS_PM_LOCK_MAX
  BY <1>0 DEF RoomForLock, Fillers
<1>7. Cardinality(Fillers)' = Cardinality(S)
  BY <1>4
<1>8. pm'.lock + Cardinality(Fillers)' <= OS_PM_LOCK_MAX
  BY <1>0, <1>5, <1>6, <1>7
<1>9. thr'[SwtTask].at # "fill"
  BY <1>0, <1>2 DEF Threads
<1>10. pm'.lock = Total(locks')
  BY <1>0
<1> QED BY <1>8, <1>9, <1>10 DEF TotalInv

LEMMA TotalStart == PmInit => TotalInv
<1> SUFFICES ASSUME PmInit PROVE TotalInv
  OBVIOUS
<1>1. Fillers = {} /\ thr[SwtTask].at # "fill"
  BY DEF PmInit, Fillers, Idle, Threads
<1>2. Total(locks) = 0
  <2>1. \A x \in Names : locks[x].count = 0
    BY DEF PmInit, NoLock
  <2>2. CASE Names = {}
    BY <2>2, NoNames
  <2>3. CASE Names # {}
    <3>1. PICK n \in Names : TRUE
      BY <2>3
    <3>2. \A x \in Names : locks[x].count \in Nat
      BY <2>1
    <3> QED BY <2>1, <3>1, <3>2, TotalChange
  <2> QED BY <2>2, <2>3
<1>3. pm.lock = 0 /\ Cardinality(Fillers) = 0 /\ OS_PM_LOCK_MAX \in Nat
  BY <1>1, FS_EmptySet, PmAssumption DEF PmInit
<1>4. pm.lock + Cardinality(Fillers) <= OS_PM_LOCK_MAX
  BY <1>3
<1> QED BY <1>1, <1>2, <1>3, <1>4 DEF TotalInv

LEMMA TotalFill ==
    ASSUME TotalInv, SuspensionType, TimersType, TimersType', NEW c \in Threads, PmTimeLockRequest(c)
    PROVE  TotalInv'
<1> DEFINE n == thr[c].name
           id == <<thr[c].timer, cb[thr[c].timer].life>>
<1>0. /\ thr[c].at = "fill" /\ n \in Names /\ thr[SwtTask].at # "fill"
  BY ThrType DEF PmTimeLockRequest, TotalInv
<1>1. c # SwtTask /\ c \in Callers /\ c \in Fillers
  BY <1>0 DEF Threads, Fillers
<1>2. PICK x : thr' = [thr EXCEPT ![c] = x] /\ x.at # "fill"
  <2> DEFINE u == [at |-> "undo", id |-> id]
             v == [at |-> "start", id |-> id, name |-> n]
             w == [at |-> "astray", id |-> id]
  <2>1. u.at # "fill" /\ v.at # "fill" /\ w.at # "fill"
    OBVIOUS
  <2>2. \/ thr' = [thr EXCEPT ![c] = u]
        \/ thr' = [thr EXCEPT ![c] = w]
        \/ thr' = [thr EXCEPT ![c] = IF Counted(n, id).ok THEN v ELSE u]
    BY DEF PmTimeLockRequest, Walk
  <2>3. thr' = [thr EXCEPT ![c] = u] \/ thr' = [thr EXCEPT ![c] = v] \/ thr' = [thr EXCEPT ![c] = w]
    BY <2>2
  <2> HIDE DEF u, v, w
  <2> QED BY <2>1, <2>3
<1>3. thr'[c].at # "fill" /\ \A d \in Threads : d # c => thr'[d] = thr[d]
  BY <1>2 DEF TimersType
<1>4. thr'[SwtTask].at # "fill"
  BY <1>0, <1>1, <1>3 DEF Threads
<1>5. CASE pm' = pm /\ locks' = locks
  <2>1. \A d \in Callers : thr'[d].at = "fill" => thr[d].at = "fill"
    BY <1>0, <1>3 DEF Threads
  <2> QED BY <1>4, <1>5, <2>1, TotalFrame
<1>6. CASE OsPmLockRequest(c, n, id)
  <2>1. Fillers' = Fillers \ {c}
    BY <1>1, <1>3 DEF Fillers, Threads
  <2>2. \E m, i : m \in Names /\ m = n /\ i = id
    BY <1>0
  <2>4. PICK m, i : m \in Names /\ m = n /\ i = id
    BY <2>2
  <2>3. m \in Names /\ OsPmLockRequest(c, m, i)
    BY <1>6, <2>4
  <2> QED BY <1>1, <1>4, <2>1, <2>3, TotalRequest
<1>7. (pm' = pm /\ locks' = locks) \/ OsPmLockRequest(c, n, id)
  BY DEF PmTimeLockRequest, Walk
<1> QED BY <1>5, <1>6, <1>7

\* What else a thread does: its call ends or goes on, and the locks stay.
LEMMA TotalMoves ==
    ASSUME TotalInv, SuspensionType, TimersType, NEW c \in Threads, NEW x, x.at # "fill",
           thr' = [thr EXCEPT ![c] = x], pm' = pm, locks' = locks
    PROVE  TotalInv'
<1>1. \A d \in Threads : thr'[d].at = "fill" => thr[d].at = "fill"
  BY DEF TimersType
<1>2. thr[SwtTask].at # "fill"
  BY DEF TotalInv
<1>3. \A d \in Callers : thr'[d].at = "fill" => thr[d].at = "fill"
  BY <1>1 DEF Threads
<1>4. thr'[SwtTask].at # "fill"
  BY <1>1, <1>2 DEF Threads
<1> QED BY <1>3, <1>4, TotalFrame

LEMMA TotalStep ==
    ASSUME TotalInv, SuspensionType, TimersInv, TimersInv', [PmNext]_vars, ~Overfull
    PROVE  TotalInv'
<1>0. TimersType /\ TimersType' /\ thr[SwtTask].at # "fill"
  BY DEF TimersInv, TotalInv
<1>1. ASSUME pm'.lock = pm.lock, locks' = locks, thr' = thr PROVE TotalInv'
  BY <1>0, <1>1, TotalFrame
<1>2. \A c \in Callers : c \in Threads
  BY DEF Threads
<1>3. \A c : End(c).at # "fill"
  BY DEF End
<1>15. ASSUME NEW c \in Threads, pm' = pm, locks' = locks,
              thr' = [thr EXCEPT ![c] = [at |-> "astray", id |-> NoTimer]]
       PROVE  TotalInv'
  <2>1. PICK y : y = [at |-> "astray", id |-> NoTimer]
    OBVIOUS
  <2>2. y.at # "fill" /\ thr' = [thr EXCEPT ![c] = y]
    BY <1>15, <2>1
  <2> QED BY <1>0, <1>15, <2>2, TotalMoves
<1>4. ASSUME NEW c \in Callers, NEW n \in Names, LOS_PmLockRequest(c, n) PROVE TotalInv'
  <2>1. CASE RoomForLock /\ thr' = thr /\ OsPmLockRequest(c, n, NoTimer)
    <3>1. Fillers' = Fillers
      BY <2>1 DEF Fillers
    <3> QED BY <1>0, <2>1, <3>1, TotalRequest
  <2>2. CASE UNCHANGED <<pm, locks>> /\ thr' = [thr EXCEPT ![c] = [at |-> "astray", id |-> NoTimer]]
    BY <1>2, <1>15, <2>2
  <2> QED BY <1>4, <2>1, <2>2 DEF LOS_PmLockRequest, Walk
<1>5. ASSUME NEW c \in Threads, NEW n \in Names, LOS_PmLockRelease(c, n) PROVE TotalInv'
  <2>1. CASE PmLockRelease(c, n)
    BY <1>0, <2>1, TotalRelease
  <2>2. CASE UNCHANGED <<pm, locks>> /\ thr' = [thr EXCEPT ![c] = [at |-> "astray", id |-> NoTimer]]
    BY <1>15, <2>2
  <2> QED BY <1>5, <2>1, <2>2 DEF LOS_PmLockRelease, Walk
<1>6. ASSUME NEW c \in Callers, NEW n \in Names, PmTimeLockCreate(c, n) PROVE TotalInv'
  BY <1>0, <1>6, TotalCreate
<1>7. ASSUME NEW c \in Threads, CallStep(c) PROVE TotalInv'
  <2>1. CASE PmLockFree(c) \/ PmTimeLockUndo(c)
    <3>1. thr' = [thr EXCEPT ![c] = End(c)] /\ pm' = pm /\ locks' = locks
      BY <2>1 DEF PmLockFree, PmTimeLockUndo
    <3> QED BY <1>0, <1>3, <3>1, TotalMoves
  <2>2. CASE thr[c].at = "release" /\ LOS_PmLockRelease(c, thr[c].name)
    <3>1. thr[c].name \in Names
      BY <1>0, <2>2, ThrType
    <3> QED BY <1>5, <2>2, <3>1
  <2>3. CASE PmTimeLockRequest(c)
    BY <1>0, <2>3, TotalFill
  <2>4. CASE PmTimeLockStart(c)
    <3>1. pm' = pm /\ locks' = locks
      BY <2>4 DEF PmTimeLockStart
    <3>2. \/ thr' = [thr EXCEPT ![c] = End(c)]
          \/ thr' = [thr EXCEPT ![c] = [at |-> "release", name |-> thr[c].name]]
      BY <2>4 DEF PmTimeLockStart
    <3>3. PICK y : y = [at |-> "release", name |-> thr[c].name]
      OBVIOUS
    <3>4. y.at # "fill"
      BY <3>3
    <3>5. thr' = [thr EXCEPT ![c] = End(c)] \/ thr' = [thr EXCEPT ![c] = y]
      BY <3>2, <3>3
    <3> QED BY <1>0, <1>3, <3>1, <3>4, <3>5, TotalMoves
  <2>5. CASE ReadLockList(c)
    BY <1>1, <2>5 DEF ReadLockList
  <2> QED BY <1>7, <2>1, <2>2, <2>3, <2>4, <2>5 DEF CallStep
<1>8. ASSUME NEW type, LOS_PmRegister(type) \/ LOS_PmUnregister(type) PROVE TotalInv'
  <2>1. pm'.lock = pm.lock /\ locks' = locks /\ thr' = thr
    BY <1>8 DEF LOS_PmRegister, LOS_PmUnregister, SuspensionType, PmRecord
  <2> QED BY <1>1, <2>1
<1>9. ASSUME NEW mode, LOS_PmModeSet(mode) PROVE TotalInv'
  BY <1>1, <1>9 DEF LOS_PmModeSet, SuspensionType, PmRecord
<1>10. CASE LOS_PmWakeSet \/ PmSuspendCheck
  BY <1>1, <1>10 DEF LOS_PmWakeSet, PmSuspendCheck, SuspensionType, PmRecord
<1>11. CASE SleepStep
  <2>1. locks' = locks /\ thr' = thr
    BY <1>11 DEF SleepStep, PmSuspendPrepare, PmSleep, PmWake
  <2>2. pm'.lock = pm.lock
    BY <1>11 DEF SleepStep, PmSuspendPrepare, PmSleep, PmWake, PmExit, SuspensionType, PmRecord
  <2> QED BY <1>1, <2>1, <2>2
<1>12. CASE TimerTaskStep
  <2>1. CASE UNCHANGED pmVars
    BY <1>1, <2>1 DEF pmVars
  <2>2. CASE OsPmSwtmrHandler
    <3>1. swtTask.item.arg \in Names
      BY <2>2, PmAssumption DEF OsPmSwtmrHandler, TimersInv, SwtmrIInv, SwtmrTypeOK, SwtmrHandlerItem
    <3>2. PICK n \in Names : n = swtTask.item.arg
      BY <3>1
    <3>3. SwtTask \in Threads
      BY DEF Threads
    <3>4. CASE PmLockRelease(SwtTask, n)
      BY <1>0, <3>3, <3>4, TotalRelease
    <3>5. CASE /\ UNCHANGED <<pm, locks>>
               /\ thr' = [thr EXCEPT ![SwtTask] = [at |-> "astray", id |-> NoTimer]]
      BY <1>15, <3>3, <3>5
    <3> QED BY <2>2, <3>2, <3>4, <3>5 DEF OsPmSwtmrHandler, Walk
  <2>3. CASE PmSwtmrHandlerReturn
    <3>1. thr' = [thr EXCEPT ![SwtTask] = Idle] /\ pm' = pm /\ locks' = locks
      BY <2>3 DEF PmSwtmrHandlerReturn
    <3>2. Idle.at # "fill" /\ SwtTask \in Threads
      BY DEF Idle, Threads
    <3> QED BY <1>0, <3>1, <3>2, TotalMoves
  <2>4. CASE ReadLockList(SwtTask)
    BY <1>1, <2>4 DEF ReadLockList
  <2> QED BY <1>12, <2>1, <2>2, <2>3, <2>4 DEF TimerTaskStep
<1>13. ASSUME NEW t \in Timers, Expiry(t) PROVE TotalInv'
  BY <1>1, <1>13 DEF Expiry, pmVars
<1>14. CASE UNCHANGED vars
  BY <1>1, <1>14 DEF vars, pmVars
<1>16. ASSUME NEW c, ReadLockList(c) PROVE TotalInv'
  BY <1>1, <1>16 DEF ReadLockList
<1> QED
  BY <1>2, <1>4, <1>5, <1>6, <1>7, <1>8, <1>9, <1>10, <1>11, <1>12, <1>13, <1>14, <1>16
  DEF PmNext, Threads

\* The total that keeps the system awake is the sum of what is held per name, for every
\* number of names and callers, though requests fail half way and delay locks are
\* released by the timer task: no lock is forgotten and none outlives its release.  As long
\* as no lock is requested when the total is at its limit, and no call has walked the list
\* from a node that has left it or missed an entry: both can happen, and the code does not
\* look.
THEOREM LocksAddUp == ~Overfull => (PmSpec => []PmInv)
<1> SUFFICES ASSUME ~Overfull PROVE PmSpec => []PmInv
  OBVIOUS
<1> DEFINE Inv == SuspensionType /\ TimersInv /\ TotalInv
<1>1. PmInit => Inv
  BY SuspensionInit, TimersInit, TotalStart
<1>2. Inv /\ [PmNext]_vars => Inv'
  BY SuspensionStep, TimersStep, TotalStep
<1>3. Inv => LockTotal
  BY DEF TotalInv, LockTotal, Total
<1> HIDE DEF Inv
<1>4. PmSpec => []LockTotal
  BY <1>1, <1>2, <1>3, PTL DEF PmSpec
<1> QED BY <1>4, PmTyped, PTL DEF PmInv
=============================================================================
