------------------------------- MODULE Event -------------------------------
(***************************************************************************)
(* Events (kernel/src/los_event.c) on top of the scheduler and the task    *)
(* calls.  An event ID or mask is the set of its bits.                     *)
(*                                                                         *)
(* LOS_EventRead and LOS_EventWrite look at the control block before they  *)
(* lock interrupts and not again, so each is two steps: the tests, and the *)
(* section.  In an interrupt handler both are one step.                    *)
(***************************************************************************)
EXTENDS Task

CONSTANTS
    Bits,       \* the bits of an event ID, but the one that is reserved
    CloseInUse  \* whether events are destroyed between the tests and the section of a call
                \* on them, or initialised while tasks wait for them

ASSUME EventAssumption == Bits # {} /\ CloseInUse \in BOOLEAN

VARIABLES
    ev,   \* the event control blocks
    want  \* want[t]: the arguments of the LOS_EventRead t is in, which t's TCB holds as
          \* eventMask and eventMode for LOS_EventWrite to read

Events == WaitObjs

eventVars == <<k, ctx, ev, want>>

\* LOS_WAITMODE_OR or LOS_WAITMODE_AND, with LOS_WAITMODE_CLR or not; a mask of
\* no bits is refused.
Request == [mask : (SUBSET Bits) \ {{}}, and : BOOLEAN, clr : BOOLEAN]

\* The arguments of a thread that is not in LOS_EventRead do not matter.
NoRequest == [mask |-> Bits, and |-> FALSE, clr |-> FALSE]

\* Where a call stands that has found the control block initialised and has not locked
\* interrupts yet.
Checked == {"eventread", "eventwrite"}

\* The threads there, in a call on e.
Between(e) ==
    {t \in Tasks : ctx[t].at \in Checked /\ ctx[t].obj = e /\ ~Has(k, t, {"UNUSED"})}

\* The type, and: a control block that LOS_EventDestroy has closed has no waiters,
\* which nothing could wake.
EventTypeOK ==
    /\ k \in KernelState
    /\ ctx \in [TCB -> ThreadState(At \cup Checked \cup {"event"})]
    /\ ev \in [Events -> [ready : BOOLEAN, id : SUBSET Bits]]
    /\ want \in [Tasks -> Request]
    /\ \A e \in Events : ~ev[e].ready => k.list[WaitList(e)] = <<>>

EventInit ==
    /\ Init
    /\ ev = [e \in Events |-> [ready |-> FALSE, id |-> {}]]
    /\ want = [t \in Tasks |-> NoRequest]

-----------------------------------------------------------------------------
\* LOS_EventPoll: the bits it returns, and what it leaves of the event ID.
PollResult(id, r) == IF r.and /\ ~(r.mask \subseteq id) THEN {} ELSE id \cap r.mask

Poll(e, r) == ev' = [ev EXCEPT ![e].id = IF r.clr THEN @ \ PollResult(@, r) ELSE @]

\* As a call of its own, which does not look at the control block.
LOS_EventPoll(c, e, r) ==
    /\ Caller(c, "eventpoll")
    /\ Poll(e, r)
    /\ UNCHANGED <<k, ctx, want>>

\* LOS_EventInit tests nothing: the waiters of an event in use drop out of its list.
LOS_EventInit(c, e) ==
    /\ Caller(c, "eventinit")
    /\ CloseInUse \/ k.list[WaitList(e)] = <<>>
    /\ ev' = [ev EXCEPT ![e] = [ready |-> TRUE, id |-> {}]]
    /\ k' = [k EXCEPT !.list[WaitList(e)] = <<>>]
    /\ UNCHANGED <<ctx, want>>

\* A list whose pointers are NULL already is not empty.
LOS_EventDestroy(c, e) ==
    /\ Caller(c, "eventinit")
    /\ CloseInUse \/ Between(e) = {}
    /\ ev[e].ready
    /\ k.list[WaitList(e)] = <<>>
    /\ ev' = [ev EXCEPT ![e].ready = FALSE]
    /\ UNCHANGED <<k, ctx, want>>

\* LOS_EventRead up to LOS_IntLock: OsEventReadParamCheck.  The arguments it has found valid
\* are those of the section.
LOS_EventRead(c, e) ==
    /\ Caller(c, "eventread")
    /\ ev[e].ready
    /\ ctx' = [ctx EXCEPT ![c] = Thread("eventread", e, FALSE)]
    /\ UNCHANGED <<k, ev, want>>

\* kk, or what an access through the list pointers of e comes to once they are NULL.
Through(e, kk) == IF ev[e].ready THEN kk ELSE [k EXCEPT !.fault = TRUE]

\* LOS_EventRead from LOS_IntLock on: it returns with the bits, with none (timeOut is 0) or
\* because the scheduler is locked, or waits.
EventReadSection(c, r) ==
    LET e == ctx[c].obj
    IN  /\ Running(c) /\ ctx[c].at = "eventread" /\ ~ctx[c].win
        /\ \/ /\ Poll(e, r)
              /\ ctx' = [ctx EXCEPT ![c] = UserThread]
              /\ UNCHANGED <<k, want>>
           \/ /\ PollResult(ev[e].id, r) = {}
              /\ k.lock = 0
              /\ want' = [want EXCEPT ![c] = r]
              /\ \E timed \in BOOLEAN :
                    k' = Through(e, OsSchedTaskWait(k, WaitList(e), timed))
              /\ ctx' = [ctx EXCEPT ![c] = Thread("event", e, TRUE)]
              /\ UNCHANGED ev

\* LOS_EventRead after its LOS_Schedule.
EventReadReturn(c) ==
    /\ Running(c)
    /\ ctx[c].at = "event"
    /\ ~ctx[c].win
    /\ IF Has(k, c, {"TIMEOUT"}) THEN UNCHANGED ev ELSE Poll(ctx[c].obj, want[c])
    /\ k' = SetStatus(k, c, {"TIMEOUT"}, {})
    /\ ctx' = [ctx EXCEPT ![c] = UserThread]
    /\ want' = [want EXCEPT ![c] = NoRequest]

\* The test of LOS_EventWrite's loop; id holds the new bits already.
Wakes(t, events, id) ==
    IF want[t].and THEN want[t].mask \subseteq id ELSE want[t].mask \cap events # {}

\* Mutant: only the first waiter is looked at.
WakeFirst(kk, q, W) == IF q # <<>> /\ q[1] \in W THEN OsSchedTaskWake(kk, q[1]) ELSE kk

\* The loop of LOS_EventWrite: the list of waiters q from its head to its end, with
\* OsSchedTaskWake for the tasks in W.
WakeAll(kk, q, W) ==
    LET w[i \in 0..Len(q)] ==
            IF i = 0 THEN kk
            ELSE IF q[i] \in W THEN OsSchedTaskWake(w[i - 1], q[i]) ELSE w[i - 1]
    IN  w[Len(q)]

\* The waiters that the new bits satisfy, and the kernel with these awake.
Satisfied(e, events) ==
    {t \in Range(k.list[WaitList(e)]) : Wakes(t, events, ev[e].id \cup events)}

WriteEffect(e, events) == Through(e, WakeAll(k, k.list[WaitList(e)], Satisfied(e, events)))

\* LOS_EventWrite up to LOS_IntLock.
LOS_EventWrite(c, e) ==
    /\ Caller(c, "eventwrite")
    /\ ev[e].ready
    /\ ctx' = [ctx EXCEPT ![c] = Thread("eventwrite", e, FALSE)]
    /\ UNCHANGED <<k, ev, want>>

\* Mutant: no reschedule after the wake-ups.
WriteNoSchedule(c, events) ==
    LET e == ctx[c].obj
    IN  /\ Running(c) /\ ctx[c].at = "eventwrite" /\ ~ctx[c].win
        /\ ev' = [ev EXCEPT ![e].id = @ \cup events]
        /\ k' = WriteEffect(e, events)
        /\ ctx' = [ctx EXCEPT ![c] = UserThread]
        /\ UNCHANGED want

\* LOS_EventWrite from LOS_IntLock on.
EventWriteSection(c, events) ==
    LET e == ctx[c].obj
    IN  /\ Running(c) /\ ctx[c].at = "eventwrite" /\ ~ctx[c].win
        /\ ev' = [ev EXCEPT ![e].id = @ \cup events]
        /\ k' = WriteEffect(e, events)
        /\ ctx' = [ctx EXCEPT ![c] = Thread("user", Idle, Satisfied(e, events) # {})]
        /\ UNCHANGED want

\* LOS_EventWrite in an interrupt handler, which no thread interrupts.
EventWriteIsr(e, events) ==
    /\ Caller(Isr, "eventwrite")
    /\ ev[e].ready
    /\ ev' = [ev EXCEPT ![e].id = @ \cup events]
    /\ Finish(Isr, WriteEffect(e, events), Satisfied(e, events) # {})
    /\ UNCHANGED want

LOS_EventClear(c, e, mask) ==
    /\ Caller(c, "eventclear")
    /\ ev' = [ev EXCEPT ![e].id = ev[e].id \cap mask]
    /\ UNCHANGED <<k, ctx, want>>

-----------------------------------------------------------------------------
EventNext ==
    \/ Next /\ UNCHANGED <<ev, want>>
    \/ \E c \in Tasks :
          \/ \E e \in Events : LOS_EventRead(c, e) \/ LOS_EventWrite(c, e)
          \/ \E r \in Request : EventReadSection(c, r)
          \/ EventReadReturn(c)
          \/ \E bits \in SUBSET Bits : EventWriteSection(c, bits)
    \/ \E e \in Events, bits \in SUBSET Bits : EventWriteIsr(e, bits)
    \/ \E c \in Tasks \cup {Isr}, e \in Events :
          \/ LOS_EventInit(c, e)
          \/ LOS_EventDestroy(c, e)
          \/ \E bits \in SUBSET Bits : LOS_EventClear(c, e, bits)
          \/ \E r \in Request : LOS_EventPoll(c, e, r)

EventSpec == EventInit /\ [][EventNext]_eventVars

-----------------------------------------------------------------------------
(***************************************************************************)
(* Properties.                                                             *)
(***************************************************************************)
\* No event is missed: a task stays in the list of waiters only while the bits it
\* asked for are not there, with several waiters, modes and writes in parts.
NoMissedEvent ==
    \A e \in Events : \A t \in Range(k.list[WaitList(e)]) : PollResult(ev[e].id, want[t]) = {}

\* Bits and requests are of their types, no list of waiters outlives its event, no event is
\* missed, and no call walks or enters a list that has been closed since it was looked at.
EventInv == EventTypeOK /\ NoMissedEvent /\ NoFault
=============================================================================
