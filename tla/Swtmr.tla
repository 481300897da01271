------------------------------- MODULE Swtmr -------------------------------
(***************************************************************************)
(* Software timers (kernel/src/los_swtmr.c): control blocks with a free    *)
(* list, the sort link of the timers that run, the queue of expired ones   *)
(* and the timer task that calls their handlers.                           *)
(*                                                                         *)
(* Every action is one section between LOS_IntLock and LOS_IntRestore, or  *)
(* code of one thread between two such sections.  Applications, interrupt  *)
(* handlers, timer handlers (which run in the timer task) and the tick may *)
(* interleave anywhere: the timer task has priority 0, but interrupts,     *)
(* other tasks of that priority, the scheduler lock and handlers that take *)
(* their time all come between an expiry and its handling.                 *)
(*                                                                         *)
(* Time is abstract: a timer on the sort link may be the next to expire.   *)
(* The order of response times is the subject of module Tick.  The queue   *)
(* is what BoundedDeque says of it (Queue implements it).                  *)
(***************************************************************************)
EXTENDS Naturals, Sequences, FiniteSets

CONSTANTS
    Timers,        \* the control blocks, g_swtmrCBArray
    TimerModes,    \* the modes applications create timers with
    HandlerArgs,   \* what distinguishes handlers and their arguments
    Lives,         \* OS_SWTMR_MAX_TIMERID / LOSCFG_BASE_CORE_SWTMR_LIMIT
    HandleQueue,   \* OS_SWTMR_HANDLE_QUEUE_SIZE
    RestartOnce    \* whether a one-off timer that has expired is started again

ASSUME SwtmrAssumption ==
    /\ IsFiniteSet(Timers)
    /\ Lives \in Nat \ {0, 1}
    /\ HandlerArgs # {}
    /\ HandleQueue \in Nat \ {0}
    /\ RestartOnce \in BOOLEAN
    /\ TimerModes \subseteq {"ONCE", "PERIOD", "NO_SELFDELETE"}

VARIABLES
    cb,        \* cb[t]: the control block; its ID is t plus life * LIMIT
    free,      \* g_swtmrFreeList
    creating,  \* taken from the free list, not yet filled in by LOS_SwtmrCreate
    expired,   \* g_swtmrHandlerQueue
    swtTask,   \* where OsSwtmrTask stands, and the message it has read
    lost       \* history: timers whose last expiry found the queue full

swtmrVars == <<cb, free, creating, expired, swtTask, lost>>

Block == [life : 0..(Lives - 1), state : {"UNUSED", "CREATED", "TICKING"},
          mode : {"ONCE", "PERIOD", "NO_SELFDELETE"}, arg : HandlerArgs, armed : BOOLEAN]

SwtmrHandlerItem == [timer : Timers, life : 0..(Lives - 1), arg : HandlerArgs]

\* The messages that are queued or in the timer task's hands before its check.
Unchecked ==
    {expired[i] : i \in DOMAIN expired} \cup
        (IF swtTask.at = "check" THEN {swtTask.item} ELSE {})

\* An expiry of this life of the timer waits to be handled.
Pending(t) == \E m \in Unchecked : m.timer = t /\ m.life = cb[t].life

-----------------------------------------------------------------------------
(***************************************************************************)
(* OsSwtmrInit                                                             *)
(***************************************************************************)
SwtmrInit ==
    /\ cb \in [Timers -> {[life |-> 0, state |-> "UNUSED", mode |-> "ONCE",
                           arg |-> a, armed |-> FALSE] :
                              a \in {CHOOSE a \in HandlerArgs : TRUE}}]
    /\ free \in {f \in [1..Cardinality(Timers) -> Timers] :
                     \A t \in Timers : \E i \in DOMAIN f : f[i] = t}
    /\ creating = {}
    /\ expired = <<>>
    /\ swtTask = [at |-> "read"]
    /\ lost = {}

-----------------------------------------------------------------------------
(***************************************************************************)
(* The steps all calls are made of.  b is a control block.                 *)
(***************************************************************************)
\* OsSwtmrStart: ticking and on the sort link.
OsSwtmrStart(b) == [b EXCEPT !.state = "TICKING", !.armed = TRUE]

\* Mutant of OsSwtmrStop: the sort link is left alone.
OsSwtmrStopNoUnlink(b) == [b EXCEPT !.state = "CREATED"]

\* OsSwtmrStop: OsDeleteSortLink does nothing for a node without response time.
OsSwtmrStop(b) == [b EXCEPT !.state = "CREATED", !.armed = FALSE]

\* Mutant of NextLife: the ID of a deleted timer is not changed.
SameLife(n) == n

\* The ID after a deletion: += LIMIT, or % LIMIT at the upper end.
NextLife(n) == IF n < Lives - 1 THEN n + 1 ELSE 0

\* OsSwtmrDelete
OsSwtmrDelete(t, b) ==
    /\ cb' = [cb EXCEPT ![t] = [b EXCEPT !.life = NextLife(b.life), !.state = "UNUSED"]]
    /\ free' = <<t>> \o free
    /\ lost' = lost \ {t}

-----------------------------------------------------------------------------
(***************************************************************************)
(* The calls.  One that returns an error changes nothing and is no action. *)
(***************************************************************************)
\* Bound: 2^32 / LIMIT lives do not pass while a message of a life waits, so that no
\* two of them have the same ID.
IdUnused(t) == \A m \in Unchecked : m.timer = t => m.life # NextLife(cb[t].life)

\* LOS_SwtmrCreate up to LOS_IntRestore.
SwtmrCreateTake ==
    /\ free # <<>>
    /\ IdUnused(Head(free))
    /\ free' = Tail(free)
    /\ creating' = creating \cup {Head(free)}
    /\ UNCHANGED <<cb, expired, swtTask, lost>>

\* LOS_SwtmrCreate fills in the block it has taken, with interrupts on.  That it resets the
\* response time changes nothing: a free block is on no sort link (TickingIsTiming).
SwtmrCreateFill(t, mode, arg) ==
    /\ t \in creating
    /\ creating' = creating \ {t}
    /\ cb' = [cb EXCEPT ![t].state = "CREATED", ![t].mode = mode, ![t].arg = arg]
    /\ UNCHANGED <<free, expired, swtTask, lost>>

\* A call with the ID of timer t, which the creator knows once t is CREATED.
Created(t) == cb[t].state # "UNUSED"

\* Applications start a one-off timer again after its expiry only if the instance says so.
MayStart(t) ==
    RestartOnce \/ cb[t].mode # "ONCE" \/ cb[t].armed \/ ~(Pending(t) \/ t \in lost)

LOS_SwtmrStart(t) ==
    /\ Created(t)
    /\ cb' = [cb EXCEPT ![t] = OsSwtmrStart(IF @.state = "TICKING" THEN OsSwtmrStop(@) ELSE @)]
    /\ lost' = lost \ {t}
    /\ UNCHANGED <<free, creating, expired, swtTask>>

LOS_SwtmrStop(t) ==
    /\ cb[t].state = "TICKING"
    /\ cb' = [cb EXCEPT ![t] = OsSwtmrStop(@)]
    /\ UNCHANGED <<free, creating, expired, swtTask, lost>>

LOS_SwtmrDelete(t) ==
    /\ Created(t)
    /\ OsSwtmrDelete(t, IF cb[t].state = "TICKING" THEN OsSwtmrStop(cb[t]) ELSE cb[t])
    /\ UNCHANGED <<creating, expired, swtTask>>

-----------------------------------------------------------------------------
(***************************************************************************)
(* Expiry, in the tick interrupt, and the timer task.                      *)
(***************************************************************************)
\* What OsSwtmrScan (OsDeleteNodeSortLink) and OsSwtmrTimeoutHandle make of the block.
AfterExpiry(b) ==
    LET off == [b EXCEPT !.armed = FALSE]
    IN  CASE b.mode = "PERIOD"        -> OsSwtmrStart(off)
          [] b.mode = "NO_SELFDELETE" -> [off EXCEPT !.state = "CREATED"]
          [] OTHER                    -> off

\* One round of OsSwtmrScan's loop, with OsSwtmrTimeoutHandle.  A scan that meets several
\* expired timers is several of these steps in a row.  LOS_QueueWriteCopy does not
\* wait, and its result is ignored.
OsSwtmrScan(t) ==
    /\ cb[t].armed
    /\ cb' = [cb EXCEPT ![t] = AfterExpiry(@)]
    /\ IF Len(expired) < HandleQueue
       THEN /\ expired' = Append(expired, [timer |-> t, life |-> cb[t].life, arg |-> cb[t].arg])
            /\ lost' = lost \ {t}
       ELSE /\ lost' = lost \cup {t}
            /\ UNCHANGED expired
    /\ UNCHANGED <<free, creating, swtTask>>

\* Mutant of SwtmrTaskRead: the newest message is read first.
SwtmrTaskReadLast ==
    /\ swtTask.at = "read"
    /\ expired # <<>>
    /\ swtTask' = [at |-> "check", item |-> expired[Len(expired)]]
    /\ expired' = SubSeq(expired, 1, Len(expired) - 1)
    /\ UNCHANGED <<cb, free, creating, lost>>

\* OsSwtmrTask: LOS_QueueReadCopy returns.
SwtmrTaskRead ==
    /\ swtTask.at = "read"
    /\ expired # <<>>
    /\ swtTask' = [at |-> "check", item |-> Head(expired)]
    /\ expired' = Tail(expired)
    /\ UNCHANGED <<cb, free, creating, lost>>

\* OsSwtmrTask: a message for an earlier life of the timer is dropped.
SwtmrTaskStale ==
    /\ swtTask.at = "check"
    /\ cb[swtTask.item.timer].life # swtTask.item.life
    /\ swtTask' = [at |-> "read"]
    /\ UNCHANGED <<cb, free, creating, expired, lost>>

\* OsSwtmrTask: a one-off timer is deleted before its handler is called.
SwtmrTaskExpire ==
    /\ swtTask.at = "check"
    /\ LET t == swtTask.item.timer
       IN  /\ cb[t].life = swtTask.item.life
           /\ IF cb[t].mode = "ONCE" THEN OsSwtmrDelete(t, cb[t])
                                     ELSE UNCHANGED <<cb, free, lost>>
    /\ swtTask' = [at |-> "handler", item |-> swtTask.item]
    /\ UNCHANGED <<creating, expired>>

\* The handler returns.  Calls it makes are calls like those of any thread.
SwtmrTaskReturn ==
    /\ swtTask.at = "handler"
    /\ swtTask' = [at |-> "read"]
    /\ UNCHANGED <<cb, free, creating, expired, lost>>

-----------------------------------------------------------------------------
SwtmrTaskStep == SwtmrTaskRead \/ SwtmrTaskStale \/ SwtmrTaskExpire \/ SwtmrTaskReturn

SwtmrNext ==
    \/ SwtmrCreateTake
    \/ \E t \in Timers :
          \/ \E mode \in TimerModes, arg \in HandlerArgs : SwtmrCreateFill(t, mode, arg)
          \/ MayStart(t) /\ LOS_SwtmrStart(t)
          \/ LOS_SwtmrStop(t)
          \/ LOS_SwtmrDelete(t)
          \/ OsSwtmrScan(t)
    \/ SwtmrTaskStep

\* Fairness: the timer task runs, and handlers return.
SwtmrSpec == SwtmrInit /\ [][SwtmrNext]_swtmrVars /\ WF_swtmrVars(SwtmrTaskStep)

-----------------------------------------------------------------------------
(***************************************************************************)
(* Properties.                                                             *)
(***************************************************************************)
\* Types; the handler queue never holds more than its length.
SwtmrTypeOK ==
    /\ cb \in [Timers -> Block]
    /\ free \in Seq(Timers)
    /\ creating \subseteq Timers
    /\ expired \in Seq(SwtmrHandlerItem) /\ Len(expired) <= HandleQueue
    /\ swtTask \in [at : {"read"}] \cup [at : {"check", "handler"}, item : SwtmrHandlerItem]
    /\ lost \subseteq Timers

\* No control block is lost or given out twice: each one is on the free list exactly once,
\* being created, or created.  The timer task deletes a one-off timer by the ID in a
\* message that may be old, others delete it by hand.
EachBlockOnce ==
    /\ \A t \in Timers :
          (IF cb[t].state = "UNUSED" /\ t \notin creating THEN 1 ELSE 0)
              = Cardinality({i \in DOMAIN free : free[i] = t})
    /\ \A t \in creating : cb[t].state = "UNUSED"

\* OS_SWTMR_STATUS_TICKING, "The software timer is timing": what is on the sort link is
\* ticking, and what is ticking is on the sort link, or is a one-off timer whose expiry
\* waits for the timer task (or found the queue full).
TickingIsTiming ==
    \A t \in Timers :
        /\ cb[t].armed => cb[t].state = "TICKING"
        /\ cb[t].state = "TICKING" /\ ~cb[t].armed
             => cb[t].mode = "ONCE" /\ (Pending(t) \/ t \in lost)

\* An expiry that was queued is handled: a one-off timer that has expired leaves the
\* state TICKING, however many others expire and whatever applications call.
ExpiryHandled ==
    \A t \in Timers :
        (cb[t].state = "TICKING" /\ ~cb[t].armed /\ t \notin lost)
            ~> (cb[t].state # "TICKING" \/ cb[t].armed)

\* Types, and every control block in exactly one place.
SwtmrInv == SwtmrTypeOK /\ EachBlockOnce
=============================================================================
