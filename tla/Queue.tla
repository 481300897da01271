------------------------------- MODULE Queue -------------------------------
(***************************************************************************)
(* A message queue and its mail pool (kernel/src/los_queue.c) on top of    *)
(* the scheduler and the task calls.                                       *)
(*                                                                         *)
(* One queue control block: queues share nothing but the list of unused    *)
(* control blocks.  WaitObjs are its three lists of waiting tasks.  A      *)
(* message is a value, whatever its size, and LOS_QueueWrite and           *)
(* LOS_QueueRead, which copy a pointer, are like the calls that copy data. *)
(***************************************************************************)
EXTENDS Task, Membox

CONSTANTS
    Values,  \* the messages
    Blocks,  \* the mail blocks, of one membox
    NULL,    \* no message, no block
    MaxLen   \* bound: the length of a queue, 16 bits in the code

ASSUME QueueAssumption ==
    /\ WaitObjs = {"read", "write", "mem"}
    /\ NULL \notin Values \cup Blocks
    /\ IsFiniteSet(Blocks)
    /\ MaxLen \in Nat \ {0}

VARIABLES
    q,     \* the control block
    arg,   \* arg[t]: operateType and message of the OsQueueOperate t waits in
    pool,  \* the membox of mail blocks
    msg    \* msg[t]: taskCB->msg, the block handed to a task that waits for one

queueVars == <<k, ctx, q, arg, pool, msg>>

Side == {"read", "write"}

\* operateType without OS_QUEUE_POINT
Operate == {"readHead", "writeHead", "writeTail"}

ReadWrite(op) == IF op = "readHead" THEN "read" ELSE "write"

Other(side) == IF side = "read" THEN "write" ELSE "read"

NoArg == [op |-> "readHead", val |-> NULL]

QueueTypeOK ==
    /\ k \in KernelState
    /\ ctx \in [TCB -> ThreadState(At \cup {"queue", "mail"})]
    /\ q \in [used : BOOLEAN, len : 0..MaxLen, cnt : [Side -> 0..MaxLen],
              head : 0..MaxLen, tail : 0..MaxLen,
              buf : [0..(MaxLen - 1) -> Values \cup {NULL}]]
    /\ arg \in [Tasks -> [op : Operate, val : Values \cup {NULL}]]
    /\ pool \in [free : Seq(Blocks), marked : SUBSET Blocks, cnt : 0..Cardinality(Blocks)]
    /\ msg \in [Tasks -> Blocks \cup {NULL}]

\* The control block of a queue of len messages; NULL is what the new buffer holds.
NewQueue(used, len) ==
    [used |-> used, len |-> len, cnt |-> [s \in Side |-> IF s = "read" THEN 0 ELSE len],
     head |-> 0, tail |-> 0, buf |-> [i \in 0..(MaxLen - 1) |-> NULL]]

OsQueueInit ==
    /\ q = NewQueue(FALSE, 0)
    /\ arg = [t \in Tasks |-> NoArg]
    /\ pool = LOS_MemboxInit(Blocks)
    /\ msg = [t \in Tasks |-> NULL]

QueueInit == Init /\ OsQueueInit

-----------------------------------------------------------------------------
\* The end of a call that may have waited.
Done(c, kk, need) ==
    IF c = Isr
    THEN Finish(c, kk, need)
    ELSE k' = kk /\ ctx' = [ctx EXCEPT ![c] = Thread("user", Idle, need)]

OsQueueCreate(c, len) ==
    /\ Caller(c, "queuecreate")
    /\ ~q.used
    /\ q' = NewQueue(TRUE, len)
    /\ UNCHANGED <<k, ctx, arg, pool, msg>>

\* The fields of an unused control block do not matter: OsQueueCreate sets them all.
LOS_QueueDelete(c) ==
    /\ Caller(c, "queuedelete")
    /\ q.used
    /\ \A o \in WaitObjs : k.list[WaitList(o)] = <<>>
    /\ q.cnt["read"] + q.cnt["write"] = q.len
    /\ q' = NewQueue(FALSE, 0)
    /\ UNCHANGED <<k, ctx, arg, pool, msg>>

After(qq, i) == IF i + 1 = qq.len THEN 0 ELSE i + 1

\* Mutant: the head moves after the write instead of before it.
WriteThenMoveHead(qq, op, v) ==
    CASE op = "readHead" -> [qq EXCEPT !.head = After(qq, qq.head), !.buf[qq.head] = NULL]
      [] op = "writeHead" -> LET i == IF qq.head = 0 THEN qq.len - 1 ELSE qq.head - 1
                             IN  [qq EXCEPT !.head = i, !.buf[qq.head] = v]
      [] op = "writeTail" -> [qq EXCEPT !.tail = After(qq, qq.tail), !.buf[qq.tail] = v]

\* The ring buffer.  What a read leaves in its slot must not be read again: NULL.
OsQueueBufferOperate(qq, op, v) ==
    CASE op = "readHead" -> [qq EXCEPT !.head = After(qq, qq.head), !.buf[qq.head] = NULL]
      [] op = "writeHead" -> LET i == IF qq.head = 0 THEN qq.len - 1 ELSE qq.head - 1
                             IN  [qq EXCEPT !.head = i, !.buf[i] = v]
      [] op = "writeTail" -> [qq EXCEPT !.tail = After(qq, qq.tail), !.buf[qq.tail] = v]

\* OsQueueOperate from OsQueueBufferOperate on: the slot goes to the first task
\* that waits on the other side, without being counted, or is counted.
OperateSlot(c, qq, op, v) ==
    LET side == Other(ReadWrite(op))
        waiting == k.list[WaitList(side)]
        a == OsQueueBufferOperate(qq, op, v)
    IN  IF waiting # <<>>
        THEN q' = a /\ Done(c, OsSchedTaskWake(k, waiting[1]), TRUE)
        ELSE q' = [a EXCEPT !.cnt[side] = a.cnt[side] + 1] /\ Done(c, k, FALSE)

\* LOS_QueueReadCopy, LOS_QueueWriteCopy, LOS_QueueWriteHeadCopy and the calls for
\* pointers.  An interrupt handler may call them with LOS_NO_WAIT only.
OsQueueOperate(c, op, v) ==
    /\ Caller(c, "queue")
    /\ q.used
    /\ \/ /\ q.cnt[ReadWrite(op)] > 0
          /\ OperateSlot(c, [q EXCEPT !.cnt[ReadWrite(op)] = q.cnt[ReadWrite(op)] - 1], op, v)
          /\ UNCHANGED arg
       \/ /\ q.cnt[ReadWrite(op)] = 0
          /\ c # Isr
          /\ k.lock = 0
          /\ \E timed \in BOOLEAN : k' = OsSchedTaskWait(k, WaitList(ReadWrite(op)), timed)
          /\ ctx' = [ctx EXCEPT ![c] = Thread("queue", ReadWrite(op), TRUE)]
          /\ arg' = [arg EXCEPT ![c] = [op |-> op, val |-> v]]
          /\ UNCHANGED q
    /\ UNCHANGED <<pool, msg>>

\* Mutant: the timeout of the wait is not reported.
ReturnIgnoresTimeout(c) ==
    /\ Running(c)
    /\ ctx[c].at = "queue"
    /\ ~ctx[c].win
    /\ OperateSlot(c, q, arg[c].op, arg[c].val)
    /\ arg' = [arg EXCEPT ![c] = NoArg]
    /\ UNCHANGED <<pool, msg>>

\* OsQueueOperate after its wait.
QueueOperateReturn(c) ==
    /\ Running(c)
    /\ ctx[c].at = "queue"
    /\ ~ctx[c].win
    /\ IF Has(k, c, {"TIMEOUT"})
       THEN Done(c, SetStatus(k, c, {"TIMEOUT"}, {}), FALSE) /\ UNCHANGED q
       ELSE OperateSlot(c, q, arg[c].op, arg[c].val)
    /\ arg' = [arg EXCEPT ![c] = NoArg]
    /\ UNCHANGED <<pool, msg>>

-----------------------------------------------------------------------------
(***************************************************************************)
(* Mail: blocks of a pool that outlive a queue entry.                      *)
(***************************************************************************)
\* The wait does not ask for the scheduler lock.
OsQueueMailAlloc(c) ==
    /\ Caller(c, "mail")
    /\ q.used
    /\ \/ /\ pool.free # <<>>
          /\ pool' = LOS_MemboxAlloc(pool)
          /\ UNCHANGED <<k, ctx>>
       \/ /\ pool.free = <<>>
          /\ c # Isr
          /\ \E timed \in BOOLEAN : k' = OsSchedTaskWait(k, WaitList("mem"), timed)
          /\ ctx' = [ctx EXCEPT ![c] = Thread("mail", "mem", TRUE)]
          /\ UNCHANGED pool
    /\ UNCHANGED <<q, arg, msg>>

\* OsQueueMailAlloc after its wait.
MailAllocReturn(c) ==
    /\ Running(c)
    /\ ctx[c].at = "mail"
    /\ ~ctx[c].win
    /\ msg' = IF Has(k, c, {"TIMEOUT"}) THEN msg ELSE [msg EXCEPT ![c] = NULL]
    /\ Done(c, SetStatus(k, c, {"TIMEOUT"}, {}), FALSE)
    /\ UNCHANGED <<q, arg, pool>>

\* The blocks applications have.
Allocated == (Blocks \ Range(pool.free)) \ Range(msg)

\* Mutant of OsQueueMailFree: the block goes back to the pool and the waiter is woken.
MailFreeToPool(c, b) ==
    /\ Caller(c, "mail")
    /\ q.used
    /\ b \in Allocated
    /\ pool' = LOS_MemboxFree(pool, b)
    /\ LET waiting == k.list[WaitList("mem")]
       IN  IF waiting # <<>> THEN Done(c, OsSchedTaskWake(k, waiting[1]), TRUE)
                             ELSE UNCHANGED <<k, ctx>>
    /\ UNCHANGED <<q, arg, msg>>

\* Applications free blocks they have: with a waiter, any pointer would be handed over,
\* and OsCheckBoxMem is not asked.
OsQueueMailFree(c, b) ==
    /\ Caller(c, "mail")
    /\ q.used
    /\ b \in Allocated
    /\ LET waiting == k.list[WaitList("mem")]
       IN  \/ /\ waiting # <<>>
              /\ msg' = [msg EXCEPT ![waiting[1]] = b]
              /\ Done(c, OsSchedTaskWake(k, waiting[1]), TRUE)
              /\ UNCHANGED pool
           \/ /\ waiting = <<>>
              /\ pool' = LOS_MemboxFree(pool, b)
              /\ UNCHANGED <<k, ctx, msg>>
    /\ UNCHANGED <<q, arg>>

-----------------------------------------------------------------------------
QueueNext ==
    \/ Next /\ UNCHANGED <<q, arg, pool, msg>>
    \/ \E c \in Tasks : QueueOperateReturn(c) \/ MailAllocReturn(c)
    \/ \E c \in Tasks \cup {Isr} :
          \/ \E len \in 1..MaxLen : OsQueueCreate(c, len)
          \/ LOS_QueueDelete(c)
          \/ OsQueueOperate(c, "readHead", NULL)
          \/ \E v \in Values, op \in {"writeHead", "writeTail"} : OsQueueOperate(c, op, v)
          \/ OsQueueMailAlloc(c)
          \/ \E b \in Blocks : OsQueueMailFree(c, b)

QueueSpec == QueueInit /\ [][QueueNext]_queueVars

-----------------------------------------------------------------------------
(***************************************************************************)
(* Properties.                                                             *)
(***************************************************************************)
\* The tasks that were woken with a slot and have not used it.
Granted(side) ==
    {t \in Tasks : /\ ctx[t].at = "queue"
                   /\ ctx[t].obj = side
                   /\ ~Has(k, t, {"PEND", "TIMEOUT"})}

Readable == q.cnt["read"] + Cardinality(Granted("read"))

\* Every slot is counted once: as readable, as writable, or as granted to a task
\* that OsQueueOperate has woken; and head, tail and counters agree on the ring.
SlotsAccounted ==
    q.used => /\ Readable + q.cnt["write"] + Cardinality(Granted("write")) = q.len
              /\ (q.head + Readable) % q.len = q.tail

Abstract ==
    INSTANCE BoundedDeque
        WITH cap <- IF q.used THEN q.len ELSE 0,
             items <- IF q.used THEN [i \in 1..Readable |-> q.buf[(q.head + i - 1) % q.len]]
                                ELSE <<>>

\* los_queue.c implements the bounded queue: no message is lost, overwritten or
\* overtaken when writers at both ends, readers, timeouts and interrupts meet
\* between the two halves of OsQueueOperate.
ImplementsDeque == Abstract!DequeSpec

\* Nobody waits for what is there: a slot or a block that becomes free goes to the
\* task that waits longest, and a call waits only if there is none.
NobodyWaitsInVain ==
    /\ \A side \in Side : q.used /\ q.cnt[side] > 0 => k.list[WaitList(side)] = <<>>
    /\ pool.free # <<>> => k.list[WaitList("mem")] = <<>>

\* OsQueueMailAlloc after its wait, unless it timed out, finds a block
\* (los_queue.c: "the runTsk->msg can not be NULL").
MailHanded ==
    \A t \in Tasks : /\ Running(t) /\ ctx[t].at = "mail" /\ ~ctx[t].win
                     /\ ~Has(k, t, {"TIMEOUT"})
                     => msg[t] # NULL

\* The ring and its counters are of their types, every slot is counted once, and nobody
\* waits for a slot or a block that is there.
QueueInv == QueueTypeOK /\ SlotsAccounted /\ NobodyWaitsInVain
=============================================================================
