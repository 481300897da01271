---------------------------- MODULE BoundedDeque ----------------------------
(***************************************************************************)
(* What a message queue promises: messages are put at either end, up to    *)
(* the capacity it was created with, and leave at the head; none is lost,  *)
(* repeated, invented or overtaken.  A queue is closed only as a whole.    *)
(***************************************************************************)
EXTENDS Naturals, Sequences

CONSTANTS Values, MaxLen

VARIABLES
    cap,   \* the capacity, 0 while the queue does not exist
    items  \* the messages, from the head to the tail

dequeVars == <<cap, items>>

DequeInit == cap = 0 /\ items = <<>>

Open(n) == cap = 0 /\ cap' = n /\ items' = <<>>

Close == cap # 0 /\ cap' = 0 /\ items' = <<>>

PutHead(v) == Len(items) < cap /\ items' = <<v>> \o items /\ UNCHANGED cap

PutTail(v) == Len(items) < cap /\ items' = Append(items, v) /\ UNCHANGED cap

TakeHead == items # <<>> /\ items' = Tail(items) /\ UNCHANGED cap

DequeNext ==
    \/ \E n \in 1..MaxLen : Open(n)
    \/ Close
    \/ \E v \in Values : PutHead(v) \/ PutTail(v)
    \/ TakeHead

DequeSpec == DequeInit /\ [][DequeNext]_dequeVars
=============================================================================
