----------------------------- MODULE Semaphore -----------------------------
(***************************************************************************)
(* What a counting semaphore promises, without scheduler, lists of control *)
(* blocks or interrupts: a token is either on hand or handed to exactly    *)
(* one waiter, in the order they came; a wait ends either with a token or  *)
(* as timed out, never as both; and what a task was told it gets.          *)
(***************************************************************************)
EXTENDS Naturals, Sequences, DList

CONSTANTS Sems, Tasks, MaxCount

VARIABLES
    val,    \* val[s]: the tokens on hand
    queue,  \* queue[s]: the tasks that wait, oldest first
    got,    \* got[s]: the tasks that were handed a token and have not returned yet
    late    \* late[s]: the tasks whose wait has timed out, not returned yet

semVars == <<val, queue, got, late>>

SemaphoreInit ==
    /\ val = [s \in Sems |-> 0]
    /\ queue = [s \in Sems |-> <<>>]
    /\ got = [s \in Sems |-> {}]
    /\ late = [s \in Sems |-> {}]

Idles(t) == \A s \in Sems : t \notin Range(queue[s]) \cup got[s] \cup late[s]

Create(s, n) ==
    /\ queue[s] = <<>>
    /\ val' = [val EXCEPT ![s] = n]
    /\ UNCHANGED <<queue, got, late>>

Take(s) ==
    /\ val[s] > 0
    /\ val' = [val EXCEPT ![s] = val[s] - 1]
    /\ UNCHANGED <<queue, got, late>>

Wait(s, t) ==
    /\ val[s] = 0
    /\ Idles(t)
    /\ queue' = [queue EXCEPT ![s] = Append(queue[s], t)]
    /\ UNCHANGED <<val, got, late>>

Put(s) ==
    /\ queue[s] = <<>>
    /\ val' = [val EXCEPT ![s] = val[s] + 1]
    /\ UNCHANGED <<queue, got, late>>

Hand(s) ==
    /\ queue[s] # <<>>
    /\ queue' = [queue EXCEPT ![s] = Tail(queue[s])]
    /\ got' = [got EXCEPT ![s] = got[s] \cup {queue[s][1]}]
    /\ UNCHANGED <<val, late>>

TimeOut(s, t) ==
    /\ t \in Range(queue[s])
    /\ queue' = [queue EXCEPT ![s] = Without(queue[s], t)]
    /\ late' = [late EXCEPT ![s] = late[s] \cup {t}]
    /\ UNCHANGED <<val, got>>

Return(s, t) ==
    /\ t \in got[s] \cup late[s]
    /\ got' = [got EXCEPT ![s] = got[s] \ {t}]
    /\ late' = [late EXCEPT ![s] = late[s] \ {t}]
    /\ UNCHANGED <<val, queue>>

\* The task is deleted; a token it was handed is gone with it.
Kill(t) ==
    /\ queue' = [s \in Sems |-> Without(queue[s], t)]
    /\ got' = [s \in Sems |-> got[s] \ {t}]
    /\ late' = [s \in Sems |-> late[s] \ {t}]
    /\ UNCHANGED val

SemaphoreNext ==
    \/ \E s \in Sems :
          \/ \E n \in 0..MaxCount : Create(s, n)
          \/ Take(s)
          \/ Put(s)
          \/ Hand(s)
          \/ \E t \in Tasks : Wait(s, t) \/ TimeOut(s, t) \/ Return(s, t)
    \/ \E t \in Tasks : Kill(t)

SemaphoreSpec == SemaphoreInit /\ [][SemaphoreNext]_semVars
=============================================================================
