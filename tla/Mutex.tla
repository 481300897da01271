------------------------------- MODULE Mutex -------------------------------
(***************************************************************************)
(* What a recursive mutex promises: at most one owner, which alone can     *)
(* release it; a released mutex goes to the task that waits longest; and a *)
(* wait ends either with ownership or as timed out.                        *)
(***************************************************************************)
EXTENDS Naturals, Sequences, DList

CONSTANTS Muxes, Tasks, NULL, MaxNest

VARIABLES
    owner,  \* owner[m]: the task that has m, or NULL
    depth,  \* depth[m]: how often its owner has locked it
    queue,  \* queue[m]: the tasks that wait, oldest first
    late    \* the tasks whose wait has timed out and that have not returned

mutexVars == <<owner, depth, queue, late>>

MutexInit ==
    /\ owner = [m \in Muxes |-> NULL]
    /\ depth = [m \in Muxes |-> 0]
    /\ queue = [m \in Muxes |-> <<>>]
    /\ late = {}

Waits(t) == \E m \in Muxes : t \in Range(queue[m])

SetOwner(m, t, n) ==
    /\ owner' = [owner EXCEPT ![m] = t]
    /\ depth' = [depth EXCEPT ![m] = n]

Lock(m, t) ==
    /\ ~Waits(t) /\ t \notin late
    /\ \/ owner[m] = NULL /\ SetOwner(m, t, 1)
       \/ owner[m] = t /\ depth[m] < MaxNest /\ SetOwner(m, t, depth[m] + 1)
    /\ UNCHANGED <<queue, late>>

Wait(m, t) ==
    /\ ~Waits(t) /\ t \notin late
    /\ owner[m] \notin {NULL, t}
    /\ queue' = [queue EXCEPT ![m] = Append(queue[m], t)]
    /\ UNCHANGED <<owner, depth, late>>

\* The owner, which is not waiting for anything itself, unlocks once.
Unlock(m) ==
    /\ owner[m] # NULL
    /\ ~Waits(owner[m]) /\ owner[m] \notin late
    /\ CASE depth[m] > 1 ->
              SetOwner(m, owner[m], depth[m] - 1) /\ UNCHANGED queue
         [] depth[m] = 1 /\ queue[m] = <<>> ->
              SetOwner(m, NULL, 0) /\ UNCHANGED queue
         [] depth[m] = 1 /\ queue[m] # <<>> ->
              /\ SetOwner(m, queue[m][1], 1)
              /\ queue' = [queue EXCEPT ![m] = Tail(queue[m])]
    /\ UNCHANGED late

TimeOut(m, t) ==
    /\ t \in Range(queue[m])
    /\ queue' = [queue EXCEPT ![m] = Without(queue[m], t)]
    /\ late' = late \cup {t}
    /\ UNCHANGED <<owner, depth>>

Return(t) ==
    /\ t \in late
    /\ late' = late \ {t}
    /\ UNCHANGED <<owner, depth, queue>>

MutexNext ==
    \/ \E m \in Muxes :
          Unlock(m) \/ \E t \in Tasks : Lock(m, t) \/ Wait(m, t) \/ TimeOut(m, t)
    \/ \E t \in Tasks : Return(t)

MutexSpec == MutexInit /\ [][MutexNext]_mutexVars
=============================================================================
