------------------------------ MODULE MCQueue ------------------------------
(***************************************************************************)
(* Instances of Queue for TLC.                                             *)
(***************************************************************************)
EXTENDS Queue, TLC

CONSTANTS t1, t2, v1, v2, b1

\* The names of the TCBs and of the messages do not matter.
QueueSymmetry == Permutations(Tasks) \cup Permutations(Values)
=============================================================================
