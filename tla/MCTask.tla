------------------------------- MODULE MCTask -------------------------------
(***************************************************************************)
(* Instances of Task for TLC.                                              *)
(***************************************************************************)
EXTENDS Task, TLC

CONSTANTS t1, t2, t3

\* The free list of the first boot is in array order; the names of the TCBs
\* do not matter.
TaskSymmetry == Permutations(Tasks)
=============================================================================
