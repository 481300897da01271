-------------------------------- MODULE MCSem -------------------------------
(***************************************************************************)
(* Instances of Sem for TLC.                                               *)
(***************************************************************************)
EXTENDS Sem, TLC

CONSTANTS t1, t2, s1

\* The names of the TCBs do not matter.
TaskSymmetry == Permutations(Tasks)
=============================================================================
