-------------------------------- MODULE MCMux -------------------------------
(***************************************************************************)
(* Instances of Mux for TLC.                                               *)
(***************************************************************************)
EXTENDS Mux, TLC

CONSTANTS t1, t2, t3, m1

\* The names of the TCBs do not matter.
TaskSymmetry == Permutations(Tasks)
=============================================================================
