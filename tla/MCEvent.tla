------------------------------ MODULE MCEvent ------------------------------
(***************************************************************************)
(* Instances of Event for TLC.                                             *)
(***************************************************************************)
EXTENDS Event, TLC

CONSTANTS t1, t2, e1, b1, b2

\* The names of the TCBs and of the bits do not matter.
EventSymmetry == Permutations(Tasks) \cup Permutations(Bits)
=============================================================================
