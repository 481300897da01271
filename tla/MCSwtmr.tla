------------------------------ MODULE MCSwtmr ------------------------------
(***************************************************************************)
(* Instances of Swtmr for TLC.                                             *)
(***************************************************************************)
EXTENDS Swtmr, TLC

CONSTANTS t1, t2
=============================================================================
