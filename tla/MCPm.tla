-------------------------------- MODULE MCPm --------------------------------
(***************************************************************************)
(* An instance of Pm for TLC.                                              *)
(***************************************************************************)
EXTENDS Pm, TLC

CONSTANTS t1, c1, c2, n1
=============================================================================
