------------------------------- MODULE MCMem -------------------------------
(***************************************************************************)
(* Instances of Mem for TLC.                                               *)
(***************************************************************************)
EXTENDS Mem

CONSTANTS h1, h2, h3, a, b

\* Blocks are interchangeable, and so are tasks.
MemSymmetry == Permutations(Handles) \cup Permutations(MemTasks)

\* A region behind a gap of one word.
TheRegion == [gap |-> 1, length |-> 8]
=============================================================================
