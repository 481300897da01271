------------------------------- MODULE DList -------------------------------
(***************************************************************************)
(* The doubly linked list of utils/los_list.h, abstracted to the sequence  *)
(* of its members from the head's pstNext to its pstPrev.  A node of the   *)
(* C list is on at most one list, so the sequences the kernel builds have  *)
(* no repetition; Without(s, e) is the list after LOS_ListDelete(e).       *)
(***************************************************************************)
EXTENDS Integers, Sequences, Functions

\* The position of e in the list s.
IndexIn(s, e) == CHOOSE i \in DOMAIN s : s[i] = e

\* LOS_ListDelete: unlink e, closing the gap (s itself when e is elsewhere).
Without(s, e) ==
    IF e \notin Range(s)
    THEN s
    ELSE [j \in 1..(Len(s) - 1) |-> IF j < IndexIn(s, e) THEN s[j] ELSE s[j + 1]]

\* A list that visits no node twice.
NoDup(s) == \A i, j \in DOMAIN s : s[i] = s[j] => i = j
=============================================================================
